SPECIFICATION Spec
CONSTANTS
    b1 = b1
    b2 = b2
    b3 = b3
    m1 = m1
    x1 = x1
    x2 = x2
    x3 = x3
    e1 = e1
    e2 = e2
    p1 = p1
    p2 = p2
    p3 = p3
    Entry = {e1, e2}
    Path = {p1, p2, p3}
    Fresh = "new"
    InRoot = {p1, p2}
    home <- MC_home
    Build = {b1, b2, b3}
    Apply = {m1}
    Runner = {x1, x2}
    owner <- MC_owner
    key <- MC_key
    NoKey = "no key"
    Made <- MC_Made
    BlastCap = 1
    c1 = c1
    Reader = {c1}
    root <- MC_root
    rel <- MC_rel
    MAX_SIDE_ENTRIES = 1
    MAX_ITEMS = 1
INVARIANTS OnePlanPerKey KeeperSurvives ComparisonIsExact
