------------------------------ MODULE Reconcile ------------------------------
(* The catalogue rows of files, and the comparison of two copies of a folder: *)
(* a definitive root and a comparison root, whose files are matched by their  *)
(* relative path.  A comparison is a transaction of several SELECTs at READ   *)
(* COMMITTED; scans change rows between them.                                 *)
EXTENDS Integers, FiniteSets

CONSTANTS
    Entry, Path,        \* fs_entry rows (an inode each) and paths
    Reader,             \* comparison requests
    root,               \* [Path -> "definitive", "comparison" or "neither"]
    rel,                \* [Path -> the path relative to its root, a number in sort order]
    MAX_SIDE_ENTRIES,
    MAX_ITEMS

ASSUME ReconcileConstants ==
    /\ root \in [Path -> {"definitive", "comparison", "neither"}]
    /\ rel \in [Path -> Nat]
    /\ MAX_SIDE_ENTRIES \in Nat /\ MAX_ITEMS \in Nat \ {0}
    /\ IsFiniteSet(Entry)

VARIABLES
    cat,        \* [Entry -> [path, hash, size, present]]
    step,       \* [Reader -> the statement it runs next]
    found,      \* [Reader -> the rows and pairs it has counted]
    listed,     \* [Reader -> the items of the answer]
    changed     \* history: relative paths with a row that changed since it began

compare == <<step, found, listed, changed>>

None == "none"
Answered == {"compared", "refused", "timeout"}

CompareInit(requests) ==
    /\ step = [c \in Reader |-> IF c \in requests THEN "new" ELSE "refused"]
    /\ found = [c \in Reader |-> {}] /\ listed = [c \in Reader |-> {}]
    /\ changed = [c \in Reader |-> {}]

(* The present files below a root.                                            *)
_side(s) == {e \in Entry : cat[e].present /\ root[cat[e].path] = s}

relpath(e) == rel[cat[e].path]

(* The class of a matched pair.  Equal content with equal and with different  *)
(* mtime are one class here.                                                  *)
classify(d, c) ==
    LET hashed == cat[d].hash # None /\ cat[c].hash # None
    IN  CASE hashed /\ cat[d].hash = cat[c].hash  -> "same"
          [] hashed /\ cat[d].hash # cat[c].hash  -> "diverged"
          [] ~hashed /\ cat[d].size # cat[c].size -> "diverged"
          [] OTHER                                -> "size_match_unhashed"

(* The three joins: pairs with one relative path, and the rows of either side *)
(* that have no partner.                                                      *)
Matched ==
    {[rel |-> relpath(p[1]), class |-> classify(p[1], p[2]), rows |-> {p[1], p[2]}] :
        p \in {q \in _side("definitive") \X _side("comparison") : relpath(q[1]) = relpath(q[2])}}

Missing(from, on, class) ==
    {[rel |-> relpath(e), class |-> class, rows |-> {e}] :
        e \in {d \in _side(from) : \A c \in _side(on) : relpath(c) # relpath(d)}}

MissingOnComparison == Missing("definitive", "comparison", "missing_on_comparison")
MissingOnDefinitive == Missing("comparison", "definitive", "missing_on_definitive")

Flagged == {i \in Matched : i.class \in {"diverged", "size_match_unhashed"}}

-----------------------------------------------------------------------------
(* A volume out of scope, or a root that is not within it.                    *)
RefuseCompare(c) ==
    /\ step[c] = "new"
    /\ step' = [step EXCEPT ![c] = "refused"]
    /\ UNCHANGED <<found, listed, changed>>

(* _count_side_capped, once per side: a side over the cap is refused (413),   *)
(* after both are counted.                                                    *)
TooLarge(s) == Cardinality(_side(s)) > MAX_SIDE_ENTRIES

CountSide(c) ==
    /\ \/ step[c] = "new" /\ step' = [step EXCEPT ![c] =
              IF TooLarge("definitive") THEN "large" ELSE "small"]
       \/ step[c] \in {"small", "large"} /\ step' = [step EXCEPT ![c] =
              IF step[c] = "large" \/ TooLarge("comparison") THEN "refused" ELSE "matched"]
    /\ UNCHANGED <<found, listed, changed>>

(* _compare_inner: the counts.                                                *)
Count(c, at, rows, next) ==
    /\ step[c] = at
    /\ step' = [step EXCEPT ![c] = next]
    /\ found' = [found EXCEPT ![c] = @ \cup rows]
    /\ UNCHANGED <<listed, changed>>

CountClasses(c) ==
    \/ Count(c, "matched", Matched, "on_comparison")
    \/ Count(c, "on_comparison", MissingOnComparison, "on_definitive")
    \/ Count(c, "on_definitive", MissingOnDefinitive, "flagged")

(* ORDER BY relpath LIMIT n                                                   *)
First(n, rows) ==
    CHOOSE f \in SUBSET rows :
        /\ Cardinality(f) = IF Cardinality(rows) < n THEN Cardinality(rows) ELSE n
        /\ \A i \in f, j \in rows \ f : i.rel <= j.rel

(* _sample_items: up to MAX_ITEMS of those that need attention.               *)
Sample(c, at, rows, next) ==
    /\ step[c] = at
    /\ step' = [step EXCEPT ![c] = next]
    /\ listed' = [listed EXCEPT ![c] = @ \cup First(MAX_ITEMS - Cardinality(@), rows)]
    /\ UNCHANGED <<found, changed>>

SampleItems(c) ==
    \/ Sample(c, "flagged", Flagged, "list_comparison")
    \/ Sample(c, "list_comparison", MissingOnComparison, "list_definitive")
    \/ Sample(c, "list_definitive", MissingOnDefinitive, "compared")

(* Mutant of truncated: the limit itself is not seen as a cut.                *)
truncatedAbove(c) == Cardinality(listed[c]) > MAX_ITEMS

(* A list of exactly MAX_ITEMS counts as cut.                                 *)
truncated(c) == Cardinality(listed[c]) >= MAX_ITEMS

(* The statement_timeout (PostgreSQL): the answer is 504.                     *)
StatementTimeout(c) ==
    /\ step[c] \notin Answered \cup {"new", "small", "large"}
    /\ step' = [step EXCEPT ![c] = "timeout"]
    /\ UNCHANGED <<found, listed, changed>>

Compare(c) ==
    \/ RefuseCompare(c) \/ CountSide(c) \/ CountClasses(c) \/ SampleItems(c)
    \/ StatementTimeout(c)

(* A scan gives a row another state.                                          *)
RowBecomes(e, row) ==
    /\ cat' = [cat EXCEPT ![e] = row]
    /\ changed' = [c \in Reader |->
          IF step[c] \in {"new", "refused", "timeout"} THEN changed[c]
          ELSE changed[c] \cup {relpath(e), rel[row.path]}]
    /\ UNCHANGED <<step, found, listed>>

-----------------------------------------------------------------------------
(* Properties                                                                *)

Rows(s, r) == {e \in _side(s) : relpath(e) = r}

(* A comparison that scans overlap is still right about every relative path   *)
(* that they left alone, if no side has two rows for it: it is counted once,  *)
(* in a class that says which sides have it and that calls two files the same *)
(* only with one known hash; and unless the answer is marked truncated, every *)
(* such path that is not the same on both sides is listed.                    *)
ComparisonIsExact ==
    \A c \in Reader : step[c] = "compared" =>
        \A r \in {rel[p] : p \in Path} \ changed[c] :
            LET d == Rows("definitive", r)
                k == Rows("comparison", r)
                of == {i \in found[c] : i.rel = r}
            IN  Cardinality(d) <= 1 /\ Cardinality(k) <= 1 =>
                    /\ Cardinality(of) = IF d \cup k = {} THEN 0 ELSE 1
                    /\ \A i \in of :
                          /\ i.rows = d \cup k
                          /\ i.class = "missing_on_comparison" <=> k = {}
                          /\ i.class = "missing_on_definitive" <=> d = {}
                          /\ i.class = "same" => \E h \in {cat[e].hash : e \in i.rows} \ {None} :
                                                    \A e \in i.rows : cat[e].hash = h
                          /\ ~truncated(c) /\ i.class # "same" => i \in listed[c]
==============================================================================
