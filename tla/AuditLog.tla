------------------------------ MODULE AuditLog ------------------------------
(***************************************************************************)
(* What the audit log promises its readers: a sequence of records that     *)
(* only grows, in which every request's records stand together, complete   *)
(* and in the order the request appended them, at most once.               *)
(***************************************************************************)
EXTENDS Naturals, Sequences

CONSTANTS Req, MaxRecs

VARIABLES
    log,        \* the records a reader sees, oldest first
    published   \* the requests whose records are in the log

(* The first n records of request r.                                       *)
Batch(r, n) == [i \in 1 .. n |-> <<r, i>>]

Init == log = << >> /\ published = {}

Publish(r) ==
    /\ r \notin published
    /\ \E n \in 1 .. MaxRecs : log' = log \o Batch(r, n)
    /\ published' = published \cup {r}

Next == \E r \in Req : Publish(r)

Spec == Init /\ [][Next]_<<log, published>>
=============================================================================
