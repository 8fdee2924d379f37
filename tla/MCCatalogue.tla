---------------------------- MODULE MCCatalogue ----------------------------
(* A native volume with a file in its root and one in a directory, and a     *)
(* network mount of another host with a third; all have one size.            *)
EXTENDS Catalogue

Volumes == [e1 |-> "v1", e2 |-> "v1", e3 |-> "v2"]
Paths == [e1 |-> <<"a", "f">>, e2 |-> <<"g">>, e3 |-> <<"f">>]
OneSize == [e1 |-> 3, e2 |-> 3, e3 |-> 3]
Ages == [e1 |-> 2, e2 |-> 2, e3 |-> 1]
=============================================================================
