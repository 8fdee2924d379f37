------------------------------ MODULE MCFleet ------------------------------
(* Two hosts and one heavy slot.  Core runs with the coordinator or with the *)
(* watch worker: they share the run reports only.                            *)
EXTENDS Fleet

TwoHosts == <<"h1", "h2">>
OneGrows == [h1 |-> {"heavy"}, h2 |-> {"light", "heavy"}]
OneOfTwo == {[coordinator |-> TRUE, watch |-> FALSE], [coordinator |-> FALSE, watch |-> TRUE]}
=============================================================================
