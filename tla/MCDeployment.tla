---------------------------- MODULE MCDeployment ----------------------------
(* A run of two hosts and one of one host, or one host, a probe and a token.  *)
EXTENDS Deployment, TLC
CONSTANTS r1, r2, i1, i2, i3, p1, t1, t2, f1, f2
MC_run_of == [i \in Item |-> IF i = i3 THEN r2 ELSE r1]
MC_token_of == [f \in Fetch |-> t1]
MC_Made == {{r1, r2}, {r2, p1, t1, f1, f2}, {t1, t2, f1, f2}}
=============================================================================
