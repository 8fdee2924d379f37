----------------------------- MODULE MCFilePull -----------------------------
(* Two previews of copies of one file and a browse request.                  *)
EXTENDS FilePull, TLC
CONSTANTS p1, p2, b1, h1, h2, e1, e2
MC_target == [r \in Req |-> IF r = p2 THEN e2 ELSE e1]
MC_Made == {{p1, p2}, {p1, b1}}
MC_host_of == [e \in Entry |-> h1]
MC_stored == [e \in Entry |-> "A"]
=============================================================================
