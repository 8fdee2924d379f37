--------------------------- MODULE MCScanPipeline ---------------------------
(* Two contents that differ in their heads or tails.                       *)
EXTENDS ScanPipeline

CONSTANTS a, c

HeadAndTail == [x \in Content |-> IF x = c THEN "other" ELSE "same"]
=============================================================================
