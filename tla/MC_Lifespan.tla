---------------------------- MODULE MC_Lifespan ----------------------------
(* A route of 4 segments, the third of length 0; a step longer than any.   *)
EXTENDS Lifespan

FourSegments == <<0, 2, 3, 3, 5>>
=============================================================================
