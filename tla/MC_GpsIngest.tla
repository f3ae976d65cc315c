--------------------------- MODULE MC_GpsIngest ---------------------------
(* GpsIngest on small instances; times are compared, so only the vehicles, *)
(* the places and the subscribers are interchangeable.                     *)
EXTENDS GpsIngest, TLC

Symmetry == Permutations(VehicleIds) \cup Permutations(Places) \cup Permutations(Subscribers)
=============================================================================
