------------------------ MODULE MC_FleetAssignment ------------------------
(* FleetAssignment on small instances: ids are model values, which none of *)
(* the code compares except for equality, so permuting them is sound, and  *)
(* so is permuting the slots when all of them serve assignments.           *)
EXTENDS FleetAssignment, TLC

IdSymmetry ==
    Permutations(UserIds) \cup Permutations(RouteIds) \cup Permutations(VehicleIds)

IdAndWorkerSymmetry == IdSymmetry \cup Permutations(Workers)
=============================================================================
