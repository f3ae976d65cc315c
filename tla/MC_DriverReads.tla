-------------------------- MODULE MC_DriverReads --------------------------
EXTENDS DriverReads, TLC

IdSymmetry == Permutations(UserIds) \cup Permutations(RouteIds) \cup Permutations(VehicleIds)
=============================================================================
