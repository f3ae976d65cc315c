---------------------------- MODULE MC_FleetSeed ----------------------------
(* FleetSeed with an admin account and one demo driver.                    *)
EXTENDS FleetSeed

AdminAndDriver == {
    [email |-> "admin", route |-> None, vehicle |-> None],
    [email |-> "ravi", route |-> "airport", vehicle |-> "BUS-001"] }
=============================================================================
