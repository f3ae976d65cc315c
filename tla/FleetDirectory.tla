------------------------- MODULE FleetDirectory -------------------------
(***************************************************************************)
(* What the admin API promises of the fleet: an assignment is given,       *)
(* replaced and taken back as one pair, in one step, to one user at a      *)
(* time, and nothing in use is ever deleted (the header of                 *)
(* app/services/fleet_admin_service.py).                                   *)
(***************************************************************************)
EXTENDS FleetTables

Assign(u, r, v) ==
    /\ u \in DOMAIN users /\ r \in routes /\ v \in vehicles
    /\ \A x \in DOMAIN users \ {u} : users[x].route # r /\ users[x].vehicle # v
    /\ users' = [users EXCEPT ![u] = [route |-> r, vehicle |-> v]]
    /\ UNCHANGED <<routes, vehicles, tracked, issued>>

Unassign(u) ==
    /\ u \in DOMAIN users
    /\ users' = [users EXCEPT ![u] = NoPair]
    /\ UNCHANGED <<routes, vehicles, tracked, issued>>

DirectoryNext ==
    \/ Maintain
    \/ \E u \in UserIds : Unassign(u)
    \/ \E u \in UserIds, r \in RouteIds, v \in VehicleIds : Assign(u, r, v)

DirectorySpec == Init /\ [][DirectoryNext]_vars
=============================================================================
