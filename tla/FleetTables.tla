--------------------------- MODULE FleetTables ---------------------------
(***************************************************************************)
(* What the fleet's tables go through whatever requests race: rows come    *)
(* and go, one at a time, nothing that is referred to is deleted, and an   *)
(* assignment writes columns whose foreign keys hold.  Nothing here keeps  *)
(* two users from one route or vehicle, nor a row from half a pair.        *)
(***************************************************************************)
CONSTANTS UserIds, RouteIds, VehicleIds, None

VARIABLES users, routes, vehicles, tracked, issued

vars == <<users, routes, vehicles, tracked, issued>>

NoPair == [route |-> None, vehicle |-> None]

Init ==
    /\ users = [u \in {} |-> NoPair]
    /\ routes = {} /\ vehicles = {} /\ tracked = {} /\ issued = {}

CreateRoute(r) ==
    /\ r \notin issued
    /\ routes' = routes \cup {r} /\ issued' = issued \cup {r}
    /\ UNCHANGED <<users, vehicles, tracked>>

CreateVehicle(v) ==
    /\ v \notin issued
    /\ vehicles' = vehicles \cup {v} /\ issued' = issued \cup {v}
    /\ UNCHANGED <<users, routes, tracked>>

CreateUser(u) ==
    /\ u \notin issued
    /\ users' = [x \in DOMAIN users \cup {u} |-> IF x = u THEN NoPair ELSE users[x]]
    /\ issued' = issued \cup {u}
    /\ UNCHANGED <<routes, vehicles, tracked>>

\* The bodies an admin can send: a whole pair, or none of it.
Bodies == {p \in [route : RouteIds \cup {None}, vehicle : VehicleIds \cup {None}] :
             (p.route = None) <=> (p.vehicle = None)}

\* Some columns of a user's row are given the values of a body, none of them an id
\* whose row is gone.  The other columns keep what another request may have written.
SetColumns(u, body, columns) ==
    /\ u \in DOMAIN users
    /\ "route" \in columns => body.route \in routes \cup {None}
    /\ "vehicle" \in columns => body.vehicle \in vehicles \cup {None}
    /\ users' = [users EXCEPT ![u] =
         [route   |-> IF "route" \in columns THEN body.route ELSE @.route,
          vehicle |-> IF "vehicle" \in columns THEN body.vehicle ELSE @.vehicle]]
    /\ UNCHANGED <<routes, vehicles, tracked, issued>>

DeleteRoute(r) ==
    /\ \A u \in DOMAIN users : users[u].route # r
    /\ routes' = routes \ {r}
    /\ UNCHANGED <<users, vehicles, tracked, issued>>

DeleteVehicle(v) ==
    /\ v \notin tracked /\ \A u \in DOMAIN users : users[u].vehicle # v
    /\ vehicles' = vehicles \ {v}
    /\ UNCHANGED <<users, routes, tracked, issued>>

DeleteUser(u) ==
    /\ users' = [x \in DOMAIN users \ {u} |-> users[x]]
    /\ UNCHANGED <<routes, vehicles, tracked, issued>>

Track(v) ==
    /\ v \in vehicles
    /\ tracked' = tracked \cup {v}
    /\ UNCHANGED <<users, routes, vehicles, issued>>

\* Everything but the assignments.
Maintain ==
    \/ \E r \in RouteIds : CreateRoute(r) \/ DeleteRoute(r)
    \/ \E v \in VehicleIds : CreateVehicle(v) \/ DeleteVehicle(v) \/ Track(v)
    \/ \E u \in UserIds : CreateUser(u) \/ DeleteUser(u)

Next ==
    \/ Maintain
    \/ \E u \in UserIds, body \in Bodies, columns \in SUBSET {"route", "vehicle"} :
         SetColumns(u, body, columns)

Spec == Init /\ [][Next]_vars
=============================================================================
