------------------------- MODULE FleetAssignment -------------------------
(***************************************************************************)
(* The admin API's assignment core: create and delete routes, vehicles and *)
(* users, give a user one route and one vehicle, take them back            *)
(* (app/services/fleet_admin_service.py behind app/api/v1/admin), next to  *)
(* the GPS ingestion that gives a vehicle tracking data.                   *)
(*                                                                         *)
(* Every request runs in a database session of its own under READ          *)
(* COMMITTED: each statement sees what is committed when it runs, and the  *)
(* other requests' statements may come in between.  One action is one      *)
(* statement of a handler, with the Python that follows it up to the next  *)
(* await.  A flush and its commit are one action: the row locks taken by   *)
(* the flush keep every conflicting statement waiting until the commit.    *)
(*                                                                         *)
(* Abstracted: names, codes, e-mails, passwords, waypoints and flags (the  *)
(* uniqueness checks on them end a request without a change of the state   *)
(* below), the read-only endpoints, and the answer a request gets.  The    *)
(* acting admin has no assignment, so its session holds no other row.      *)
(***************************************************************************)
EXTENDS FiniteSets, Naturals

CONSTANTS
    UserIds, RouteIds, VehicleIds,  \* the ids the sequences hand out, each once
    Workers,                        \* request slots of the API process
    Assigners,                      \* the slots that serve PUT /assignment
    None                            \* SQL NULL

ASSUME AssignersAssumption == Assigners \subseteq Workers
ASSUME IdsAssumption == /\ UserIds \cap RouteIds = {}
                        /\ UserIds \cap VehicleIds = {}
                        /\ RouteIds \cap VehicleIds = {}
ASSUME NoneAssumption == None \notin UserIds \cup RouteIds \cup VehicleIds

VARIABLES
    users,    \* users table: id -> [route, vehicle], for the ids of its rows
    routes,   \* ids in bus_routes
    vehicles, \* ids in vehicles
    tracked,  \* vehicles with gps_points and a vehicle_current_location row
    issued,   \* ids handed out so far
    request,  \* the request each worker is serving
    fix       \* vehicle of the GPS fix being stored, None between two fixes

tables == <<users, routes, vehicles, tracked, issued>>
vars == <<users, routes, vehicles, tracked, issued, request, fix>>

Pairs == [route : RouteIds \cup {None}, vehicle : VehicleIds \cup {None}]
NoPair == [route |-> None, vehicle |-> None]

Steps == {"idle", "getRoute", "getVehicle", "checkRoute", "checkVehicle", "save",
          "countRouteUsers", "deleteRoute",
          "countVehicleUsers", "countHistory", "getCurrent", "deleteVehicle",
          "deleteUser"}

\* A request: its next statement, its target user, the pair of its body (or
\* its target route or vehicle alone), the user's pair as its session loaded it.
Requests == [at : Steps, user : UserIds \cup {None}, pair : Pairs, loaded : Pairs]
Idle == [at |-> "idle", user |-> None, pair |-> NoPair, loaded |-> NoPair]

TypeOK ==
    /\ DOMAIN users \subseteq UserIds /\ users \in [DOMAIN users -> Pairs]
    /\ routes \subseteq RouteIds
    /\ vehicles \subseteq VehicleIds
    /\ tracked \subseteq VehicleIds
    /\ issued \subseteq UserIds \cup RouteIds \cup VehicleIds
    /\ request \in [Workers -> Requests]
    /\ fix \in VehicleIds \cup {None}

\* The migrated, empty database.
Init ==
    /\ users = [u \in {} |-> NoPair]
    /\ routes = {} /\ vehicles = {} /\ tracked = {} /\ issued = {}
    /\ request = [w \in Workers |-> Idle]
    /\ fix = None

-----------------------------------------------------------------------------
(* The database's own constraints                                          *)

\* Mutant: GPS data without foreign keys to its vehicle.
VehicleReferencedByUser(v) == \E u \in DOMAIN users : users[u].vehicle = v

\* NO ACTION foreign keys users.route_id and users.vehicle_id.
RouteReferenced(r) == \E u \in DOMAIN users : users[u].route = r
VehicleReferenced(v) == (\E u \in DOMAIN users : users[u].vehicle = v) \/ v \in tracked

\* Mutant: the two columns set the wrong way round.
UpdatedSwapped(row, q) == [route |-> q.pair.vehicle, vehicle |-> q.pair.route]

\* The ORM's UPDATE writes the columns whose value differs from the loaded one.
Updated(row, q) ==
    [route   |-> IF q.pair.route = q.loaded.route THEN row.route ELSE q.pair.route,
     vehicle |-> IF q.pair.vehicle = q.loaded.vehicle THEN row.vehicle ELSE q.pair.vehicle]

\* Mutant: users.route_id without its foreign key.
UpdateFailsOnVehicle(q) ==
    \/ q.user \notin DOMAIN users
    \/ q.pair.vehicle # q.loaded.vehicle /\ q.pair.vehicle \notin vehicles \cup {None}

\* It fails on a row that is gone and on a written foreign key that dangles.
UpdateFails(q) ==
    \/ q.user \notin DOMAIN users
    \/ q.pair.route # q.loaded.route /\ q.pair.route \notin routes \cup {None}
    \/ q.pair.vehicle # q.loaded.vehicle /\ q.pair.vehicle \notin vehicles \cup {None}

-----------------------------------------------------------------------------
At(w, step) == request[w].at = step
Goto(w, step) == request' = [request EXCEPT ![w].at = step]
Finish(w) == request' = [request EXCEPT ![w] = Idle]
Begin(w, q) == request[w] = Idle /\ request' = [request EXCEPT ![w] = q]

\* A statement that finds nothing wrong goes on, any other ends the request.
Check(w, ok, step) == IF ok THEN Goto(w, step) ELSE Finish(w)

OnlyRequests == UNCHANGED <<tables, fix>>

-----------------------------------------------------------------------------
(* POST /routes, /vehicles, /users: one INSERT                             *)

CreateRoute(r) ==
    /\ r \in RouteIds \ issued
    /\ routes' = routes \cup {r} /\ issued' = issued \cup {r}
    /\ UNCHANGED <<users, vehicles, tracked, request, fix>>

CreateVehicle(v) ==
    /\ v \in VehicleIds \ issued
    /\ vehicles' = vehicles \cup {v} /\ issued' = issued \cup {v}
    /\ UNCHANGED <<users, routes, tracked, request, fix>>

CreateUser(u) ==
    /\ u \in UserIds \ issued
    /\ users' = [x \in DOMAIN users \cup {u} |-> IF x = u THEN NoPair ELSE users[x]]
    /\ issued' = issued \cup {u}
    /\ UNCHANGED <<routes, vehicles, tracked, request, fix>>

-----------------------------------------------------------------------------
(* PUT /users/{id}/assignment                                              *)

\* AssignmentUpdate's validator lets no half pair through.
Bodies == {p \in Pairs : (p.route = None) <=> (p.vehicle = None)}

GetUser(w, u, p) ==
    /\ w \in Assigners
    /\ u \in DOMAIN users
    /\ Begin(w, [at |-> IF p = NoPair THEN "save" ELSE "getRoute",
                 user |-> u, pair |-> p, loaded |-> users[u]])
    /\ OnlyRequests

\* The loaded user brought its own route and vehicle into the session, so that
\* get_route and get_vehicle find these two without asking the database.
GetRoute(w) ==
    /\ At(w, "getRoute")
    /\ LET q == request[w] IN
         Check(w, q.pair.route \in routes \cup {q.loaded.route}, "getVehicle")
    /\ OnlyRequests

GetVehicle(w) ==
    /\ At(w, "getVehicle")
    /\ LET q == request[w] IN
         Check(w, q.pair.vehicle \in vehicles \cup {q.loaded.vehicle}, "checkRoute")
    /\ OnlyRequests

\* Mutants: looking for the route the user has instead of the one it gets, and
\* skipping the vehicle check on a first assignment.
OtherLoadedRouteUser(q) ==
    \E u \in DOMAIN users \ {q.user} : users[u].route = q.loaded.route
OtherVehicleUserOfAssigned(q) ==
    /\ q.loaded.vehicle # None
    /\ \E u \in DOMAIN users \ {q.user} : users[u].vehicle = q.pair.vehicle

OtherRouteUser(q) == \E u \in DOMAIN users \ {q.user} : users[u].route = q.pair.route
OtherVehicleUser(q) == \E u \in DOMAIN users \ {q.user} : users[u].vehicle = q.pair.vehicle

CheckRoute(w) ==
    /\ At(w, "checkRoute")
    /\ Check(w, ~OtherRouteUser(request[w]), "checkVehicle")
    /\ OnlyRequests

CheckVehicle(w) ==
    /\ At(w, "checkVehicle")
    /\ Check(w, ~OtherVehicleUser(request[w]), "save")
    /\ OnlyRequests

\* Both branches of set_assignment end here: set the two columns and commit.
SaveAssignment(w) ==
    /\ At(w, "save")
    /\ LET q == request[w] IN
         users' = IF UpdateFails(q) THEN users
                  ELSE [users EXCEPT ![q.user] = Updated(@, q)]
    /\ Finish(w)
    /\ UNCHANGED <<routes, vehicles, tracked, issued, fix>>

-----------------------------------------------------------------------------
(* DELETE /routes/{id}: get_route, count the users, delete                 *)

StartDeleteRoute(w, r) ==
    /\ r \in routes
    /\ Begin(w, [Idle EXCEPT !.at = "countRouteUsers", !.pair.route = r])
    /\ OnlyRequests

CountRouteUsers(w) ==
    /\ At(w, "countRouteUsers")
    /\ Check(w, ~RouteReferenced(request[w].pair.route), "deleteRoute")
    /\ OnlyRequests

DeleteRoute(w) ==
    /\ At(w, "deleteRoute")
    /\ LET r == request[w].pair.route IN
         routes' = IF RouteReferenced(r) THEN routes ELSE routes \ {r}
    /\ Finish(w)
    /\ UNCHANGED <<users, vehicles, tracked, issued, fix>>

-----------------------------------------------------------------------------
(* DELETE /vehicles/{id}: get_vehicle, three checks, delete                *)

StartDeleteVehicle(w, v) ==
    /\ v \in vehicles
    /\ Begin(w, [Idle EXCEPT !.at = "countVehicleUsers", !.pair.vehicle = v])
    /\ OnlyRequests

CountVehicleUsers(w) ==
    /\ At(w, "countVehicleUsers")
    /\ Check(w, ~\E u \in DOMAIN users : users[u].vehicle = request[w].pair.vehicle,
             "countHistory")
    /\ OnlyRequests

CountHistory(w) ==
    /\ At(w, "countHistory")
    /\ Check(w, request[w].pair.vehicle \notin tracked, "getCurrent")
    /\ OnlyRequests

GetCurrent(w) ==
    /\ At(w, "getCurrent")
    /\ Check(w, request[w].pair.vehicle \notin tracked, "deleteVehicle")
    /\ OnlyRequests

DeleteVehicle(w) ==
    /\ At(w, "deleteVehicle")
    /\ LET v == request[w].pair.vehicle IN
         vehicles' = IF VehicleReferenced(v) THEN vehicles ELSE vehicles \ {v}
    /\ Finish(w)
    /\ UNCHANGED <<users, routes, tracked, issued, fix>>

-----------------------------------------------------------------------------
(* DELETE /users/{id}: get_user, delete; a row already gone is a warning   *)

StartDeleteUser(w, u) ==
    /\ u \in DOMAIN users
    /\ Begin(w, [Idle EXCEPT !.at = "deleteUser", !.user = u])
    /\ OnlyRequests

DeleteUser(w) ==
    /\ At(w, "deleteUser")
    /\ users' = [u \in DOMAIN users \ {request[w].user} |-> users[u]]
    /\ Finish(w)
    /\ UNCHANGED <<routes, vehicles, tracked, issued, fix>>

-----------------------------------------------------------------------------
(* The MQTT subscriber storing a fix: load the vehicle, insert and commit  *)

LoadVehicle(v) ==
    /\ fix = None /\ v \in vehicles
    /\ fix' = v
    /\ UNCHANGED <<tables, request>>

StoreFix ==
    /\ fix # None
    /\ tracked' = tracked \cup ({fix} \cap vehicles)
    /\ fix' = None
    /\ UNCHANGED <<users, routes, vehicles, issued, request>>

-----------------------------------------------------------------------------
Create ==
    \/ \E r \in RouteIds : CreateRoute(r)
    \/ \E v \in VehicleIds : CreateVehicle(v)
    \/ \E u \in UserIds : CreateUser(u)

SetAssignment(w) ==
    \/ \E u \in UserIds, p \in Bodies : GetUser(w, u, p)
    \/ GetRoute(w) \/ GetVehicle(w) \/ CheckRoute(w) \/ CheckVehicle(w)
    \/ SaveAssignment(w)

Delete(w) ==
    \/ \E r \in RouteIds : StartDeleteRoute(w, r)
    \/ CountRouteUsers(w) \/ DeleteRoute(w)
    \/ \E v \in VehicleIds : StartDeleteVehicle(w, v)
    \/ CountVehicleUsers(w) \/ CountHistory(w) \/ GetCurrent(w) \/ DeleteVehicle(w)
    \/ \E u \in UserIds : StartDeleteUser(w, u)
    \/ DeleteUser(w)

HandleGps == (\E v \in VehicleIds : LoadVehicle(v)) \/ StoreFix

Next == Create \/ HandleGps \/ \E w \in Workers : SetAssignment(w) \/ Delete(w)

Spec == Init /\ [][Next]_vars

-----------------------------------------------------------------------------
(* Properties                                                              *)

\* What users, tracked vehicles and the fleet tables say of each other agrees:
\* no assignment and no GPS data ever outlives its route or vehicle, although
\* the delete handlers check that in statements of their own, other requests
\* assign and the subscriber stores in between, and an UPDATE leaves out
\* (and so never rechecks) a column it does not change.
RefIntegrity ==
    /\ \A u \in DOMAIN users : users[u].route \in routes \cup {None}
    /\ \A u \in DOMAIN users : users[u].vehicle \in vehicles \cup {None}
    /\ tracked \subseteq vehicles

RouteUsers(r) == {u \in DOMAIN users : users[u].route = r}
VehicleUsers(v) == {u \in DOMAIN users : users[u].vehicle = v}

\* "A route or vehicle can be assigned to only one user at a time": the promise
\* of fleet_admin_service's header, which set_assignment keeps by looking for
\* another user before it writes.
Exclusive ==
    /\ \A r \in RouteIds : \A x, y \in RouteUsers(r) : x = y
    /\ \A v \in VehicleIds : \A x, y \in VehicleUsers(v) : x = y

\* "Assignment is a strict pair": AssignmentUpdate's rule, read as a rule on
\* the stored row that /me relies on (it treats a half pair as an assignment).
PairComplete == \A u \in DOMAIN users : users[u] \in Bodies

\* How far exclusivity can degrade when several slots assign at once: never
\* more users on one vehicle or route than slots that can be past their checks.
SharingBound ==
    /\ \A r \in RouteIds : Cardinality(RouteUsers(r)) <= Cardinality(Assigners)
    /\ \A v \in VehicleIds : Cardinality(VehicleUsers(v)) <= Cardinality(Assigners)

\* Whoever else creates, deletes and stores fixes, a slot that serves all the
\* assignments makes every handler act as one atomic step of the directory.
Directory == INSTANCE FleetDirectory
ImplementsDirectory == Directory!DirectorySpec

\* And however many slots serve them, every request is one atomic step of the tables:
\* no row is changed that was deleted after a request's checks, no column is given an
\* id that was, and nothing is deleted that an unfinished request has since written.
ImplementsTables == Directory!Spec
=============================================================================
