--------------------------- MODULE DriverReads ---------------------------
(***************************************************************************)
(* What drivers are shown while admins reassign, create and delete and     *)
(* fixes are stored: GET /me/assignment, /route, /vehicle/current and      *)
(* /vehicle/history (app/api/v1/me.py, app/services/tracking_service.py),  *)
(* composed with what the tables go through whatever admin requests race   *)
(* (FleetTables, which FleetAssignment implements with any number of       *)
(* slots): routes and vehicles with several users, rows with half a pair.  *)
(*                                                                         *)
(* A request is two steps.  get_current_user loads the user's row in one   *)
(* statement that joins its route, its vehicle and the vehicle's current   *)
(* location, and these stay in the request's session.  The handler answers *)
(* later, from the session where it can.                                   *)
(*                                                                         *)
(* Abstracted: a fix is its number among those of its vehicle; statuses    *)
(* are VehicleStatus's subject, the pages of a history HistoryPaging's.    *)
(***************************************************************************)
EXTENDS Naturals

CONSTANTS UserIds, RouteIds, VehicleIds,
          None,                  \* SQL NULL
          MaxChanges, MaxFixes   \* bounds of the model's two counters

ASSUME NoneAssumption == None \notin UserIds \cup RouteIds \cup VehicleIds
ASSUME IdsAssumption == RouteIds \cap VehicleIds = {}
ASSUME BoundsAssumption == MaxChanges \in Nat /\ MaxFixes \in Nat

VARIABLES
    users, routes, vehicles, issued,  \* the fleet's tables
    stored,   \* number of fixes stored of each vehicle
    changes,  \* how often users that were there have changed
    read,     \* the request each driver has under way
    shown     \* the last answer each driver got, until it asks again

tracked == {v \in VehicleIds : stored[v] > 0}
Tables == INSTANCE FleetTables

vars == <<users, routes, vehicles, issued, stored, changes, read, shown>>

Kinds == {"assignment", "route", "current", "history"}
Pairs == [route : RouteIds \cup {None}, vehicle : VehicleIds \cup {None}]

\* A request: what it asks for, the user's row, the newest fix of its vehicle and
\* the rows of other tables its session holds, and when it was authenticated.
Reads == [kind : Kinds \cup {"none"}, pair : Pairs, fix : 0 .. MaxFixes,
          session : SUBSET (RouteIds \cup VehicleIds), at : 0 .. MaxChanges]
NoRead == [kind |-> "none", pair |-> Tables!NoPair, fix |-> 0, session |-> {}, at |-> 0]

Answers == [route : RouteIds \cup {None}, vehicle : VehicleIds \cup {None},
            fix : 0 .. MaxFixes, at : 0 .. MaxChanges]
NoAnswer == [route |-> None, vehicle |-> None, fix |-> 0, at |-> 0]

TypeOK ==
    /\ DOMAIN users \subseteq UserIds /\ users \in [DOMAIN users -> Pairs]
    /\ routes \subseteq RouteIds /\ vehicles \subseteq VehicleIds
    /\ issued \subseteq UserIds \cup RouteIds \cup VehicleIds
    /\ stored \in [VehicleIds -> 0 .. MaxFixes] /\ changes \in 0 .. MaxChanges
    /\ read \in [UserIds -> Reads] /\ shown \in [UserIds -> Answers]

Init ==
    /\ stored = [v \in VehicleIds |-> 0] /\ changes = 0
    /\ read = [u \in UserIds |-> NoRead] /\ shown = [u \in UserIds |-> NoAnswer]
    /\ Tables!Init

\* No user that was there has got or lost anything.
UsersKept == \A u \in DOMAIN users : u \in DOMAIN users' /\ users'[u] = users[u]

\* A statement of some admin's request that changes the tables.
Administer ==
    /\ UNCHANGED <<stored, read, shown>>
    /\ Tables!Next
    /\ changes' = IF UsersKept THEN changes ELSE changes + 1
    /\ changes' <= MaxChanges

\* Mutant: gps_points without its foreign key.
FixStoredUnchecked(v) == stored' = [stored EXCEPT ![v] = @ + 1]
                         /\ UNCHANGED <<users, routes, vehicles, issued>>

FixStored(v) == stored' = [stored EXCEPT ![v] = @ + 1] /\ Tables!Track(v)

\* The subscriber stores a fix, history and current location together.
StoreFix(v) ==
    /\ stored[v] < MaxFixes
    /\ FixStored(v)
    /\ UNCHANGED <<changes, read, shown>>

-----------------------------------------------------------------------------
(* A driver's request                                                      *)

\* No route, or no vehicle, or neither: 403 no_assignment.
Unassigned(kind, pair) ==
    CASE kind = "assignment" -> pair = Tables!NoPair
      [] kind = "route" -> pair.route = None
      [] OTHER -> pair.vehicle = None

\* Mutant: authentication remembers the user of the answer before.
LoadUserCached(u) ==
    [route   |-> IF shown[u].route # None THEN shown[u].route ELSE users[u].route,
     vehicle |-> IF shown[u].vehicle # None THEN shown[u].vehicle ELSE users[u].vehicle]

LoadUser(u) == users[u]

Authenticate(u, kind) ==
    /\ read[u] = NoRead /\ u \in DOMAIN users
    /\ LET pair == LoadUser(u) IN
         /\ ~Unassigned(kind, pair)
         /\ read' = [read EXCEPT ![u] =
              [kind |-> kind, pair |-> pair, at |-> changes,
               session |-> {pair.route, pair.vehicle} \cap (routes \cup vehicles),
               fix |-> IF pair.vehicle \in vehicles THEN stored[pair.vehicle] ELSE 0]]
    /\ shown' = [shown EXCEPT ![u] = NoAnswer]
    /\ UNCHANGED <<users, routes, vehicles, issued, stored, changes>>

\* Mutant: the joined rows are not used, every lookup asks the database.
GetFromDatabase(table, id, q) == IF id \in table THEN id ELSE None

\* db.get: the row the session holds, or else the table's.
Get(table, id, q) == IF id \in table \cup q.session THEN id ELSE None

CallerPair(u) == read[u].pair

\* Mutant: the two parts of the answer mixed up.
GetAssignmentSwapped(u) == [route   |-> Get(vehicles, CallerPair(u).vehicle, read[u]),
                            vehicle |-> Get(routes, CallerPair(u).route, read[u]), fix |-> 0]

GetAssignment(u) == [route   |-> Get(routes, CallerPair(u).route, read[u]),
                     vehicle |-> Get(vehicles, CallerPair(u).vehicle, read[u]), fix |-> 0]

GetRoute(u) == [route |-> Get(routes, CallerPair(u).route, read[u]), vehicle |-> None, fix |-> 0]

\* A location that was missing when the user was loaded is looked up again.
GetCurrentLocation(u) ==
    LET v == Get(vehicles, CallerPair(u).vehicle, read[u])
    IN [route |-> None, vehicle |-> v,
        fix   |-> IF v = None THEN 0 ELSE IF read[u].fix # 0 THEN read[u].fix ELSE stored[v]]

\* The history is read by the vehicle's id alone.
GetHistory(u) ==
    LET v == CallerPair(u).vehicle
    IN [route |-> None, vehicle |-> v, fix |-> IF v = None THEN 0 ELSE stored[v]]

Result(u) ==
    CASE read[u].kind = "assignment" -> GetAssignment(u)
      [] read[u].kind = "route" -> GetRoute(u)
      [] read[u].kind = "current" -> GetCurrentLocation(u)
      [] OTHER -> GetHistory(u)

Answer(u) ==
    /\ read[u] # NoRead
    /\ shown' = [shown EXCEPT ![u] =
         [route |-> Result(u).route, vehicle |-> Result(u).vehicle,
          fix |-> Result(u).fix, at |-> read[u].at]]
    /\ read' = [read EXCEPT ![u] = NoRead]
    /\ UNCHANGED <<users, routes, vehicles, issued, stored, changes>>

Next ==
    \/ Administer
    \/ \E v \in VehicleIds : StoreFix(v)
    \/ \E u \in UserIds : Answer(u) \/ \E kind \in Kinds : Authenticate(u, kind)

Spec == Init /\ [][Next]_vars

-----------------------------------------------------------------------------
(* Properties                                                              *)

\* "FK guarantees existence": a request is answered with the row its user had when
\* it was authenticated, each part of it that its kind asks for and no other, half
\* a pair as half of one, although the admin may take the assignment back and delete
\* its route or vehicle before the answer.
WholeAnswers ==
    [][\A u \in UserIds : read[u] # NoRead /\ read'[u] = NoRead =>
         LET kind == read[u].kind
             pair == read[u].pair
         IN /\ shown'[u].route = IF kind \in {"assignment", "route"} THEN pair.route ELSE None
            /\ shown'[u].vehicle = IF kind = "route" THEN None ELSE pair.vehicle
            /\ shown'[u].route # None \/ shown'[u].vehicle # None]_vars

\* "Every function derives the vehicle from the caller's own assignment": unless an
\* assignment has changed since its request was authenticated, an answer shows what
\* its user's row holds and nothing else, so drivers share what they are shown only
\* where the table lets them, however many requests of theirs came before.
OwnAnswers == \A u \in UserIds : shown[u].at = changes =>
    /\ shown[u].route # None => u \in DOMAIN users /\ shown[u].route = users[u].route
    /\ shown[u].vehicle # None => u \in DOMAIN users /\ shown[u].vehicle = users[u].vehicle

\* A vehicle whose fixes somebody has been shown is still there, so that later
\* requests for it cannot end in the code's "no longer exists", whatever was
\* deleted since the answer.
ShownStays == \A u \in UserIds : shown[u].fix > 0 => shown[u].vehicle \in vehicles
=============================================================================
