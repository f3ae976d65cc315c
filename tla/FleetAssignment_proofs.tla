---------------------- MODULE FleetAssignment_proofs ----------------------
(* Machine-checked proofs about FleetAssignment, for every set of ids and  *)
(* of request slots, however many of them assign.  Where racing requests   *)
(* may break a promise, the theorem says which requests have to overlap.   *)
EXTENDS FleetAssignment, FiniteSetTheorems, TLAPS

-----------------------------------------------------------------------------
(* Type correctness                                                        *)

LEMMA BodiesArePairs == Bodies \subseteq Pairs
  BY DEF Bodies

\* Every reachable state of the admin API has its type: a half-typed row can
\* come neither from the ORM's column-wise UPDATE nor from an insert.
THEOREM Typing == Spec => []TypeOK
<1>1. Init => TypeOK
  BY DEF Init, TypeOK, Requests, Idle, Steps, Pairs, NoPair
<1>2. TypeOK /\ [Next]_vars => TypeOK'
  <2> SUFFICES ASSUME TypeOK, [Next]_vars PROVE TypeOK'
    OBVIOUS
  <2> USE DEF TypeOK
  <2>types. /\ NoPair \in Pairs /\ Idle \in Requests
            /\ \A w \in Workers : request[w].pair \in Pairs /\ request[w].loaded \in Pairs
    BY DEF Requests, Idle, Steps, Pairs, NoPair
  <2>goto. ASSUME NEW w \in Workers, NEW step \in Steps
           PROVE  [request EXCEPT ![w].at = step] \in [Workers -> Requests]
    BY DEF Requests
  <2>finish. ASSUME NEW w \in Workers
             PROVE  [request EXCEPT ![w] = Idle] \in [Workers -> Requests]
    BY <2>types
  <2>begin. \A w \in Workers, q \in Requests : Begin(w, q) => request' \in [Workers -> Requests]
    BY DEF Begin
  <2>1. CASE Create
    BY <2>1, <2>types DEF Create, CreateRoute, CreateVehicle, CreateUser
  <2>2. CASE HandleGps
    BY <2>2 DEF HandleGps, LoadVehicle, StoreFix, tables
  <2>3. ASSUME NEW w \in Workers, SetAssignment(w) PROVE TypeOK'
    <3>1. CASE \E u \in UserIds, p \in Bodies : GetUser(w, u, p)
      <4> PICK u \in UserIds, p \in Bodies : GetUser(w, u, p)
        BY <3>1
      <4>1. [at |-> IF p = NoPair THEN "save" ELSE "getRoute",
             user |-> u, pair |-> p, loaded |-> users[u]] \in Requests
        BY BodiesArePairs DEF GetUser, Requests, Steps
      <4> QED BY <4>1, <2>begin DEF GetUser, OnlyRequests, tables
    <3>2. CASE GetRoute(w) \/ GetVehicle(w) \/ CheckRoute(w) \/ CheckVehicle(w)
      <4> "getVehicle" \in Steps /\ "checkRoute" \in Steps /\ "checkVehicle" \in Steps
            /\ "save" \in Steps
        BY DEF Steps
      <4> QED BY <3>2, <2>goto, <2>finish
            DEF GetRoute, GetVehicle, CheckRoute, CheckVehicle, Check, Goto, Finish,
                OnlyRequests, tables
    <3>3. CASE SaveAssignment(w)
      <4> DEFINE q == request[w]
      <4>1. \A row \in Pairs : Updated(row, q) \in Pairs
        BY <2>types DEF Updated, Pairs
      <4>2. DOMAIN users' = DOMAIN users /\ users' \in [DOMAIN users -> Pairs]
        BY <3>3, <4>1 DEF SaveAssignment
      <4> QED BY <3>3, <4>2, <2>finish DEF SaveAssignment, Finish
    <3> QED BY <2>3, <3>1, <3>2, <3>3 DEF SetAssignment
  <2>4. ASSUME NEW w \in Workers, Delete(w) PROVE TypeOK'
    <3>1. CASE \E r \in RouteIds : StartDeleteRoute(w, r)
      <4> PICK r \in RouteIds : StartDeleteRoute(w, r)
        BY <3>1
      <4>1. [Idle EXCEPT !.at = "countRouteUsers", !.pair.route = r] \in Requests
        BY DEF Idle, NoPair, Requests, Steps, Pairs
      <4> QED BY <4>1, <2>begin DEF StartDeleteRoute, OnlyRequests, tables
    <3>2. CASE \E v \in VehicleIds : StartDeleteVehicle(w, v)
      <4> PICK v \in VehicleIds : StartDeleteVehicle(w, v)
        BY <3>2
      <4>1. [Idle EXCEPT !.at = "countVehicleUsers", !.pair.vehicle = v] \in Requests
        BY DEF Idle, NoPair, Requests, Steps, Pairs
      <4> QED BY <4>1, <2>begin DEF StartDeleteVehicle, OnlyRequests, tables
    <3>3. CASE \E u \in UserIds : StartDeleteUser(w, u)
      <4> PICK u \in UserIds : StartDeleteUser(w, u)
        BY <3>3
      <4>1. [Idle EXCEPT !.at = "deleteUser", !.user = u] \in Requests
        BY DEF Idle, NoPair, Requests, Steps, Pairs
      <4> QED BY <4>1, <2>begin DEF StartDeleteUser, OnlyRequests, tables
    <3>4. CASE CountRouteUsers(w) \/ CountVehicleUsers(w) \/ CountHistory(w) \/ GetCurrent(w)
      <4> "deleteRoute" \in Steps /\ "countHistory" \in Steps /\ "getCurrent" \in Steps
            /\ "deleteVehicle" \in Steps
        BY DEF Steps
      <4>1. request' \in [Workers -> Requests]
        BY <3>4, <2>goto, <2>finish
           DEF CountRouteUsers, CountVehicleUsers, CountHistory, GetCurrent, Check, Goto, Finish
      <4>2. OnlyRequests
        BY <3>4 DEF CountRouteUsers, CountVehicleUsers, CountHistory, GetCurrent
      <4> QED BY <4>1, <4>2 DEF OnlyRequests, tables
    <3>5. CASE DeleteRoute(w) \/ DeleteVehicle(w) \/ DeleteUser(w)
      BY <3>5, <2>finish DEF Finish, DeleteRoute, DeleteVehicle, DeleteUser
    <3> QED BY <2>4, <3>1, <3>2, <3>3, <3>4, <3>5 DEF Delete
  <2>5. CASE UNCHANGED vars
    BY <2>5 DEF vars
  <2> QED BY <2>1, <2>2, <2>3, <2>4, <2>5 DEF Next
<1> QED BY <1>1, <1>2, PTL DEF Spec

-----------------------------------------------------------------------------
(* Referential integrity, whatever the interleaving                        *)

\* The steps that change a table; every other step reads and moves on.
LEMMA TableSteps ==
    ASSUME [Next]_vars
    PROVE  \/ Create \/ HandleGps
           \/ \E w \in Workers : SaveAssignment(w) \/ DeleteRoute(w) \/ DeleteVehicle(w)
                                  \/ DeleteUser(w)
           \/ UNCHANGED tables
  BY DEF Next, SetAssignment, Delete, vars, tables, OnlyRequests, GetUser, GetRoute, GetVehicle,
         CheckRoute, CheckVehicle, StartDeleteRoute, CountRouteUsers, StartDeleteVehicle,
         CountVehicleUsers, CountHistory, GetCurrent, StartDeleteUser

\* However requests and fixes interleave, no user is ever left with a deleted
\* route or vehicle and no GPS data with a deleted vehicle.
THEOREM Integrity == Spec => []RefIntegrity
<1>1. Init => RefIntegrity
  BY DEF Init, RefIntegrity
<1>2. TypeOK /\ RefIntegrity /\ [Next]_vars => RefIntegrity'
  <2> SUFFICES ASSUME TypeOK, RefIntegrity, [Next]_vars PROVE RefIntegrity'
    OBVIOUS
  <2> USE DEF RefIntegrity
  <2>1. CASE Create
    <3>1. CASE \E u \in UserIds : CreateUser(u)
      BY <3>1 DEF CreateUser, NoPair
    <3>2. CASE \E r \in RouteIds : CreateRoute(r)
      BY <3>2 DEF CreateRoute
    <3>3. CASE \E v \in VehicleIds : CreateVehicle(v)
      BY <3>3 DEF CreateVehicle
    <3> QED BY <2>1, <3>1, <3>2, <3>3 DEF Create
  <2>2. CASE HandleGps
    <3>1. CASE StoreFix
      <4>1. tracked' \subseteq vehicles'
        BY <3>1 DEF StoreFix
      <4> QED BY <3>1, <4>1 DEF StoreFix
    <3>2. CASE \E v \in VehicleIds : LoadVehicle(v)
      BY <3>2 DEF LoadVehicle, tables
    <3> QED BY <2>2, <3>1, <3>2 DEF HandleGps
  <2>3. ASSUME NEW w \in Workers, SaveAssignment(w) PROVE RefIntegrity'
    <3> DEFINE q == request[w]
    <3>1. CASE UpdateFails(q)
      BY <2>3, <3>1 DEF SaveAssignment
    <3>2. CASE ~UpdateFails(q)
      <4>1. users' = [users EXCEPT ![q.user] = Updated(@, q)] /\ q.user \in DOMAIN users
        BY <2>3, <3>2 DEF SaveAssignment, UpdateFails
      <4>2. Updated(users[q.user], q).route \in routes \cup {None}
        BY <3>2, <4>1 DEF Updated, UpdateFails
      <4>3. Updated(users[q.user], q).vehicle \in vehicles \cup {None}
        BY <3>2, <4>1 DEF Updated, UpdateFails
      <4> QED BY <2>3, <4>1, <4>2, <4>3 DEF SaveAssignment
    <3> QED BY <3>1, <3>2
  <2>4. ASSUME NEW w \in Workers, DeleteRoute(w) \/ DeleteVehicle(w) \/ DeleteUser(w)
        PROVE RefIntegrity'
    BY <2>4 DEF DeleteRoute, DeleteVehicle, DeleteUser, RouteReferenced, VehicleReferenced
  <2>5. CASE UNCHANGED tables
    BY <2>5 DEF tables
  <2> QED BY <2>1, <2>2, <2>3, <2>4, <2>5, TableSteps
<1> QED BY <1>1, <1>2, Typing, PTL DEF Spec

-----------------------------------------------------------------------------
(* What a step does to a request and to the users' rows                    *)

Serving(w) == request[w].at \in {"getRoute", "getVehicle", "checkRoute", "checkVehicle", "save"}

LEMMA Moves ==
    ASSUME TypeOK, NEW w \in Workers
    PROVE  /\ \A step : Goto(w, step) => /\ request'[w].at = step
                                         /\ request'[w].user = request[w].user
                                         /\ request'[w].pair = request[w].pair
           /\ Finish(w) => request'[w] = Idle
           /\ \A q : Begin(w, q) => request'[w] = q
  BY DEF TypeOK, Goto, Finish, Begin, Requests

\* The steps of a delete are none of an assignment's.
LEMMA DeletesApart ==
    ASSUME TypeOK, NEW w \in Workers, Delete(w)
    PROVE  ~Serving(w)' /\ \A x \in Workers \ {w} : request'[x] = request[x]
<1>1. Idle.at = "idle"
  BY DEF Idle
<1>2. CASE \E r \in RouteIds : StartDeleteRoute(w, r)
  <2> PICK r \in RouteIds : StartDeleteRoute(w, r)
    BY <1>2
  <2>1. [Idle EXCEPT !.at = "countRouteUsers", !.pair.route = r].at = "countRouteUsers"
    BY DEF Idle
  <2> QED BY <2>1 DEF StartDeleteRoute, Begin, TypeOK, Serving
<1>3. CASE \E v \in VehicleIds : StartDeleteVehicle(w, v)
  <2> PICK v \in VehicleIds : StartDeleteVehicle(w, v)
    BY <1>3
  <2>1. [Idle EXCEPT !.at = "countVehicleUsers", !.pair.vehicle = v].at = "countVehicleUsers"
    BY DEF Idle
  <2> QED BY <2>1 DEF StartDeleteVehicle, Begin, TypeOK, Serving
<1>4. CASE \E u \in UserIds : StartDeleteUser(w, u)
  <2> PICK u \in UserIds : StartDeleteUser(w, u)
    BY <1>4
  <2>1. [Idle EXCEPT !.at = "deleteUser", !.user = u].at = "deleteUser"
    BY DEF Idle
  <2> QED BY <2>1 DEF StartDeleteUser, Begin, TypeOK, Serving
<1>5. CASE CountRouteUsers(w) \/ CountVehicleUsers(w) \/ CountHistory(w) \/ GetCurrent(w)
  <2>1. Finish(w) \/ Goto(w, "deleteRoute") \/ Goto(w, "countHistory") \/ Goto(w, "getCurrent")
          \/ Goto(w, "deleteVehicle")
    BY <1>5 DEF CountRouteUsers, CountVehicleUsers, CountHistory, GetCurrent, Check
  <2>2. request'[w].at \in {"idle", "deleteRoute", "countHistory", "getCurrent", "deleteVehicle"}
    BY <1>1, <2>1, Moves
  <2>3. \A x \in Workers \ {w} : request'[x] = request[x]
    BY <2>1 DEF Finish, Goto, TypeOK
  <2> QED BY <2>2, <2>3 DEF Serving
<1>6. CASE DeleteRoute(w) \/ DeleteVehicle(w) \/ DeleteUser(w)
  <2>1. Finish(w)
    BY <1>6 DEF DeleteRoute, DeleteVehicle, DeleteUser
  <2>2. request'[w].at = "idle"
    BY <1>1, <2>1, Moves
  <2> QED BY <2>1, <2>2 DEF Finish, TypeOK, Serving
<1> QED BY <1>2, <1>3, <1>4, <1>5, <1>6 DEF Delete

\* A request that an assignment goes on with: a check it has just passed it passed
\* on the rows as they still are.
Advanced(w) ==
    /\ Serving(w) /\ request[w].at # "save" /\ Serving(w)'
    /\ request'[w].user = request[w].user /\ request'[w].pair = request[w].pair
    /\ request'[w].loaded = request[w].loaded
    /\ request'[w].at = "checkVehicle" => ~OtherRouteUser(request[w])
    /\ request'[w].at = "save" => request[w].at = "checkVehicle" /\ ~OtherVehicleUser(request[w])

Started(w, u, p) ==
    /\ w \in Assigners /\ u \in DOMAIN users
    /\ request'[w] = [at |-> IF p = NoPair THEN "save" ELSE "getRoute",
                     user |-> u, pair |-> p, loaded |-> users[u]]

\* A step leaves a request alone, ends it or makes it a delete's, or moves an
\* assignment on without touching a row.
LEMMA RequestStep ==
    ASSUME TypeOK, [Next]_vars, NEW x \in Workers
    PROVE  \/ request'[x] = request[x]
           \/ ~Serving(x)'
           \/ users' = users /\ (Advanced(x) \/ \E u \in UserIds, p \in Bodies : Started(x, u, p))
<1> USE DEF TypeOK
<1>1. CASE SetAssignment(x)
  <2>1. CASE \E u \in UserIds, p \in Bodies : GetUser(x, u, p)
    <3>1. PICK u \in UserIds, p \in Bodies : GetUser(x, u, p)
      BY <2>1
    <3>2. Started(x, u, p) /\ users' = users
      BY <3>1, Moves DEF GetUser, Started, OnlyRequests, tables
    <3> QED BY <3>2
  <2>2. CASE SaveAssignment(x)
    <3>1. request'[x] = Idle
      BY <2>2, Moves DEF SaveAssignment
    <3> QED BY <3>1 DEF Serving, Idle
  <2>3. CASE GetRoute(x) \/ GetVehicle(x) \/ CheckRoute(x) \/ CheckVehicle(x)
    <3>1. users' = users
      BY <2>3 DEF GetRoute, GetVehicle, CheckRoute, CheckVehicle, OnlyRequests, tables
    <3>2. \/ Finish(x)
          \/ At(x, "getRoute") /\ Goto(x, "getVehicle")
          \/ At(x, "getVehicle") /\ Goto(x, "checkRoute")
          \/ At(x, "checkRoute") /\ Goto(x, "checkVehicle") /\ ~OtherRouteUser(request[x])
          \/ At(x, "checkVehicle") /\ Goto(x, "save") /\ ~OtherVehicleUser(request[x])
      BY <2>3 DEF GetRoute, GetVehicle, CheckRoute, CheckVehicle, Check
    <3>3. CASE Finish(x)
      <4>1. request'[x] = Idle
        BY <3>3, Moves
      <4> QED BY <4>1 DEF Serving, Idle
    <3>4. ASSUME NEW step, Goto(x, step)
          PROVE  /\ request'[x].at = step /\ request'[x].user = request[x].user
                 /\ request'[x].pair = request[x].pair /\ request'[x].loaded = request[x].loaded
      BY <3>4 DEF Goto, Requests
    <3>5. CASE ~Finish(x)
      <4>1. Advanced(x)
        BY <3>2, <3>4, <3>5 DEF Advanced, Serving, At
      <4> QED BY <3>1, <4>1
    <3> QED BY <3>3, <3>5
  <2> QED BY <1>1, <2>1, <2>2, <2>3 DEF SetAssignment
<1>2. CASE Delete(x)
  BY <1>2, DeletesApart
<1>3. ASSUME NEW w \in Workers, w # x, SetAssignment(w) \/ Delete(w) PROVE request'[x] = request[x]
  BY <1>3 DEF SetAssignment, Delete, GetUser, GetRoute, GetVehicle, CheckRoute, CheckVehicle,
              SaveAssignment, StartDeleteRoute, CountRouteUsers, DeleteRoute, StartDeleteVehicle,
              CountVehicleUsers, CountHistory, GetCurrent, DeleteVehicle, StartDeleteUser, DeleteUser,
              Check, Goto, Finish, Begin
<1>4. CASE Create \/ HandleGps \/ UNCHANGED vars
  BY <1>4 DEF Create, CreateRoute, CreateVehicle, CreateUser, HandleGps, LoadVehicle, StoreFix, vars
<1> QED BY <1>1, <1>2, <1>3, <1>4 DEF Next

\* The one step that writes to a row; every other creates or deletes whole rows.
Saves(w) ==
    /\ SaveAssignment(w) /\ request[w].user \in DOMAIN users
    /\ users' = [users EXCEPT ![request[w].user] = Updated(users[request[w].user], request[w])]

LEMMA UsersStep ==
    ASSUME TypeOK, [Next]_vars
    PROVE  \/ \A u \in DOMAIN users' : \/ u \in DOMAIN users /\ users'[u] = users[u]
                                       \/ u \notin issued /\ users'[u] = NoPair
           \/ \E w \in Workers : Saves(w)
<1>1. CASE users' = users
  BY <1>1
<1>2. CASE \E u \in UserIds : CreateUser(u)
  BY <1>2 DEF CreateUser
<1>3. CASE \E w \in Workers : DeleteUser(w)
  BY <1>3 DEF DeleteUser
<1>4. CASE \E w \in Workers : SaveAssignment(w) /\ ~UpdateFails(request[w])
  BY <1>4 DEF SaveAssignment, UpdateFails, Saves
<1> QED BY <1>1, <1>2, <1>3, <1>4, TableSteps
        DEF Create, CreateRoute, CreateVehicle, HandleGps, LoadVehicle, StoreFix, DeleteRoute,
            DeleteVehicle, SaveAssignment, tables

\* What a commit writes to a row: each column is the row's or the request's.
LEMMA Written ==
    ASSUME TypeOK, NEW w \in Workers, Saves(w)
    PROVE  LET q == request[w] IN
           /\ DOMAIN users' = DOMAIN users /\ q.user \in DOMAIN users
           /\ users'[q.user] = Updated(users[q.user], q)
           /\ \A u \in DOMAIN users \ {q.user} : users'[u] = users[u]
           /\ users'[q.user].route \in {users[q.user].route, q.pair.route}
           /\ users'[q.user].vehicle \in {users[q.user].vehicle, q.pair.vehicle}
           /\ users[q.user] = q.loaded => users'[q.user] = q.pair
           /\ q.at = "save" /\ request'[w] = Idle
           /\ \A x \in Workers \ {w} : request'[x] = request[x]
<1> DEFINE q == request[w]
<1>1. q.pair \in Pairs /\ users \in [DOMAIN users -> Pairs] /\ request \in [Workers -> Requests]
  BY DEF TypeOK, Requests
<1>2. /\ DOMAIN users' = DOMAIN users /\ q.user \in DOMAIN users
      /\ users'[q.user] = Updated(users[q.user], q)
      /\ \A u \in DOMAIN users \ {q.user} : users'[u] = users[u]
  BY <1>1 DEF Saves
<1>3. /\ q.at = "save" /\ request'[w] = Idle
      /\ \A x \in Workers \ {w} : request'[x] = request[x]
  BY <1>1 DEF Saves, SaveAssignment, At, Finish
<1>4. users[q.user] = q.loaded => Updated(users[q.user], q) = q.pair
  BY <1>1 DEF Updated, Pairs
<1>5. /\ Updated(users[q.user], q).route \in {users[q.user].route, q.pair.route}
      /\ Updated(users[q.user], q).vehicle \in {users[q.user].vehicle, q.pair.vehicle}
  BY DEF Updated
<1> QED BY <1>2, <1>3, <1>4, <1>5

-----------------------------------------------------------------------------
(* Whoever assigns, and however many at once                               *)

\* A serving slot is an assigner, wants a pair or nothing, and its user's id
\* is taken for good, so no later row can be mistaken for the loaded one.
ServingInv ==
    \A w \in Workers : Serving(w) =>
        /\ w \in Assigners
        /\ request[w].user \in issued \cap UserIds
        /\ request[w].pair \in Bodies
        /\ request[w].at # "save" => request[w].pair # NoPair

DeletingInv == \A w \in Workers : At(w, "deleteUser") => request[w].user \in UserIds

BaseInv == DOMAIN users \subseteq issued /\ ServingInv /\ DeletingInv

LEMMA DeletingStep ==
    ASSUME TypeOK, DeletingInv, [Next]_vars  PROVE DeletingInv'
<1> USE DEF TypeOK
<1>idle. Idle.at = "idle"
  BY DEF Idle
<1>1. ASSUME NEW w \in Workers, SetAssignment(w)
      PROVE  request'[w].at # "deleteUser" /\ \A x \in Workers \ {w} : request'[x] = request[x]
  BY <1>1, <1>idle
     DEF SetAssignment, GetUser, GetRoute, GetVehicle, CheckRoute, CheckVehicle, SaveAssignment,
         Check, Goto, Finish, Begin, Requests
<1>2. ASSUME NEW w \in Workers, Delete(w), At(w, "deleteUser")'
      PROVE  request'[w].user \in UserIds
  <2>1. CASE \E r \in RouteIds : StartDeleteRoute(w, r)
    <3>1. request'[w].at = "countRouteUsers"
      BY <2>1 DEF StartDeleteRoute, Begin, Idle
    <3> QED BY <1>2, <3>1 DEF At
  <2>2. CASE \E v \in VehicleIds : StartDeleteVehicle(w, v)
    <3>1. request'[w].at = "countVehicleUsers"
      BY <2>2 DEF StartDeleteVehicle, Begin, Idle
    <3> QED BY <1>2, <3>1 DEF At
  <2>3. CASE \E u \in UserIds : StartDeleteUser(w, u)
    BY <2>3 DEF StartDeleteUser, Begin, Idle
  <2>4. CASE \/ CountRouteUsers(w) \/ CountVehicleUsers(w) \/ CountHistory(w) \/ GetCurrent(w)
             \/ DeleteRoute(w) \/ DeleteVehicle(w) \/ DeleteUser(w)
    <3>1. request'[w].at \in {"idle", "deleteRoute", "countHistory", "getCurrent", "deleteVehicle"}
      BY <2>4, <1>idle
         DEF CountRouteUsers, CountVehicleUsers, CountHistory, GetCurrent, DeleteRoute,
             DeleteVehicle, DeleteUser, Check, Goto, Finish, Requests
    <3> QED BY <1>2, <3>1 DEF At
  <2> QED BY <1>2, <2>1, <2>2, <2>3, <2>4 DEF Delete
<1>3. ASSUME NEW w \in Workers, Delete(w) PROVE DeletingInv'
  BY <1>2, <1>3, DeletesApart DEF DeletingInv, At
<1>4. CASE Create \/ HandleGps \/ UNCHANGED vars
  BY <1>4 DEF Create, CreateRoute, CreateVehicle, CreateUser, HandleGps, LoadVehicle, StoreFix, vars,
              DeletingInv, At
<1>5. ASSUME NEW w \in Workers, SetAssignment(w) PROVE DeletingInv'
  BY <1>1, <1>5 DEF DeletingInv, At
<1> QED BY <1>3, <1>4, <1>5 DEF Next

LEMMA BaseStep ==
    ASSUME TypeOK, BaseInv, [Next]_vars  PROVE BaseInv'
<1>1. issued \subseteq issued' /\ DOMAIN users' \subseteq DOMAIN users \cup issued'
  <2>1. CASE Create \/ HandleGps
    BY <2>1 DEF Create, CreateRoute, CreateVehicle, CreateUser, HandleGps, LoadVehicle, StoreFix, tables
  <2>2. ASSUME NEW w \in Workers, SaveAssignment(w) \/ DeleteRoute(w) \/ DeleteVehicle(w) \/ DeleteUser(w)
        PROVE  issued' = issued /\ DOMAIN users' \subseteq DOMAIN users
    BY <2>2 DEF SaveAssignment, DeleteRoute, DeleteVehicle, DeleteUser, TypeOK
  <2>3. CASE UNCHANGED tables
    BY <2>3 DEF tables
  <2> QED BY <2>1, <2>2, <2>3, TableSteps
<1>2. ASSUME NEW w \in Workers, Serving(w)'
      PROVE  /\ w \in Assigners
             /\ request'[w].user \in issued' \cap UserIds
             /\ request'[w].pair \in Bodies
             /\ request'[w].at # "save" => request'[w].pair # NoPair
  <2>1. CASE request'[w] = request[w]
    BY <1>1, <1>2, <2>1 DEF BaseInv, ServingInv, Serving
  <2>2. CASE Advanced(w)
    BY <1>1, <2>2 DEF BaseInv, ServingInv, Advanced
  <2>3. CASE \E u \in UserIds, p \in Bodies : Started(w, u, p)
    BY <1>1, <2>3 DEF BaseInv, Started
  <2> QED BY <1>2, <2>1, <2>2, <2>3, RequestStep
<1>3. DOMAIN users' \subseteq issued'
  BY <1>1 DEF BaseInv
<1>4. ServingInv'
  BY <1>2 DEF ServingInv
<1>5. DeletingInv'
  BY DeletingStep DEF BaseInv
<1> QED BY <1>3, <1>4, <1>5 DEF BaseInv

LEMMA BaseInvariant == Spec => []BaseInv
<1>1. Init => BaseInv
  BY DEF Init, BaseInv, ServingInv, DeletingInv, Serving, At, Idle
<1>2. TypeOK /\ BaseInv /\ [Next]_vars => BaseInv'
  BY BaseStep
<1> QED BY <1>1, <1>2, Typing, PTL DEF Spec

-----------------------------------------------------------------------------
(* What has to be kept apart                                               *)

SameTarget(w, x) ==
    \/ request[w].pair.route # None /\ request[w].pair.route = request[x].pair.route
    \/ request[w].pair.vehicle # None /\ request[w].pair.vehicle = request[x].pair.vehicle

\* No two requests at once for the same route or vehicle and different users.
NoSharedTarget ==
    \A w, x \in Workers :
        Serving(w) /\ Serving(x) /\ request[w].user # request[x].user => ~SameTarget(w, x)

\* No request for a user while another takes that user's assignment back.
NoRacingUnassign ==
    \A w, x \in Workers :
        w # x /\ Serving(w) /\ Serving(x) /\ request[w].user = request[x].user
          => request[w].pair # NoPair

\* No two requests at once for the same user, route or vehicle.
Apart ==
    \A w, x \in Workers :
        w # x /\ Serving(w) /\ Serving(x)
          => request[w].user # request[x].user /\ ~SameTarget(w, x)

\* What the two checks established still holds at the commit.
CheckedInv ==
    \A w \in Workers :
        /\ request[w].at \in {"checkVehicle", "save"} /\ request[w].pair.route # None
             => ~OtherRouteUser(request[w])
        /\ request[w].at = "save" /\ request[w].pair.vehicle # None
             => ~OtherVehicleUser(request[w])

ExclusiveInv == BaseInv /\ CheckedInv /\ Exclusive

\* Between a check and its commit only a request for the same route or vehicle
\* could give it to another user.
LEMMA ExclusiveStep ==
    ASSUME TypeOK, ExclusiveInv, NoSharedTarget, [Next]_vars
    PROVE  CheckedInv' /\ Exclusive'
<1> USE DEF ExclusiveInv
<1>none. None \notin RouteIds /\ None \notin VehicleIds /\ NoPair.route = None /\ NoPair.vehicle = None
  BY NoneAssumption DEF NoPair
\* The rows after the step, as the checks and the promise look at them.
<1>1. CASE \A u \in DOMAIN users' : \/ u \in DOMAIN users /\ users'[u] = users[u]
                                    \/ u \notin issued /\ users'[u] = NoPair
  <2>1. Exclusive'
    BY <1>1, <1>none DEF Exclusive, RouteUsers, VehicleUsers
  <2>2. ASSUME NEW x \in Workers
        PROVE  /\ request'[x].at \in {"checkVehicle", "save"} /\ request'[x].pair.route # None
                    => ~OtherRouteUser(request[x])'
               /\ request'[x].at = "save" /\ request'[x].pair.vehicle # None
                    => ~OtherVehicleUser(request[x])'
    <3>1. CASE request'[x] = request[x]
      BY <1>1, <1>none, <3>1 DEF CheckedInv, OtherRouteUser, OtherVehicleUser
    <3>2. CASE ~Serving(x)'
      BY <3>2 DEF Serving
    <3>3. CASE users' = users /\ Advanced(x)
      BY <3>3 DEF CheckedInv, Advanced, Serving, OtherRouteUser, OtherVehicleUser
    <3>4. CASE \E u \in UserIds, p \in Bodies : Started(x, u, p)
      <4>1. PICK u \in UserIds, p \in Bodies : Started(x, u, p)
        BY <3>4
      <4>2. request'[x].pair = p /\ request'[x].at = IF p = NoPair THEN "save" ELSE "getRoute"
        BY <4>1 DEF Started
      <4> QED BY <1>none, <4>2
    <3> QED BY <3>1, <3>2, <3>3, <3>4, RequestStep
  <2>3. CheckedInv'
    BY <2>2 DEF CheckedInv, OtherRouteUser, OtherVehicleUser
  <2> QED BY <2>1, <2>3
<1>2. ASSUME NEW w \in Workers, Saves(w)  PROVE CheckedInv' /\ Exclusive'
  <2> DEFINE q == request[w]
  <2>1. /\ DOMAIN users' = DOMAIN users /\ q.user \in DOMAIN users
        /\ \A u \in DOMAIN users \ {q.user} : users'[u] = users[u]
        /\ users'[q.user].route \in {users[q.user].route, q.pair.route}
        /\ users'[q.user].vehicle \in {users[q.user].vehicle, q.pair.vehicle}
        /\ q.at = "save" /\ request'[w] = Idle
        /\ \A x \in Workers \ {w} : request'[x] = request[x]
    BY <1>2, Written
  <2>2. Serving(w) /\ Idle.at = "idle"
    BY <2>1 DEF Serving, Idle
  <2>3. /\ q.pair.route # None => ~OtherRouteUser(q)
        /\ q.pair.vehicle # None => ~OtherVehicleUser(q)
    BY <2>1 DEF CheckedInv
  <2> HIDE DEF q
  <2>4. Exclusive'
    BY <1>none, <2>1, <2>3 DEF Exclusive, RouteUsers, VehicleUsers, OtherRouteUser, OtherVehicleUser
  <2>5. ASSUME NEW x \in Workers \ {w}, Serving(x)
        PROVE  /\ request[x].pair.route # None /\ ~OtherRouteUser(request[x])
                    => ~OtherRouteUser(request[x])'
               /\ request[x].pair.vehicle # None /\ ~OtherVehicleUser(request[x])
                    => ~OtherVehicleUser(request[x])'
    <3>0. request'[x] = request[x]
      BY <2>1
    <3>1. CASE request[x].user = q.user
      BY <2>1, <3>0, <3>1 DEF OtherRouteUser, OtherVehicleUser
    <3>2. CASE request[x].user # q.user
      <4>1. ~SameTarget(x, w)
        BY <2>2, <2>5, <3>2 DEF NoSharedTarget, q
      <4> QED BY <2>1, <3>0, <4>1 DEF OtherRouteUser, OtherVehicleUser, SameTarget, q
    <3> QED BY <3>1, <3>2
  <2>6. CheckedInv'
    BY <2>1, <2>2, <2>5 DEF CheckedInv, Serving
  <2> QED BY <2>4, <2>6
<1> QED BY <1>1, <1>2, UsersStep

\* However many slots assign, a route or vehicle gets a second user only when two
\* requests for it are under way at once.
THEOREM SharingNeedsOverlap == Spec /\ []NoSharedTarget => []Exclusive
<1>1. Init => ExclusiveInv
  <2> SUFFICES ASSUME Init PROVE CheckedInv /\ Exclusive /\ BaseInv
    BY DEF ExclusiveInv
  <2>1. \A w \in Workers : request[w].at = "idle"
    BY DEF Init, Idle
  <2>2. CheckedInv
    BY <2>1 DEF CheckedInv
  <2>3. Exclusive
    BY DEF Init, Exclusive, RouteUsers, VehicleUsers
  <2>4. BaseInv
    BY <2>1 DEF Init, BaseInv, ServingInv, DeletingInv, Serving, At
  <2> QED BY <2>2, <2>3, <2>4
<1>2. TypeOK /\ ExclusiveInv /\ NoSharedTarget /\ [Next]_vars => ExclusiveInv'
  BY ExclusiveStep, BaseStep DEF ExclusiveInv
<1>3. ExclusiveInv => Exclusive
  BY DEF ExclusiveInv
<1> QED BY <1>1, <1>2, <1>3, Typing, PTL DEF Spec

\* What the session loaded is still what the row holds, or both the row and what
\* the request writes are whole pairs.
RowInv ==
    \A w \in Workers : Serving(w) /\ request[w].user \in DOMAIN users
        => \/ users[request[w].user] = request[w].loaded
           \/ users[request[w].user] # NoPair /\ request[w].pair # NoPair

PairInv == BaseInv /\ RowInv /\ PairComplete

LEMMA Whole ==
    ASSUME NEW p \in Bodies
    PROVE  p # NoPair <=> p.route # None /\ p.vehicle # None
  BY DEF Bodies, Pairs, NoPair

LEMMA NoPairIsBody == NoPair \in Bodies
  BY DEF NoPair, Bodies, Pairs

\* Columns that two whole pairs fill in turn make a whole pair.
LEMMA PairStep ==
    ASSUME TypeOK, PairInv, NoRacingUnassign, [Next]_vars
    PROVE  RowInv' /\ PairComplete'
<1> USE DEF PairInv
<1>1. CASE \A u \in DOMAIN users' : \/ u \in DOMAIN users /\ users'[u] = users[u]
                                    \/ u \notin issued /\ users'[u] = NoPair
  <2>1. PairComplete'
    BY <1>1, NoPairIsBody DEF PairComplete
  <2>2. ASSUME NEW x \in Workers, Serving(x)', request'[x].user \in DOMAIN users'
        PROVE  \/ users'[request'[x].user] = request'[x].loaded
               \/ users'[request'[x].user] # NoPair /\ request'[x].pair # NoPair
    <3>1. CASE request'[x] = request[x]
      <4>1. Serving(x) /\ request[x].user \in issued
        BY <2>2, <3>1 DEF Serving, BaseInv, ServingInv
      <4>2. request[x].user \in DOMAIN users /\ users'[request[x].user] = users[request[x].user]
        BY <1>1, <2>2, <3>1, <4>1
      <4> QED BY <3>1, <4>1, <4>2 DEF RowInv
    <3>2. CASE users' = users /\ Advanced(x)
      BY <2>2, <3>2 DEF RowInv, Advanced
    <3>3. CASE users' = users /\ \E u \in UserIds, p \in Bodies : Started(x, u, p)
      BY <3>3 DEF Started
    <3> QED BY <2>2, <3>1, <3>2, <3>3, RequestStep
  <2>3. RowInv'
    BY <2>2 DEF RowInv
  <2> QED BY <2>1, <2>3
<1>2. ASSUME NEW w \in Workers, Saves(w)  PROVE RowInv' /\ PairComplete'
  <2> DEFINE q == request[w]
  <2>1. /\ DOMAIN users' = DOMAIN users /\ q.user \in DOMAIN users
        /\ \A u \in DOMAIN users \ {q.user} : users'[u] = users[u]
        /\ users'[q.user] = Updated(users[q.user], q)
        /\ users'[q.user].route \in {users[q.user].route, q.pair.route}
        /\ users'[q.user].vehicle \in {users[q.user].vehicle, q.pair.vehicle}
        /\ users[q.user] = q.loaded => users'[q.user] = q.pair
        /\ q.at = "save" /\ request'[w] = Idle
        /\ \A x \in Workers \ {w} : request'[x] = request[x]
    BY <1>2, Written
  <2>2. Serving(w) /\ Idle.at = "idle"
    BY <2>1 DEF Serving, Idle
  <2>3. q.pair \in Bodies /\ users[q.user] \in Bodies
    BY <2>1, <2>2 DEF BaseInv, ServingInv, PairComplete
  <2>4. /\ users'[q.user] \in Bodies
        /\ q.pair # NoPair => users'[q.user] # NoPair
    <3>1. CASE users[q.user] = q.loaded
      BY <2>1, <2>3, <3>1
    <3>2. CASE users[q.user] # q.loaded
      <4>1. users[q.user] # NoPair /\ q.pair # NoPair
        BY <2>1, <2>2, <3>2 DEF RowInv
      <4>2. /\ users[q.user].route \in RouteIds /\ q.pair.route \in RouteIds
            /\ users[q.user].vehicle \in VehicleIds /\ q.pair.vehicle \in VehicleIds
        BY <2>3, <4>1, Whole DEF Bodies, Pairs
      <4>3. Updated(users[q.user], q) \in [route : RouteIds, vehicle : VehicleIds]
        BY <4>2 DEF Updated
      <4>4. [route : RouteIds, vehicle : VehicleIds] \subseteq Bodies
        BY NoneAssumption DEF Bodies, Pairs
      <4>5. NoPair \notin [route : RouteIds, vehicle : VehicleIds]
        BY NoneAssumption DEF NoPair
      <4> QED BY <2>1, <4>3, <4>4, <4>5
    <3> QED BY <3>1, <3>2
  <2> HIDE DEF q
  <2>5. PairComplete'
    BY <2>1, <2>4 DEF PairComplete
  <2>6. ASSUME NEW x \in Workers, Serving(x)', request'[x].user \in DOMAIN users'
        PROVE  \/ users'[request'[x].user] = request'[x].loaded
               \/ users'[request'[x].user] # NoPair /\ request'[x].pair # NoPair
    <3>1. x # w /\ request'[x] = request[x] /\ Serving(x)
      BY <2>1, <2>2, <2>6 DEF Serving
    <3>2. CASE request[x].user # q.user
      BY <2>1, <2>6, <3>1, <3>2 DEF RowInv
    <3>3. CASE request[x].user = q.user
      <4>1. q.pair # NoPair /\ request[x].pair # NoPair
        BY <2>2, <3>1, <3>3 DEF NoRacingUnassign, q
      <4> QED BY <2>4, <3>1, <3>3, <4>1
    <3> QED BY <3>2, <3>3
  <2>7. RowInv'
    BY <2>6 DEF RowInv
  <2> QED BY <2>5, <2>7
<1> QED BY <1>1, <1>2, UsersStep

\* However many slots assign, a user is left with half a pair only when one request
\* takes the user's assignment back while another serves the same user.
THEOREM HalfPairNeedsOverlap == Spec /\ []NoRacingUnassign => []PairComplete
<1>1. Init => PairInv
  <2> SUFFICES ASSUME Init PROVE RowInv /\ PairComplete /\ BaseInv
    BY DEF PairInv
  <2>1. \A w \in Workers : request[w].at = "idle"
    BY DEF Init, Idle
  <2>2. RowInv /\ BaseInv
    BY <2>1 DEF Init, RowInv, BaseInv, ServingInv, DeletingInv, Serving, At
  <2>3. PairComplete
    BY DEF Init, PairComplete
  <2> QED BY <2>2, <2>3
<1>2. TypeOK /\ PairInv /\ NoRacingUnassign /\ [Next]_vars => PairInv'
  BY PairStep, BaseStep DEF PairInv
<1>3. PairInv => PairComplete
  BY DEF PairInv
<1> QED BY <1>1, <1>2, <1>3, Typing, PTL DEF Spec

\* What the session loaded is still what the row holds.
LoadedInv ==
    \A w \in Workers : Serving(w) /\ request[w].user \in DOMAIN users
                          => users[request[w].user] = request[w].loaded

SerialInv == BaseInv /\ LoadedInv /\ CheckedInv /\ Exclusive /\ PairComplete

LEMMA LoadedStep ==
    ASSUME TypeOK, BaseInv, LoadedInv, Apart, [Next]_vars
    PROVE  LoadedInv'
<1> SUFFICES ASSUME NEW x \in Workers, Serving(x)', request'[x].user \in DOMAIN users'
             PROVE  users'[request'[x].user] = request'[x].loaded
  BY DEF LoadedInv
<1>1. CASE \A u \in DOMAIN users' : \/ u \in DOMAIN users /\ users'[u] = users[u]
                                    \/ u \notin issued /\ users'[u] = NoPair
  <2>1. CASE request'[x] = request[x]
    <3>1. Serving(x) /\ request[x].user \in issued
      BY <2>1 DEF Serving, BaseInv, ServingInv
    <3>2. request[x].user \in DOMAIN users /\ users'[request[x].user] = users[request[x].user]
      BY <1>1, <2>1, <3>1
    <3> QED BY <2>1, <3>1, <3>2 DEF LoadedInv
  <2>2. CASE users' = users /\ Advanced(x)
    BY <2>2 DEF LoadedInv, Advanced
  <2>3. CASE users' = users /\ \E u \in UserIds, p \in Bodies : Started(x, u, p)
    BY <2>3 DEF Started
  <2> QED BY <2>1, <2>2, <2>3, RequestStep
<1>2. ASSUME NEW w \in Workers, Saves(w)  PROVE users'[request'[x].user] = request'[x].loaded
  <2> DEFINE q == request[w]
  <2>1. /\ DOMAIN users' = DOMAIN users
        /\ \A u \in DOMAIN users \ {q.user} : users'[u] = users[u]
        /\ q.at = "save" /\ request'[w] = Idle
        /\ \A y \in Workers \ {w} : request'[y] = request[y]
    BY <1>2, Written
  <2>2. x # w /\ request'[x] = request[x] /\ Serving(x) /\ Serving(w)
    BY <2>1 DEF Serving, Idle
  <2>3. request[x].user # q.user
    BY <2>2 DEF Apart
  <2> QED BY <2>1, <2>2, <2>3 DEF LoadedInv
<1> QED BY <1>1, <1>2, UsersStep

LEMMA SerialStep ==
    ASSUME TypeOK, SerialInv, Apart, [Next]_vars  PROVE SerialInv'
<1>1. NoSharedTarget
  BY DEF NoSharedTarget, Apart
<1>2. NoRacingUnassign
  BY DEF NoRacingUnassign, Apart
<1>3. ExclusiveInv /\ PairInv
  BY DEF SerialInv, ExclusiveInv, PairInv, RowInv, LoadedInv
<1> QED BY <1>1, <1>2, <1>3, BaseStep, ExclusiveStep, PairStep, LoadedStep DEF SerialInv

LEMMA SerialInit == Init => SerialInv
<1> SUFFICES ASSUME Init PROVE SerialInv
  OBVIOUS
<1>1. \A w \in Workers : request[w].at = "idle"
  BY DEF Init, Idle
<1>2. BaseInv /\ LoadedInv /\ CheckedInv
  BY <1>1 DEF Init, LoadedInv, CheckedInv, BaseInv, ServingInv, DeletingInv, Serving, At
<1>3. Exclusive /\ PairComplete
  BY DEF Init, Exclusive, RouteUsers, VehicleUsers, PairComplete
<1> QED BY <1>2, <1>3 DEF SerialInv

LEMMA SerialInvariant == Spec /\ []Apart => []SerialInv
<1>1. TypeOK /\ SerialInv /\ Apart /\ [Next]_vars => SerialInv'
  BY SerialStep
<1> QED BY <1>1, SerialInit, Typing, PTL DEF Spec

-----------------------------------------------------------------------------
(* The handlers implement the tables and the directory                     *)

LEMMA InitMaps == Init => Directory!Init
  BY DEF Init, Directory!Init, NoPair, Directory!NoPair

\* Whatever is not the commit of an assignment is one step of both, or of neither.
LEMMA MaintainStep ==
    ASSUME TypeOK, BaseInv, [Next]_vars, \A w \in Workers : ~SaveAssignment(w)
    PROVE  Directory!Maintain \/ UNCHANGED Directory!vars
<1> USE DEF Directory!vars
<1>1. CASE Create
  <2>1. ASSUME NEW r \in RouteIds, CreateRoute(r) PROVE Directory!CreateRoute(r)
    BY <2>1 DEF CreateRoute, Directory!CreateRoute
  <2>2. ASSUME NEW v \in VehicleIds, CreateVehicle(v) PROVE Directory!CreateVehicle(v)
    BY <2>2 DEF CreateVehicle, Directory!CreateVehicle
  <2>3. ASSUME NEW u \in UserIds, CreateUser(u) PROVE Directory!CreateUser(u)
    BY <2>3 DEF CreateUser, Directory!CreateUser, NoPair, Directory!NoPair
  <2> QED BY <1>1, <2>1, <2>2, <2>3 DEF Create, Directory!Maintain
<1>2. CASE HandleGps
  <2>1. CASE StoreFix
    <3>1. CASE fix \in vehicles
      <4>1. fix \in VehicleIds /\ {fix} \cap vehicles = {fix}
        BY <3>1 DEF TypeOK
      <4>2. Directory!Track(fix)
        BY <2>1, <3>1, <4>1 DEF StoreFix, Directory!Track
      <4> QED BY <4>1, <4>2 DEF Directory!Maintain
    <3>2. CASE fix \notin vehicles
      BY <2>1, <3>2 DEF StoreFix
    <3> QED BY <3>1, <3>2
  <2>2. CASE \E v \in VehicleIds : LoadVehicle(v)
    BY <2>2 DEF LoadVehicle, tables
  <2> QED BY <1>2, <2>1, <2>2 DEF HandleGps
<1>3. ASSUME NEW w \in Workers, DeleteRoute(w) PROVE Directory!Maintain \/ UNCHANGED Directory!vars
  <2> DEFINE r == request[w].pair.route
  <2>1. CASE r \in RouteIds /\ ~RouteReferenced(r)
    <3>1. Directory!DeleteRoute(r)
      BY <1>3, <2>1 DEF DeleteRoute, RouteReferenced, Directory!DeleteRoute
    <3> QED BY <2>1, <3>1 DEF Directory!Maintain
  <2>2. CASE RouteReferenced(r)
    BY <1>3, <2>2 DEF DeleteRoute
  <2>3. CASE r \notin RouteIds
    BY <1>3, <2>3 DEF DeleteRoute, TypeOK
  <2> QED BY <2>1, <2>2, <2>3
<1>4. ASSUME NEW w \in Workers, DeleteVehicle(w) PROVE Directory!Maintain \/ UNCHANGED Directory!vars
  <2> DEFINE v == request[w].pair.vehicle
  <2>1. CASE v \in VehicleIds /\ ~VehicleReferenced(v)
    <3>1. Directory!DeleteVehicle(v)
      BY <1>4, <2>1 DEF DeleteVehicle, VehicleReferenced, Directory!DeleteVehicle
    <3> QED BY <2>1, <3>1 DEF Directory!Maintain
  <2>2. CASE VehicleReferenced(v)
    BY <1>4, <2>2 DEF DeleteVehicle
  <2>3. CASE v \notin VehicleIds
    BY <1>4, <2>3 DEF DeleteVehicle, TypeOK
  <2> QED BY <2>1, <2>2, <2>3
<1>5. ASSUME NEW w \in Workers, DeleteUser(w) PROVE Directory!Maintain \/ UNCHANGED Directory!vars
  <2>1. request[w].user \in UserIds
    BY <1>5 DEF DeleteUser, BaseInv, DeletingInv
  <2>2. Directory!DeleteUser(request[w].user)
    BY <1>5 DEF DeleteUser, Directory!DeleteUser
  <2> QED BY <2>1, <2>2 DEF Directory!Maintain
<1>6. CASE UNCHANGED tables
  BY <1>6 DEF tables
<1> QED BY <1>1, <1>2, <1>3, <1>4, <1>5, <1>6, TableSteps

\* A commit writes the columns that differ from the loaded ones, with the values of a
\* body, whatever other requests have written since.
LEMMA SaveColumns ==
    ASSUME TypeOK, BaseInv, NEW w \in Workers, SaveAssignment(w)
    PROVE  Directory!Next \/ UNCHANGED Directory!vars
<1> DEFINE q == request[w]
           columns == {c \in {"route", "vehicle"} :
                         IF c = "route" THEN q.pair.route # q.loaded.route
                                        ELSE q.pair.vehicle # q.loaded.vehicle}
<1>1. q.user \in UserIds /\ q.pair \in Directory!Bodies
  BY DEF SaveAssignment, At, BaseInv, ServingInv, Serving, Bodies, Pairs, Directory!Bodies
<1>2. CASE UpdateFails(q)
  BY <1>2 DEF SaveAssignment, Directory!vars
<1>3. CASE ~UpdateFails(q)
  <2>1. /\ "route" \in columns <=> q.pair.route # q.loaded.route
        /\ "vehicle" \in columns <=> q.pair.vehicle # q.loaded.vehicle
        /\ columns \in SUBSET {"route", "vehicle"}
    OBVIOUS
  <2> HIDE DEF columns
  <2>2. /\ users' = [users EXCEPT ![q.user] = Updated(@, q)]
        /\ UNCHANGED <<routes, vehicles, tracked, issued>>
    BY <1>3 DEF SaveAssignment
  <2>3. Directory!SetColumns(q.user, q.pair, columns)
    BY <1>3, <2>1, <2>2 DEF Directory!SetColumns, Updated, UpdateFails
  <2> QED BY <1>1, <2>1, <2>3 DEF Directory!Next
<1> QED BY <1>2, <1>3

\* However many slots assign and whatever they race with, every behaviour of the
\* handlers is one of atomic steps of the tables: no write revives a deleted row or
\* a reference to one, and no delete misses a reference written since its checks.
THEOREM TablesImplementation == Spec => ImplementsTables
<1>1. TypeOK /\ BaseInv /\ [Next]_vars => [Directory!Next]_(Directory!vars)
  BY MaintainStep, SaveColumns DEF Directory!Next
<1> QED BY <1>1, InitMaps, Typing, BaseInvariant, PTL DEF Spec, ImplementsTables, Directory!Spec

\* A commit of set_assignment is an atomic Assign or Unassign, or changes nothing.
LEMMA SaveStep ==
    ASSUME TypeOK, RefIntegrity, SerialInv, NEW w \in Workers, SaveAssignment(w)
    PROVE  Directory!DirectoryNext \/ UNCHANGED Directory!vars
<1> DEFINE q == request[w]
<1>1. /\ q.user \in UserIds /\ q.pair \in Bodies
      /\ q.pair.route # None => ~OtherRouteUser(q)
      /\ q.pair.vehicle # None => ~OtherVehicleUser(q)
      /\ q.user \in DOMAIN users => users[q.user] = q.loaded
  BY DEF SaveAssignment, At, SerialInv, BaseInv, ServingInv, Serving, LoadedInv, CheckedInv
<1>2. CASE UpdateFails(q)
  BY <1>2 DEF SaveAssignment, Directory!vars
<1>3. CASE ~UpdateFails(q)
  <2>1. q.user \in DOMAIN users /\ users[q.user] = q.loaded
    BY <1>1, <1>3 DEF UpdateFails
  <2>2. Updated(q.loaded, q) = q.pair
    BY <1>1 DEF Updated, Bodies, Pairs
  <2>3. /\ users' = [users EXCEPT ![q.user] = q.pair]
        /\ UNCHANGED <<routes, vehicles, tracked, issued>>
    BY <1>3, <2>1, <2>2 DEF SaveAssignment
  <2>4. CASE q.pair = NoPair
    <3>1. Directory!Unassign(q.user)
      BY <2>1, <2>3, <2>4 DEF Directory!Unassign, Directory!NoPair, NoPair
    <3> QED BY <1>1, <3>1 DEF Directory!DirectoryNext
  <2>5. CASE q.pair # NoPair
    <3> DEFINE r == q.pair.route
               v == q.pair.vehicle
    <3>1. r \in RouteIds /\ v \in VehicleIds /\ q.pair = [route |-> r, vehicle |-> v]
      BY <1>1, <2>5 DEF Bodies, Pairs, NoPair
    <3>2. r # None /\ v # None
      BY <3>1, NoneAssumption
    <3>3. r \in routes
      BY <1>3, <2>1, <3>2 DEF UpdateFails, RefIntegrity
    <3>4. v \in vehicles
      BY <1>3, <2>1, <3>2 DEF UpdateFails, RefIntegrity
    <3>5. \A x \in DOMAIN users \ {q.user} : users[x].route # r /\ users[x].vehicle # v
      BY <1>1, <3>2 DEF OtherRouteUser, OtherVehicleUser
    <3>6. Directory!Assign(q.user, r, v)
      BY <2>1, <2>3, <3>1, <3>3, <3>4, <3>5 DEF Directory!Assign
    <3> QED BY <1>1, <3>1, <3>6 DEF Directory!DirectoryNext
  <2> QED BY <2>4, <2>5
<1> QED BY <1>2, <1>3

\* While requests for one user, route or vehicle do not overlap, every behaviour of
\* the handlers is one of the atomic directory, however many slots assign: the
\* interleaving of their statements is invisible in the tables.
THEOREM ApartImplementation == Spec /\ []Apart => ImplementsDirectory
<1>1. TypeOK /\ RefIntegrity /\ SerialInv /\ [Next]_vars
        => [Directory!DirectoryNext]_(Directory!vars)
  BY MaintainStep, SaveStep DEF SerialInv, Directory!DirectoryNext
<1> QED BY <1>1, InitMaps, Typing, Integrity, SerialInvariant, PTL
        DEF Spec, ImplementsDirectory, Directory!DirectorySpec

-----------------------------------------------------------------------------
(* How many users may share, however many slots assign                     *)

\* Who holds a route or vehicle, or is about to: its users and the users of the
\* slots that are past its check.
RouteWriters(r) ==
    {w \in Assigners : request[w].at \in {"checkVehicle", "save"} /\ request[w].pair.route = r}
VehicleWriters(v) ==
    {w \in Assigners : request[w].at = "save" /\ request[w].pair.vehicle = v}
RouteHolders(r) == RouteUsers(r) \cup {request[w].user : w \in RouteWriters(r)}
VehicleHolders(v) == VehicleUsers(v) \cup {request[w].user : w \in VehicleWriters(v)}

AssignersServe == \A w \in Workers : Serving(w) => w \in Assigners

Few(S) == IsFiniteSet(S) /\ Cardinality(S) <= Cardinality(Assigners)

SharingInv ==
    /\ AssignersServe
    /\ \A r \in RouteIds : Few(RouteHolders(r))
    /\ \A v \in VehicleIds : Few(VehicleHolders(v))

LEMMA FewSubset == ASSUME NEW S, NEW T, Few(S), T \subseteq S, IsFiniteSet(Assigners) PROVE Few(T)
<1>1. IsFiniteSet(T) /\ Cardinality(T) <= Cardinality(S)
  BY FS_Subset DEF Few
<1>2. /\ Cardinality(T) \in Nat /\ Cardinality(S) \in Nat /\ Cardinality(Assigners) \in Nat
  BY <1>1, FS_CardinalityType DEF Few
<1> QED BY <1>1, <1>2 DEF Few

\* Slots serve one user each.
LEMMA FewServed ==
    ASSUME IsFiniteSet(Assigners), NEW user, NEW T, T \subseteq {user[w] : w \in Assigners}
    PROVE  Few(T)
<1> DEFINE f == [w \in Assigners |-> user[w]]
           S == {user[w] : w \in Assigners}
<1>1. f \in Surjection(Assigners, S)
  BY DEF Surjection
<1>2. Few(S)
  BY <1>1, FS_Surjection DEF Few
<1> QED BY <1>2, FewSubset

LEMMA ServeStep == ASSUME TypeOK, AssignersServe, [Next]_vars PROVE AssignersServe'
<1> USE DEF TypeOK, AssignersServe, Serving
<1>1. ASSUME NEW w \in Workers, SetAssignment(w) PROVE AssignersServe'
  BY <1>1 DEF SetAssignment, GetUser, GetRoute, GetVehicle, CheckRoute, CheckVehicle, SaveAssignment,
              At, Check, Goto, Finish, Begin, Idle
<1>2. ASSUME NEW w \in Workers, Delete(w) PROVE AssignersServe'
  BY <1>2, DeletesApart
<1>3. CASE Create \/ HandleGps \/ UNCHANGED vars
  BY <1>3 DEF Create, CreateRoute, CreateVehicle, CreateUser, HandleGps, LoadVehicle, StoreFix, vars
<1> QED BY <1>1, <1>2, <1>3 DEF Next

\* Users come to a row only through a commit, and that wrote what was checked.
LEMMA UsersAreHolders ==
    ASSUME TypeOK, AssignersServe, [Next]_vars
    PROVE  /\ \A r \in RouteIds : RouteUsers(r)' \subseteq RouteHolders(r)
           /\ \A v \in VehicleIds : VehicleUsers(v)' \subseteq VehicleHolders(v)
<1> USE DEF RouteUsers, VehicleUsers, RouteHolders, VehicleHolders
<1>1. CASE UNCHANGED users
  BY <1>1
<1>2. ASSUME NEW u \in UserIds, CreateUser(u) PROVE DOMAIN users' = DOMAIN users \cup {u}
             /\ \A x \in DOMAIN users' : users'[x] = NoPair \/ (x \in DOMAIN users /\ users'[x] = users[x])
  BY <1>2 DEF CreateUser
<1>3. CASE \E u \in UserIds : CreateUser(u)
  <2>1. \A x \in DOMAIN users' : users'[x] = NoPair \/ (x \in DOMAIN users /\ users'[x] = users[x])
    BY <1>2, <1>3
  <2>2. None \notin RouteIds /\ None \notin VehicleIds
    BY NoneAssumption
  <2>3. NoPair.route = None /\ NoPair.vehicle = None
    BY DEF NoPair
  <2> QED BY <2>1, <2>2, <2>3
<1>4. ASSUME NEW w \in Workers, DeleteUser(w)
      PROVE  DOMAIN users' \subseteq DOMAIN users /\ \A x \in DOMAIN users' : users'[x] = users[x]
  BY <1>4 DEF DeleteUser
<1>5. CASE \E w \in Workers : DeleteUser(w)
  BY <1>4, <1>5
<1>6. ASSUME NEW w \in Workers, SaveAssignment(w), ~UpdateFails(request[w])
      PROVE  /\ \A r \in RouteIds : RouteUsers(r)' \subseteq RouteHolders(r)
             /\ \A v \in VehicleIds : VehicleUsers(v)' \subseteq VehicleHolders(v)
  <2> DEFINE q == request[w]
  <2>1. w \in Assigners /\ q.at = "save"
    BY <1>6 DEF SaveAssignment, At, AssignersServe, Serving
  <2>2. /\ q.user \in DOMAIN users /\ users[q.user] \in Pairs
        /\ users' = [users EXCEPT ![q.user] = Updated(users[q.user], q)]
    BY <1>6 DEF SaveAssignment, UpdateFails, TypeOK
  <2>3. /\ users'[q.user].route \in {users[q.user].route, q.pair.route}
        /\ users'[q.user].vehicle \in {users[q.user].vehicle, q.pair.vehicle}
    BY <2>2 DEF Updated
  <2>4. \A x \in DOMAIN users' : x \in DOMAIN users /\ (x # q.user => users'[x] = users[x])
    BY <2>2
  <2>5. ASSUME NEW r \in RouteIds, NEW x \in RouteUsers(r)' PROVE x \in RouteHolders(r)
    <3>1. CASE x # q.user
      BY <2>4, <2>5, <3>1
    <3>2. CASE x = q.user
      BY <2>1, <2>2, <2>3, <2>5, <3>2 DEF RouteWriters
    <3> QED BY <3>1, <3>2
  <2>6. ASSUME NEW v \in VehicleIds, NEW x \in VehicleUsers(v)' PROVE x \in VehicleHolders(v)
    <3>1. CASE x # q.user
      BY <2>4, <2>6, <3>1
    <3>2. CASE x = q.user
      BY <2>1, <2>2, <2>3, <2>6, <3>2 DEF VehicleWriters
    <3> QED BY <3>1, <3>2
  <2> QED BY <2>5, <2>6
<1>7. UNCHANGED users \/ (\E u \in UserIds : CreateUser(u)) \/ (\E w \in Workers : DeleteUser(w))
        \/ \E w \in Workers : SaveAssignment(w) /\ ~UpdateFails(request[w])
  BY TableSteps DEF Create, CreateRoute, CreateVehicle, HandleGps, LoadVehicle, StoreFix,
                    DeleteRoute, DeleteVehicle, SaveAssignment, tables
<1> QED BY <1>1, <1>3, <1>5, <1>6, <1>7

\* A slot comes past a check only by passing it.
LEMMA WritersPassed ==
    ASSUME TypeOK, [Next]_vars, NEW x \in Assigners
    PROVE  /\ \A r \in RouteIds :
                x \in RouteWriters(r)' =>
                  \/ x \in RouteWriters(r) /\ request'[x].user = request[x].user
                  \/ /\ CheckRoute(x) /\ request[x].pair.route = r /\ ~OtherRouteUser(request[x])
                     /\ request'[x].user = request[x].user
           /\ \A v \in VehicleIds :
                x \in VehicleWriters(v)' =>
                  \/ x \in VehicleWriters(v) /\ request'[x].user = request[x].user
                  \/ /\ CheckVehicle(x) /\ request[x].pair.vehicle = v /\ ~OtherVehicleUser(request[x])
                     /\ request'[x].user = request[x].user
<1> USE DEF RouteWriters, VehicleWriters, TypeOK
<1>0. x \in Workers
  BY AssignersAssumption
<1>1. CASE request'[x] = request[x]
  BY <1>1
<1>2. CASE SetAssignment(x)
  <2>1. ASSUME NEW u \in UserIds, NEW p \in Bodies, GetUser(x, u, p)
        PROVE  /\ request'[x].pair = p
               /\ request'[x].at = IF p = NoPair THEN "save" ELSE "getRoute"
    BY <1>0, <2>1 DEF GetUser, Begin
  <2>2. CASE \E u \in UserIds, p \in Bodies : GetUser(x, u, p)
    BY <2>1, <2>2, NoneAssumption DEF NoPair
  <2>3. Idle.at = "idle"
    BY DEF Idle
  <2>4. CASE GetRoute(x) \/ GetVehicle(x) \/ SaveAssignment(x)
    <3>1. Finish(x) \/ Goto(x, "getVehicle") \/ Goto(x, "checkRoute")
      BY <2>4 DEF GetRoute, GetVehicle, SaveAssignment, Check
    <3>2. request'[x].at \in {"idle", "getVehicle", "checkRoute"}
      BY <1>0, <2>3, <3>1, Moves
    <3> QED BY <3>2
  <2>5. CASE CheckRoute(x)
    <3>1. Finish(x) \/ (Goto(x, "checkVehicle") /\ ~OtherRouteUser(request[x]))
      BY <2>5 DEF CheckRoute, Check
    <3>2. \/ request'[x].at = "idle"
          \/ /\ request'[x].at = "checkVehicle" /\ ~OtherRouteUser(request[x])
             /\ request'[x].user = request[x].user /\ request'[x].pair = request[x].pair
      BY <1>0, <2>3, <3>1, Moves
    <3> QED BY <2>5, <3>2
  <2>6. CASE CheckVehicle(x)
    <3>1. /\ request[x].at = "checkVehicle"
          /\ Finish(x) \/ (Goto(x, "save") /\ ~OtherVehicleUser(request[x]))
      BY <2>6 DEF CheckVehicle, Check, At
    <3>2. \/ request'[x].at = "idle"
          \/ /\ request'[x].at = "save" /\ ~OtherVehicleUser(request[x])
             /\ request'[x].user = request[x].user /\ request'[x].pair = request[x].pair
      BY <1>0, <2>3, <3>1, Moves
    <3> QED BY <2>6, <3>1, <3>2
  <2> QED BY <1>2, <2>2, <2>4, <2>5, <2>6 DEF SetAssignment
<1>3. CASE Delete(x)
  BY <1>0, <1>3, DeletesApart DEF Serving
<1>4. ASSUME NEW w \in Workers, w # x, SetAssignment(w) \/ Delete(w) PROVE request'[x] = request[x]
  BY <1>0, <1>4 DEF SetAssignment, Delete, GetUser, GetRoute, GetVehicle, CheckRoute, CheckVehicle,
              SaveAssignment, StartDeleteRoute, CountRouteUsers, DeleteRoute, StartDeleteVehicle,
              CountVehicleUsers, CountHistory, GetCurrent, DeleteVehicle, StartDeleteUser, DeleteUser,
              Check, Goto, Finish, Begin
<1>5. CASE Create \/ HandleGps \/ UNCHANGED vars
  <2>1. request' = request
    BY <1>5 DEF Create, CreateRoute, CreateVehicle, CreateUser, HandleGps, LoadVehicle, StoreFix, vars
  <2> QED BY <1>1, <2>1
<1> QED BY <1>1, <1>2, <1>3, <1>4, <1>5 DEF Next

LEMMA SharingStep ==
    ASSUME IsFiniteSet(Assigners), TypeOK, SharingInv, [Next]_vars
    PROVE  SharingInv'
<1> USE DEF SharingInv
<1> DEFINE user == [w \in Assigners |-> request'[w].user]
<1>1. AssignersServe'
  BY ServeStep
<1>2. ASSUME NEW r \in RouteIds PROVE Few(RouteHolders(r)')
  <2>1. CASE \E w \in Assigners : /\ CheckRoute(w) /\ request[w].pair.route = r
                                  /\ w \in RouteWriters(r)'
                                  /\ ~OtherRouteUser(request[w])
                                  /\ request'[w].user = request[w].user
    <3>1. PICK w \in Assigners : /\ CheckRoute(w) /\ request[w].pair.route = r
                                 /\ w \in RouteWriters(r)'
                                 /\ ~OtherRouteUser(request[w])
                                 /\ request'[w].user = request[w].user
      BY <2>1
    <3>2. users' = users
      BY <3>1 DEF CheckRoute, OnlyRequests, tables
    <3>3. RouteUsers(r)' \subseteq {request'[w].user}
      BY <3>1, <3>2 DEF RouteUsers, OtherRouteUser
    <3>4. RouteHolders(r)' \subseteq {user[x] : x \in Assigners}
      BY <3>1, <3>3 DEF RouteHolders, RouteWriters
    <3> QED BY <3>4, FewServed
  <2>2. CASE \A w \in Assigners : w \in RouteWriters(r)' =>
                 w \in RouteWriters(r) /\ request'[w].user = request[w].user
    <3>1. RouteHolders(r)' \subseteq RouteHolders(r)
      BY <2>2, UsersAreHolders DEF RouteHolders, RouteWriters
    <3> QED BY <3>1, FewSubset
  <2> QED BY <2>1, <2>2, WritersPassed
<1>3. ASSUME NEW v \in VehicleIds PROVE Few(VehicleHolders(v)')
  <2>1. CASE \E w \in Assigners : /\ CheckVehicle(w) /\ request[w].pair.vehicle = v
                                  /\ w \in VehicleWriters(v)'
                                  /\ ~OtherVehicleUser(request[w])
                                  /\ request'[w].user = request[w].user
    <3>1. PICK w \in Assigners : /\ CheckVehicle(w) /\ request[w].pair.vehicle = v
                                 /\ w \in VehicleWriters(v)'
                                 /\ ~OtherVehicleUser(request[w])
                                 /\ request'[w].user = request[w].user
      BY <2>1
    <3>2. users' = users
      BY <3>1 DEF CheckVehicle, OnlyRequests, tables
    <3>3. VehicleUsers(v)' \subseteq {request'[w].user}
      BY <3>1, <3>2 DEF VehicleUsers, OtherVehicleUser
    <3>4. VehicleHolders(v)' \subseteq {user[x] : x \in Assigners}
      BY <3>1, <3>3 DEF VehicleHolders, VehicleWriters
    <3> QED BY <3>4, FewServed
  <2>2. CASE \A w \in Assigners : w \in VehicleWriters(v)' =>
                 w \in VehicleWriters(v) /\ request'[w].user = request[w].user
    <3>1. VehicleHolders(v)' \subseteq VehicleHolders(v)
      BY <2>2, UsersAreHolders DEF VehicleHolders, VehicleWriters
    <3> QED BY <3>1, FewSubset
  <2> QED BY <2>1, <2>2, WritersPassed
<1> QED BY <1>1, <1>2, <1>3 DEF Few

\* A route or vehicle never has more users than there are slots that assign: each
\* sharer's slot passed its check before any other sharer's slot committed.
THEOREM Sharing == ASSUME IsFiniteSet(Assigners) PROVE Spec => []SharingBound
<1>1. Init => SharingInv
  <2> SUFFICES ASSUME Init PROVE SharingInv
    OBVIOUS
  <2>1. \A w \in Workers : request[w].at = "idle"
    BY DEF Init, Idle
  <2>2. AssignersServe
    BY <2>1 DEF AssignersServe, Serving
  <2>3. /\ \A r \in RouteIds : RouteHolders(r) = {}
        /\ \A v \in VehicleIds : VehicleHolders(v) = {}
    BY <2>1, AssignersAssumption
       DEF Init, RouteHolders, VehicleHolders, RouteUsers, VehicleUsers, RouteWriters, VehicleWriters
  <2>4. Few({})
    BY FS_EmptySet, FS_CardinalityType DEF Few
  <2> QED BY <2>2, <2>3, <2>4 DEF SharingInv
<1>2. TypeOK /\ SharingInv /\ [Next]_vars => SharingInv'
  BY SharingStep
<1>3. SharingInv => SharingBound
  <2> SUFFICES ASSUME SharingInv PROVE SharingBound
    OBVIOUS
  <2>1. ASSUME NEW r \in RouteIds PROVE Few(RouteUsers(r))
    <3>1. RouteUsers(r) \subseteq RouteHolders(r)
      BY DEF RouteHolders
    <3>2. Few(RouteHolders(r))
      BY DEF SharingInv
    <3> QED BY <3>1, <3>2, FewSubset
  <2>2. ASSUME NEW v \in VehicleIds PROVE Few(VehicleUsers(v))
    <3>1. VehicleUsers(v) \subseteq VehicleHolders(v)
      BY DEF VehicleHolders
    <3>2. Few(VehicleHolders(v))
      BY DEF SharingInv
    <3> QED BY <3>1, <3>2, FewSubset
  <2> QED BY <2>1, <2>2 DEF SharingBound, Few
<1> QED BY <1>1, <1>2, <1>3, Typing, PTL DEF Spec
=============================================================================
