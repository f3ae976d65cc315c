------------------------ MODULE DriverReads_proofs ------------------------
(***************************************************************************)
(* Proofs about DriverReads, for any ids and bounds.  The inductive        *)
(* invariant says of every request under way what its session holds, and   *)
(* ties the requests and answers that are as old as the last change of     *)
(* the users table to its rows.                                            *)
(***************************************************************************)
EXTENDS DriverReads, TLAPS

\* The foreign keys of users and of the GPS tables.
FleetInv ==
    /\ \A u \in DOMAIN users : /\ users[u].route \in routes \cup {None}
                               /\ users[u].vehicle \in vehicles \cup {None}
    /\ \A v \in VehicleIds : stored[v] > 0 => v \in vehicles

\* A request under way holds a pair its kind accepts, with the rows of both parts, and
\* one since whose authentication no assignment changed holds what is in the table.
Fresh(u) == u \in DOMAIN users /\ users[u] = read[u].pair
ReadInv == \A u \in UserIds : read[u] # NoRead =>
    /\ read[u].kind \in Kinds /\ ~Unassigned(read[u].kind, read[u].pair)
    /\ {read[u].pair.route, read[u].pair.vehicle} \subseteq read[u].session \cup {None}
    /\ read[u].fix > 0 => read[u].pair.vehicle \in VehicleIds /\ stored[read[u].pair.vehicle] > 0
    /\ read[u].at <= changes
    /\ read[u].at = changes => Fresh(u)

\* The same of the answers.
ShownFits(u) ==
    /\ shown[u].fix > 0 => shown[u].vehicle \in VehicleIds /\ stored[shown[u].vehicle] > 0
    /\ shown[u].at <= changes
    /\ shown[u].at = changes =>
         /\ shown[u].route # None => u \in DOMAIN users /\ shown[u].route = users[u].route
         /\ shown[u].vehicle # None => u \in DOMAIN users /\ shown[u].vehicle = users[u].vehicle
ShownInv == \A u \in UserIds : ShownFits(u)

ReadsInv == TypeOK /\ FleetInv /\ ReadInv /\ ShownInv

-----------------------------------------------------------------------------
LEMMA NoneOutside == None \notin RouteIds /\ None \notin VehicleIds /\ None \notin UserIds
BY NoneAssumption

LEMMA NoReadTypes == /\ NoRead \in Reads /\ NoAnswer \in Answers /\ Tables!NoPair \in Pairs
                     /\ NoRead.kind \notin Kinds
<1>1. 0 \in 0 .. MaxFixes /\ 0 \in 0 .. MaxChanges  BY BoundsAssumption
<1>2. Tables!NoPair \in Pairs  BY DEF Tables!NoPair, Pairs
<1>3. NoRead \in Reads  BY <1>1, <1>2 DEF NoRead, Reads
<1>4. NoAnswer \in Answers  BY <1>1 DEF NoAnswer, Answers
<1>5. NoRead.kind \notin Kinds  BY DEF NoRead, Kinds
<1>6. QED  BY <1>2, <1>3, <1>4, <1>5

LEMMA InitReadsInv == Init => ReadsInv
<1> SUFFICES ASSUME Init PROVE ReadsInv
  OBVIOUS
<1>1. /\ \A u \in UserIds : read[u] = NoRead /\ shown[u] = NoAnswer
      /\ \A v \in VehicleIds : stored[v] = 0
      /\ changes = 0 /\ routes = {} /\ vehicles = {} /\ issued = {}
      /\ DOMAIN users = {} /\ users \in [{} -> Pairs]
  BY DEF Init, Tables!Init
<1>2. TypeOK
  <2>1. 0 \in 0 .. MaxFixes /\ 0 \in 0 .. MaxChanges  BY BoundsAssumption
  <2>2. stored \in [VehicleIds -> 0 .. MaxFixes]  BY <2>1 DEF Init
  <2>3. read \in [UserIds -> Reads] /\ shown \in [UserIds -> Answers]
    BY NoReadTypes DEF Init
  <2>4. QED  BY <1>1, <2>1, <2>2, <2>3 DEF TypeOK
<1>3. FleetInv  BY <1>1 DEF FleetInv
<1>4. ReadInv  BY <1>1 DEF ReadInv
<1>5. ShownInv
  <2>1. /\ NoAnswer.fix = 0 /\ NoAnswer.at = 0 /\ NoAnswer.route = None /\ NoAnswer.vehicle = None
        /\ ~(0 > 0) /\ 0 <= 0
    BY DEF NoAnswer
  <2>2. QED  BY <1>1, <2>1 DEF ShownInv, ShownFits
<1>6. QED  BY <1>2, <1>3, <1>4, <1>5 DEF ReadsInv

-----------------------------------------------------------------------------
\* Whatever admin requests race, the tables' keys hold.
LEMMA TablesStep ==
    ASSUME TypeOK, FleetInv, Tables!Next, stored' = stored
    PROVE  /\ FleetInv'
           /\ DOMAIN users' \subseteq UserIds /\ users' \in [DOMAIN users' -> Pairs]
           /\ routes' \subseteq RouteIds /\ vehicles' \subseteq VehicleIds
           /\ issued' \subseteq UserIds \cup RouteIds \cup VehicleIds
<1> DEFINE Goal == /\ FleetInv'
                   /\ DOMAIN users' \subseteq UserIds /\ users' \in [DOMAIN users' -> Pairs]
                   /\ routes' \subseteq RouteIds /\ vehicles' \subseteq VehicleIds
                   /\ issued' \subseteq UserIds \cup RouteIds \cup VehicleIds
<1> USE DEF TypeOK, FleetInv
<1>1. ASSUME NEW r \in RouteIds, Tables!CreateRoute(r) PROVE Goal
  BY <1>1 DEF Tables!CreateRoute
<1>2. ASSUME NEW r \in RouteIds, Tables!DeleteRoute(r) PROVE Goal
  BY <1>2 DEF Tables!DeleteRoute
<1>3. ASSUME NEW v \in VehicleIds, Tables!CreateVehicle(v) PROVE Goal
  BY <1>3 DEF Tables!CreateVehicle
<1>4. ASSUME NEW v \in VehicleIds, Tables!DeleteVehicle(v) PROVE Goal
  BY <1>4 DEF Tables!DeleteVehicle, tracked
<1>5. ASSUME NEW v \in VehicleIds, Tables!Track(v) PROVE Goal
  BY <1>5 DEF Tables!Track
<1>6. ASSUME NEW u \in UserIds, Tables!CreateUser(u) PROVE Goal
  <2>1. /\ DOMAIN users' = DOMAIN users \cup {u}
        /\ \A x \in DOMAIN users' : users'[x] \in {users[x], Tables!NoPair}
        /\ routes' = routes /\ vehicles' = vehicles /\ issued' = issued \cup {u}
    BY <1>6 DEF Tables!CreateUser
  <2>2. users' = [x \in DOMAIN users \cup {u} |-> IF x = u THEN Tables!NoPair ELSE users[x]]
    BY <1>6 DEF Tables!CreateUser
  <2>3. \A x \in DOMAIN users : x # u => users'[x] = users[x]
    BY <2>2
  <2>4. users'[u] = Tables!NoPair  BY <2>2
  <2>5. users' \in [DOMAIN users' -> Pairs]  BY <2>1, <2>2, NoReadTypes
  <2>6. FleetInv'
    BY <2>1, <2>3, <2>4, NoneOutside DEF Tables!NoPair
  <2>7. QED  BY <2>1, <2>5, <2>6
<1>7. ASSUME NEW u \in UserIds, Tables!DeleteUser(u) PROVE Goal
  <2>1. /\ users' = [x \in DOMAIN users \ {u} |-> users[x]]
        /\ routes' = routes /\ vehicles' = vehicles /\ issued' = issued
    BY <1>7 DEF Tables!DeleteUser
  <2>2. /\ DOMAIN users' = DOMAIN users \ {u} /\ users' \in [DOMAIN users' -> Pairs]
        /\ \A x \in DOMAIN users' : users'[x] = users[x]
    BY <2>1
  <2>3. QED  BY <2>1, <2>2
<1>8. ASSUME NEW u \in UserIds, NEW body \in Tables!Bodies,
             NEW columns \in SUBSET {"route", "vehicle"}, Tables!SetColumns(u, body, columns)
      PROVE  Goal
  <2> DEFINE new == [route   |-> IF "route" \in columns THEN body.route ELSE users[u].route,
                     vehicle |-> IF "vehicle" \in columns THEN body.vehicle ELSE users[u].vehicle]
  <2>1. /\ users' = [users EXCEPT ![u] = new] /\ u \in DOMAIN users
        /\ routes' = routes /\ vehicles' = vehicles /\ issued' = issued
    BY <1>8 DEF Tables!SetColumns
  <2>2. /\ new.route \in routes \cup {None} /\ new.vehicle \in vehicles \cup {None}
        /\ new \in Pairs
    <3>1. "route" \in columns => body.route \in routes \cup {None}  BY <1>8 DEF Tables!SetColumns
    <3>2. "vehicle" \in columns => body.vehicle \in vehicles \cup {None}
      BY <1>8 DEF Tables!SetColumns
    <3>3. users[u].route \in routes \cup {None} /\ users[u].vehicle \in vehicles \cup {None}
      BY <2>1
    <3>4. QED  BY <3>1, <3>2, <3>3 DEF Pairs
  <2> HIDE DEF new
  <2>3. /\ DOMAIN users' = DOMAIN users /\ users' \in [DOMAIN users' -> Pairs]
        /\ users'[u] = new /\ \A x \in DOMAIN users \ {u} : users'[x] = users[x]
    BY <2>1, <2>2
  <2>4. FleetInv'  BY <2>1, <2>2, <2>3
  <2>5. QED  BY <2>1, <2>3, <2>4
<1>9. QED
  BY <1>1, <1>2, <1>3, <1>4, <1>5, <1>6, <1>7, <1>8 DEF Tables!Next, Tables!Maintain

\* A change of the users table makes every request and answer an old one.
LEMMA AdministerStep == ASSUME ReadsInv, Administer PROVE ReadsInv'
<1> USE DEF ReadsInv
<1>1. stored' = stored /\ read' = read /\ shown' = shown /\ Tables!Next
  BY DEF Administer
<1>2. /\ changes \in Nat /\ changes' \in 0 .. MaxChanges
      /\ \/ changes' = changes /\ UsersKept
         \/ changes' = changes + 1
  BY BoundsAssumption DEF Administer, TypeOK
<1>3. /\ FleetInv'
      /\ DOMAIN users' \subseteq UserIds /\ users' \in [DOMAIN users' -> Pairs]
      /\ routes' \subseteq RouteIds /\ vehicles' \subseteq VehicleIds
      /\ issued' \subseteq UserIds \cup RouteIds \cup VehicleIds
  BY <1>1, TablesStep
<1>4. TypeOK'  BY <1>1, <1>2, <1>3 DEF TypeOK
<1>5. \A u \in UserIds : read[u].at \in Nat /\ shown[u].at \in Nat
  BY BoundsAssumption DEF TypeOK, Reads, Answers
<1>6. ReadInv'  BY <1>1, <1>2, <1>5 DEF ReadInv, Fresh, UsersKept
<1>7. ShownInv'  BY <1>1, <1>2, <1>5 DEF ShownInv, ShownFits, UsersKept
<1>8. QED  BY <1>3, <1>4, <1>6, <1>7

\* A fix is stored of a vehicle that exists, and takes none away.
LEMMA StoreFixStep ==
    ASSUME ReadsInv, NEW v \in VehicleIds, StoreFix(v)
    PROVE  ReadsInv'
<1> USE DEF ReadsInv
<1>1. /\ stored' = [stored EXCEPT ![v] = @ + 1] /\ v \in vehicles /\ stored[v] < MaxFixes
      /\ UNCHANGED <<users, routes, vehicles, issued, changes, read, shown>>
  BY DEF StoreFix, FixStored, Tables!Track
<1>2. /\ stored' \in [VehicleIds -> 0 .. MaxFixes]
      /\ \A x \in VehicleIds : stored[x] > 0 => stored'[x] > 0
      /\ \A x \in VehicleIds : stored'[x] > 0 => x = v \/ stored[x] > 0
  BY <1>1, BoundsAssumption DEF TypeOK
<1>3. TypeOK'  BY <1>1, <1>2 DEF TypeOK
<1>4. FleetInv'  BY <1>1, <1>2 DEF FleetInv
<1>5. ReadInv'  BY <1>1, <1>2 DEF ReadInv, Fresh
<1>6. ShownInv'  BY <1>1, <1>2 DEF ShownInv, ShownFits
<1>7. QED  BY <1>3, <1>4, <1>5, <1>6

\* A request that begins holds what is its user's now.
LEMMA AuthenticateStep ==
    ASSUME ReadsInv, NEW u \in UserIds, NEW kind \in Kinds, Authenticate(u, kind)
    PROVE  ReadsInv'
<1> DEFINE pair == users[u]
           q == [kind |-> kind, pair |-> pair, at |-> changes,
                 session |-> {pair.route, pair.vehicle} \cap (routes \cup vehicles),
                 fix |-> IF pair.vehicle \in vehicles THEN stored[pair.vehicle] ELSE 0]
<1> USE DEF ReadsInv
<1>1. /\ u \in DOMAIN users /\ ~Unassigned(kind, pair) /\ read' = [read EXCEPT ![u] = q]
      /\ shown' = [shown EXCEPT ![u] = NoAnswer]
      /\ UNCHANGED <<users, routes, vehicles, issued, stored, changes>>
  BY DEF Authenticate, LoadUser
<1>2. /\ pair.route \in routes \cup {None} /\ pair.vehicle \in vehicles \cup {None}
      /\ pair \in Pairs
  BY <1>1 DEF FleetInv, TypeOK
<1>3. /\ q.pair = pair /\ q.at = changes /\ q.kind = kind
      /\ {pair.route, pair.vehicle} \subseteq q.session \cup {None}
      /\ q.session \subseteq RouteIds \cup VehicleIds
      /\ q.fix \in 0 .. MaxFixes
      /\ q.fix > 0 => pair.vehicle \in VehicleIds /\ stored[pair.vehicle] > 0
  BY <1>2, BoundsAssumption DEF TypeOK
<1>4. q \in Reads  BY <1>2, <1>3 DEF Reads, TypeOK
<1> HIDE DEF q
<1>5. read'[u] = q /\ \A x \in UserIds \ {u} : read'[x] = read[x]
  BY <1>1 DEF TypeOK
<1>6. TypeOK'  BY <1>1, <1>4, NoReadTypes DEF TypeOK
<1>7. /\ \A x \in UserIds \ {u} : shown'[x] = shown[x]
      /\ shown'[u].route = None /\ shown'[u].vehicle = None
      /\ shown'[u].fix = 0 /\ shown'[u].at = 0
  BY <1>1 DEF TypeOK, NoAnswer
<1>8. FleetInv'  BY <1>1 DEF FleetInv
<1>9. ShownInv'
  <2>1. 0 <= changes /\ ~(0 > 0)  BY BoundsAssumption DEF TypeOK
  <2>2. ShownFits(u)'  BY <1>1, <1>7, <2>1 DEF ShownFits
  <2>3. ASSUME NEW x \in UserIds \ {u} PROVE ShownFits(x)'
    <3>1. ShownFits(x) /\ shown'[x] = shown[x]  BY <1>7 DEF ShownInv
    <3>2. QED  BY <1>1, <3>1 DEF ShownFits
  <2>4. QED  BY <2>2, <2>3 DEF ShownInv
<1>10. changes <= changes  BY BoundsAssumption DEF TypeOK
<1>11. ReadInv'
  BY <1>1, <1>3, <1>5, <1>10 DEF ReadInv, Fresh
<1>12. QED  BY <1>6, <1>8, <1>9, <1>11

\* The parts of an answer are the request's own, and none is missing.
LEMMA ResultParts ==
    ASSUME ReadsInv, NEW u \in UserIds, read[u] # NoRead
    PROVE  /\ Result(u).route = IF read[u].kind \in {"assignment", "route"}
                                THEN read[u].pair.route ELSE None
           /\ Result(u).vehicle = IF read[u].kind = "route" THEN None ELSE read[u].pair.vehicle
           /\ Result(u).route # None \/ Result(u).vehicle # None
           /\ Result(u).fix \in 0 .. MaxFixes
           /\ Result(u).fix > 0 => /\ Result(u).vehicle \in VehicleIds
                                   /\ stored[Result(u).vehicle] > 0
<1> DEFINE q == read[u]
           r == q.pair.route
           v == q.pair.vehicle
           Parts(route, vehicle) ==
             /\ route = IF q.kind \in {"assignment", "route"} THEN r ELSE None
             /\ vehicle = IF q.kind = "route" THEN None ELSE v
             /\ route # None \/ vehicle # None
<1>1. /\ r \in RouteIds \cup {None} /\ v \in VehicleIds \cup {None}
      /\ {r, v} \subseteq q.session \cup {None}
      /\ q.kind \in Kinds /\ ~Unassigned(q.kind, q.pair) /\ q.fix \in 0 .. MaxFixes
      /\ q.pair = [route |-> r, vehicle |-> v]
      /\ q.fix > 0 => v \in VehicleIds /\ stored[v] > 0
      /\ v \in VehicleIds => stored[v] \in 0 .. MaxFixes
  BY DEF ReadsInv, ReadInv, TypeOK, Reads, Pairs
<1>2. Get(routes, r, q) = r /\ Get(vehicles, v, q) = v  BY <1>1 DEF Get
<1>3. 0 \in 0 .. MaxFixes /\ ~(0 > 0)  BY BoundsAssumption
<1> HIDE DEF q, r, v
<1>4. CASE q.kind = "assignment"
  <2>1. Result(u) = [route |-> r, vehicle |-> v, fix |-> 0]
    BY <1>2, <1>4 DEF Result, GetAssignment, CallerPair, q, r, v
  <2>2. r # None \/ v # None  BY <1>1, <1>4 DEF Unassigned, Tables!NoPair
  <2>3. QED  BY <1>3, <1>4, <2>1, <2>2 DEF q, r, v
<1>5. CASE q.kind = "route"
  <2>1. Result(u) = [route |-> r, vehicle |-> None, fix |-> 0]
    BY <1>2, <1>5 DEF Result, GetRoute, CallerPair, q, r, v
  <2>2. r # None  BY <1>1, <1>5 DEF Unassigned
  <2>3. QED  BY <1>3, <1>5, <2>1, <2>2 DEF q, r, v
<1>6. CASE q.kind \in {"current", "history"}
  <2>1. v # None /\ v \in VehicleIds  BY <1>1, <1>6 DEF Unassigned
  <2>2. PICK f \in 0 .. MaxFixes : /\ Result(u) = [route |-> None, vehicle |-> v, fix |-> f]
                                   /\ f > 0 => stored[v] > 0
    <3>1. CASE q.kind = "current"
      <4>1. Result(u) = [route |-> None, vehicle |-> v,
                         fix |-> IF q.fix # 0 THEN q.fix ELSE stored[v]]
        BY <1>2, <2>1, <3>1 DEF Result, GetCurrentLocation, CallerPair, q, r, v
      <4>2. QED  BY <1>1, <2>1, <4>1
    <3>2. CASE q.kind = "history"
      <4>1. Result(u) = [route |-> None, vehicle |-> v, fix |-> stored[v]]
        BY <2>1, <3>2 DEF Result, GetHistory, CallerPair, q, r, v
      <4>2. QED  BY <1>1, <2>1, <4>1
    <3>3. QED  BY <1>6, <3>1, <3>2
  <2>3. QED  BY <1>6, <2>1, <2>2 DEF q, r, v
<1>7. QED  BY <1>1, <1>4, <1>5, <1>6 DEF Kinds

\* An answer is as old as its request and shows what that held.
LEMMA AnswerStep ==
    ASSUME ReadsInv, NEW u \in UserIds, Answer(u)
    PROVE  ReadsInv'
<1> DEFINE q == read[u]
           a == [route |-> Result(u).route, vehicle |-> Result(u).vehicle,
                 fix |-> Result(u).fix, at |-> q.at]
<1> USE DEF ReadsInv
<1>1. /\ q # NoRead /\ shown' = [shown EXCEPT ![u] = a] /\ read' = [read EXCEPT ![u] = NoRead]
      /\ UNCHANGED <<users, routes, vehicles, issued, stored, changes>>
  BY DEF Answer
<1>2. /\ a.at = q.at /\ q.at \in 0 .. MaxChanges /\ a.fix \in 0 .. MaxFixes
      /\ a.route \in {None, q.pair.route} /\ a.vehicle \in {None, q.pair.vehicle}
      /\ a.fix > 0 => a.vehicle \in VehicleIds /\ stored[a.vehicle] > 0
  BY <1>1, ResultParts DEF TypeOK, Reads
<1>3. a \in Answers
  <2>1. q.pair \in Pairs  BY DEF TypeOK, Reads
  <2>2. a.route \in RouteIds \cup {None} /\ a.vehicle \in VehicleIds \cup {None}
    BY <1>2, <2>1 DEF Pairs
  <2>3. QED  BY <1>2, <2>2 DEF Answers
<1> HIDE DEF a
<1>4. /\ shown'[u] = a /\ \A x \in UserIds \ {u} : shown'[x] = shown[x]
      /\ read'[u] = NoRead /\ \A x \in UserIds \ {u} : read'[x] = read[x]
  BY <1>1 DEF TypeOK
<1>5. TypeOK'  BY <1>1, <1>3, NoReadTypes DEF TypeOK
<1>6. FleetInv'  BY <1>1 DEF FleetInv
<1>7. ReadInv'  BY <1>1, <1>4 DEF ReadInv, Fresh
<1>8. ShownInv'
  <2>1. q.at <= changes /\ (q.at = changes => u \in DOMAIN users /\ users[u] = q.pair)
    BY <1>1 DEF ReadInv, Fresh
  <2>2. QED  BY <1>1, <1>2, <1>4, <2>1 DEF ShownInv, ShownFits
<1>9. QED  BY <1>5, <1>6, <1>7, <1>8

LEMMA NextReadsInv == ReadsInv /\ [Next]_vars => ReadsInv'
<1> SUFFICES ASSUME ReadsInv, [Next]_vars PROVE ReadsInv'
  OBVIOUS
<1>1. CASE UNCHANGED vars
  BY <1>1 DEF vars, ReadsInv, TypeOK, FleetInv, ReadInv, Fresh, ShownInv, ShownFits
<1>2. CASE Next
  BY <1>2, AdministerStep, StoreFixStep, AuthenticateStep, AnswerStep DEF Next
<1>3. QED  BY <1>1, <1>2

LEMMA Invariance == Spec => []ReadsInv
BY InitReadsInv, NextReadsInv, PTL DEF Spec

-----------------------------------------------------------------------------
\* Rows, requests and answers have their types.
THEOREM Typing == Spec => []TypeOK
BY Invariance, PTL DEF ReadsInv

\* Nothing but an answer ends a request.
LEMMA EndsAnswered ==
    ASSUME ReadsInv, [Next]_vars, NEW u \in UserIds, read[u] # NoRead, read'[u] = NoRead
    PROVE  Answer(u)
<1>1. read' # read  OBVIOUS
<1>2. ~Administer /\ ~(UNCHANGED vars) /\ \A v \in VehicleIds : ~StoreFix(v)
  BY <1>1 DEF Administer, StoreFix, vars
<1>3. \A x \in UserIds, kind \in Kinds : ~Authenticate(x, kind)
  BY DEF Authenticate, ReadsInv, TypeOK
<1>4. \A x \in UserIds \ {u} : ~Answer(x)
  BY DEF Answer, ReadsInv, TypeOK
<1>5. QED  BY <1>2, <1>3, <1>4 DEF Next

\* Every answer is the row its user had when the request was authenticated, with all
\* the parts its kind asks for, whatever admins change and delete while it runs and
\* however their requests race, half pairs included.
THEOREM Wholeness == Spec => WholeAnswers
<1> DEFINE Whole(u) ==
      LET kind == read[u].kind
          pair == read[u].pair
      IN /\ shown'[u].route = IF kind \in {"assignment", "route"} THEN pair.route ELSE None
         /\ shown'[u].vehicle = IF kind = "route" THEN None ELSE pair.vehicle
         /\ shown'[u].route # None \/ shown'[u].vehicle # None
<1>1. ASSUME ReadsInv, [Next]_vars, NEW u \in UserIds, read[u] # NoRead, read'[u] = NoRead
      PROVE  Whole(u)
  <2>1. Answer(u)  BY <1>1, EndsAnswered
  <2>2. shown'[u].route = Result(u).route /\ shown'[u].vehicle = Result(u).vehicle
    BY <1>1, <2>1 DEF Answer, ReadsInv, TypeOK
  <2>3. QED  BY <1>1, <2>2, ResultParts
<1>2. ReadsInv /\ [Next]_vars
        => [\A u \in UserIds : read[u] # NoRead /\ read'[u] = NoRead => Whole(u)]_vars
  BY <1>1
<1>3. QED  BY <1>2, Invariance, PTL DEF Spec, WholeAnswers

\* A driver is shown nothing but what is in its own row, unless that has changed since
\* the request was authenticated, with any number of drivers, changes and racing
\* requests.
THEOREM Isolation == Spec => []OwnAnswers
<1>1. ReadsInv => OwnAnswers
  BY DEF ReadsInv, ShownInv, ShownFits, OwnAnswers
<1>2. QED  BY <1>1, Invariance, PTL

\* A vehicle whose location or history was shown is never deleted afterwards.
THEOREM Permanence == Spec => []ShownStays
<1>1. ReadsInv => ShownStays
  BY DEF ReadsInv, FleetInv, ShownInv, ShownFits, ShownStays
<1>2. QED  BY <1>1, Invariance, PTL
=============================================================================
