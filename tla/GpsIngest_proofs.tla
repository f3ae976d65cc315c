------------------------- MODULE GpsIngest_proofs -------------------------
(* Machine-checked proofs about GpsIngest, for every set of vehicles, times *)
(* and places and every bound on the deliveries.                           *)
EXTENDS GpsIngest, TLAPS

-----------------------------------------------------------------------------
(* Type correctness                                                        *)

LEMMA CommitTypes ==
    ASSUME TypeOK, NEW s \in Subscribers, handler[s].at = "commit", ~CommitFails(handler[s])
    PROVE  /\ handler[s] \in Handlings
           /\ handler[s].loaded # None => location[handler[s].vehicle] \in Fixes \cup {None}
           /\ location[handler[s].vehicle] # None => NewLocation(handler[s]) \in Fixes
           /\ handler[s].loaded = None => NewLocation(handler[s]) = handler[s].fix
<1> DEFINE h == handler[s]
<1>1. h \in Handlings
  BY DEF TypeOK, Waiting, Handlings
<1>2. location[h.vehicle] \in Fixes \cup {None}
  BY <1>1 DEF TypeOK, Handlings
<1>3. ASSUME location[h.vehicle] # None PROVE Written(location[h.vehicle], h) \in Fixes
  BY <1>1, <1>2, <1>3 DEF Written, Fixes, Handlings
<1>4. h.fix \in Fixes
  BY <1>1 DEF Handlings
<1> QED BY <1>1, <1>2, <1>3, <1>4 DEF NewLocation

\* What the ingestion pipeline may rely on: a session holds a current row only if
\* the table has one, since the table never loses one.
LoadedExists ==
    \A s \in Subscribers :
        handler[s] # Waiting /\ handler[s].loaded # None => location[handler[s].vehicle] # None

LEMMA TypingStep == ASSUME TypeOK, LoadedExists, [Next]_vars PROVE TypeOK' /\ LoadedExists'
<1> USE DEF TypeOK, LoadedExists
<1>1. CASE Admin
  BY <1>1 DEF Admin, CreateVehicle, SetActive, DeleteVehicle
<1>2. ASSUME NEW s \in Subscribers, NEW m \in Messages, Deliver(s, m)
      PROVE  TypeOK' /\ LoadedExists'
  BY <1>2 DEF Deliver
<1>3. ASSUME NEW s \in Subscribers, TakeMessage(s) PROVE TypeOK' /\ LoadedExists'
  <2> DEFINE m == Head(queue[s])
  <2>1. m \in Messages /\ Tail(queue[s]) \in Seq(Messages)
    BY <1>3 DEF TakeMessage
  <2>2. queue' \in [Subscribers -> Seq(Messages)]
    BY <1>3, <2>1 DEF TakeMessage
  <2>3. CASE WellFormed(m) /\ vehicles[m.vehicle] = "active"
    <3> DEFINE h == [at |-> "readCurrent", vehicle |-> m.vehicle, fix |-> m.fix,
                     loaded |-> location[m.vehicle]]
    <3>1. m.vehicle \in VehicleIds
      BY <2>1, <2>3 DEF Messages, WellFormed
    <3>2. h \in Handlings
      BY <2>1, <3>1 DEF Messages, Handlings
    <3>3. handler' = [handler EXCEPT ![s] = h]
      BY <1>3, <2>3 DEF TakeMessage
    <3>4. handler' \in [Subscribers -> Handlings \cup {Waiting}]
      BY <3>2, <3>3
    <3>5. LoadedExists'
      BY <1>3, <3>3 DEF TakeMessage
    <3> QED BY <1>3, <2>2, <3>4, <3>5 DEF TakeMessage
  <2>4. CASE ~(WellFormed(m) /\ vehicles[m.vehicle] = "active")
    BY <1>3, <2>2, <2>4 DEF TakeMessage
  <2> QED BY <2>3, <2>4
<1>4. ASSUME NEW s \in Subscribers, ReadCurrent(s) PROVE TypeOK' /\ LoadedExists'
  <2> DEFINE h == handler[s]
             l == IF h.loaded = None THEN location[h.vehicle] ELSE h.loaded
             g == [h EXCEPT !.at = "commit", !.loaded = l]
  <2>1. h \in Handlings
    BY <1>4 DEF ReadCurrent, Waiting, Handlings
  <2>2. l \in Fixes \cup {None}
    BY <2>1 DEF Handlings
  <2>3. g \in Handlings /\ g.vehicle = h.vehicle /\ g.loaded = l
    <3> HIDE DEF l
    <3> QED BY <2>1, <2>2 DEF Handlings
  <2>4. handler' = [handler EXCEPT ![s] = g]
    BY <1>4 DEF ReadCurrent
  <2>5. h # Waiting
    BY <1>4 DEF ReadCurrent, Waiting
  <2>6. l # None => location[h.vehicle] # None
    BY <2>5
  <2> HIDE DEF g, l
  <2>7. LoadedExists'
    BY <1>4, <2>3, <2>4, <2>6 DEF ReadCurrent
  <2> QED BY <1>4, <2>3, <2>4, <2>7 DEF ReadCurrent
<1>5. ASSUME NEW s \in Subscribers, Commit(s) PROVE TypeOK' /\ LoadedExists'
  <2> DEFINE h == handler[s]
  <2>1. handler' = [handler EXCEPT ![s] = Waiting]
    BY <1>5 DEF Commit
  <2>2. CASE CommitFails(h)
    BY <1>5, <2>1, <2>2 DEF Commit
  <2>3. CASE ~CommitFails(h)
    <3>1. h \in Handlings /\ h # Waiting /\ NewLocation(h) \in Fixes
      BY <1>5, <2>3, CommitTypes DEF Commit, Handlings, Waiting
    <3>2. /\ history' = [history EXCEPT ![h.vehicle] = Append(@, h.fix)]
          /\ location' = [location EXCEPT ![h.vehicle] = NewLocation(h)]
      BY <1>5, <2>3 DEF Commit
    <3>3. history' \in [VehicleIds -> Seq(Fixes)] /\ location' \in [VehicleIds -> Fixes \cup {None}]
      BY <3>1, <3>2 DEF Handlings
    <3>4. \A v \in VehicleIds : location[v] # None => location'[v] # None
      BY <3>1, <3>2, NoFixAssumption DEF Handlings
    <3>5. LoadedExists'
      BY <2>1, <3>4 DEF Handlings
    <3> QED BY <1>5, <2>1, <3>3, <3>5 DEF Commit
  <2> QED BY <2>2, <2>3
<1>6. ASSUME NEW s \in Subscribers, DatabaseError(s) \/ Restart(s)
      PROVE  TypeOK' /\ LoadedExists'
  <2>1. /\ handler' = [handler EXCEPT ![s] = Waiting]
        /\ UNCHANGED <<vehicles, history, location, deliveries>>
    BY <1>6 DEF DatabaseError, Restart
  <2>2. queue' = queue \/ queue' = [queue EXCEPT ![s] = <<>>]
    BY <1>6 DEF DatabaseError, Restart
  <2>3. <<>> \in Seq(Messages)
    OBVIOUS
  <2>4. queue' \in [Subscribers -> Seq(Messages)]
    BY <2>2, <2>3
  <2> QED BY <2>1, <2>4
<1>7. CASE UNCHANGED vars
  BY <1>7 DEF vars
<1> QED BY <1>1, <1>2, <1>3, <1>4, <1>5, <1>6, <1>7 DEF Next, Handle

LEMMA TypingInvariant == Spec => [](TypeOK /\ LoadedExists)
<1>1. Init => TypeOK /\ LoadedExists
  BY DEF Init, TypeOK, LoadedExists
<1> QED BY <1>1, TypingStep, PTL DEF Spec

\* However many subscribers, orders and failures, the tables keep their types: a
\* column-wise UPDATE is never applied to a row that is not there.
THEOREM Typing == Spec => []TypeOK
BY TypingInvariant, PTL

-----------------------------------------------------------------------------
(* The current location is backed by history, with any number of           *)
(* subscribers                                                             *)

LEMMA AppendFacts ==
    ASSUME NEW h \in Seq(Fixes), NEW f \in Fixes
    PROVE  /\ Append(h, f) \in Seq(Fixes) /\ Append(h, f) # <<>>
           /\ DOMAIN Append(h, f) = 1 .. Len(h) + 1
           /\ DOMAIN h = 1 .. Len(h) /\ Len(h) \in Nat
           /\ Append(h, f)[Len(h) + 1] = f
           /\ \A j \in DOMAIN h : j \in DOMAIN Append(h, f) /\ Append(h, f)[j] = h[j]
OBVIOUS

LEMMA BackedStep ==
    ASSUME TypeOK, LoadedExists, LocationBacked, [Next]_vars
    PROVE  LocationBacked'
<1> USE DEF LocationBacked
<1>1. CASE Admin
  <2> USE DEF TypeOK, Exists
  <2>1. ASSUME NEW v \in VehicleIds, NEW status \in {"active", "inactive"},
               CreateVehicle(v, status) \/ SetActive(v, status)
        PROVE  LocationBacked'
    BY <2>1 DEF CreateVehicle, SetActive
  <2>2. ASSUME NEW v \in VehicleIds, DeleteVehicle(v) PROVE LocationBacked'
    BY <2>2 DEF DeleteVehicle
  <2> QED BY <1>1, <2>1, <2>2 DEF Admin
<1>2. ASSUME NEW s \in Subscribers, Commit(s), ~CommitFails(handler[s]) PROVE LocationBacked'
  <2> DEFINE h == handler[s]
             v == h.vehicle
  <2>1. /\ history' = [history EXCEPT ![v] = Append(@, h.fix)]
        /\ location' = [location EXCEPT ![v] = NewLocation(h)] /\ vehicles' = vehicles
    BY <1>2 DEF Commit
  <2>2. h \in Handlings /\ h # Waiting
    BY <1>2 DEF Commit, TypeOK, Waiting, Handlings
  <2>3. v \in VehicleIds /\ h.fix \in Fixes /\ history[v] \in Seq(Fixes)
    BY <2>2 DEF TypeOK, Handlings
  <2>4. /\ history'[v] # <<>>
        /\ \E i \in DOMAIN history'[v] : history'[v][i] = h.fix
        /\ \A j \in DOMAIN history[v] : j \in DOMAIN history'[v] /\ history'[v][j] = history[v][j]
    <3>1. history'[v] = Append(history[v], h.fix)
      BY <2>1, <2>3 DEF TypeOK
    <3>2. Len(history[v]) + 1 \in 1 .. Len(history[v]) + 1
      BY <2>3, AppendFacts
    <3> QED BY <2>3, <3>1, <3>2, AppendFacts
  <2>5. location'[v] = NewLocation(h)
    BY <2>1, <2>3 DEF TypeOK
  <2>6. NewLocation(h) # None
    <3>1. NewLocation(h) \in Fixes
      BY <1>2, <2>2, CommitTypes DEF Commit, LoadedExists, Handlings
    <3> QED BY <3>1, NoFixAssumption
  <2>7. \E i \in DOMAIN history'[v] : history'[v][i].time = location'[v].time
    <3>1. CASE NewLocation(h).time = h.fix.time
      BY <2>4, <2>5, <3>1
    <3>2. CASE NewLocation(h).time # h.fix.time
      <4>1. NewLocation(h) = location[v]
        BY <3>2 DEF NewLocation, Written
      <4>2. PICK i \in DOMAIN history[v] : history[v][i].time = location[v].time
        BY <2>6, <4>1, <2>3
      <4> QED BY <2>3, <2>4, <2>5, <4>1, <4>2
    <3> QED BY <3>1, <3>2
  <2>8. Exists(v) /\ vehicles' = vehicles
    BY <1>2, <2>1 DEF CommitFails
  <2>9. \A x \in VehicleIds \ {v} : history'[x] = history[x] /\ location'[x] = location[x]
    BY <2>1 DEF TypeOK
  <2> QED BY <2>1, <2>4, <2>5, <2>6, <2>7, <2>8, <2>9 DEF Exists
<1>3. CASE UNCHANGED <<vehicles, history, location>>
  BY <1>3 DEF Exists
<1>4. ASSUME NEW s \in Subscribers, Handle(s), ~(Commit(s) /\ ~CommitFails(handler[s]))
      PROVE  UNCHANGED <<vehicles, history, location>>
  BY <1>4 DEF Handle, TakeMessage, ReadCurrent, Commit, DatabaseError, Restart
<1>5. ASSUME NEW s \in Subscribers, NEW m \in Messages, Deliver(s, m)
      PROVE  UNCHANGED <<vehicles, history, location>>
  BY <1>5 DEF Deliver
<1> QED BY <1>1, <1>2, <1>3, <1>4, <1>5 DEF Next, vars

\* However many subscribers race, a vehicle has a current location exactly when it
\* has history, dated as one of its fixes, and only while its row exists.
THEOREM Backed == Spec => []LocationBacked
<1>1. Init => LocationBacked
  BY DEF Init, LocationBacked
<1>2. TypeOK /\ LoadedExists /\ LocationBacked /\ [Next]_vars => LocationBacked'
  BY BackedStep
<1> QED BY <1>1, <1>2, TypingInvariant, PTL DEF Spec

-----------------------------------------------------------------------------
(* How far a race may take the current location back                       *)

\* What a handler loads is the current row, and what it writes is newer than what
\* it loaded.
LEMMA NotBeforeStep ==
    ASSUME TypeOK, LoadedExists, NEW v \in VehicleIds, NEW time \in Times,
           NotBefore(v, time), [Next]_vars
    PROVE  NotBefore(v, time)'
<1> USE DEF NotBefore
<1>1. CASE Admin
  BY <1>1 DEF Admin, CreateVehicle, SetActive, DeleteVehicle
<1>2. ASSUME NEW s \in Subscribers, NEW m \in Messages, Deliver(s, m) PROVE NotBefore(v, time)'
  BY <1>2 DEF Deliver
<1>3. ASSUME NEW s \in Subscribers, TakeMessage(s) PROVE NotBefore(v, time)'
  BY <1>3 DEF TakeMessage, TypeOK
<1>4. ASSUME NEW s \in Subscribers, ReadCurrent(s) PROVE NotBefore(v, time)'
  <2> DEFINE h == handler[s]
             l == IF h.loaded = None THEN location[h.vehicle] ELSE h.loaded
             g == [h EXCEPT !.at = "commit", !.loaded = l]
  <2>1. h \in Handlings /\ h # Waiting
    BY <1>4 DEF ReadCurrent, TypeOK, Waiting, Handlings
  <2>2. g.vehicle = h.vehicle /\ g.loaded = l
    <3> HIDE DEF l
    <3> QED BY <2>1 DEF Handlings
  <2>3. handler' = [handler EXCEPT ![s] = g] /\ UNCHANGED location
    BY <1>4 DEF ReadCurrent
  <2>4. h.vehicle = v => l.time >= time
    BY <2>1
  <2> HIDE DEF g, l
  <2> QED BY <2>1, <2>2, <2>3, <2>4 DEF TypeOK
<1>5. ASSUME NEW s \in Subscribers, Commit(s) PROVE NotBefore(v, time)'
  <2> DEFINE h == handler[s]
  <2>1. handler' = [handler EXCEPT ![s] = Waiting] /\ h \in Handlings /\ h # Waiting
    BY <1>5 DEF Commit, TypeOK, Waiting, Handlings
  <2>2. location'[v] # None /\ location'[v].time >= time
    <3>1. CASE CommitFails(h) \/ h.vehicle # v
      BY <1>5, <2>1, <3>1 DEF Commit, TypeOK, Handlings
    <3>2. CASE ~CommitFails(h) /\ h.vehicle = v
      <4>1. h.loaded # None /\ h.loaded \in Fixes /\ h.fix \in Fixes /\ location[v] \in Fixes
        BY <2>1, <3>2 DEF CommitFails, TypeOK, Handlings
      <4>2. location'[v] = NewLocation(h)
        BY <1>5, <3>2 DEF Commit, TypeOK
      <4>3. h.loaded.time >= time
        BY <2>1, <3>2, <4>1
      <4>4. h.loaded.time \in Int /\ h.fix.time \in Int /\ time \in Int
        BY <4>1, TimesAssumption DEF Fixes
      <4>5. NewLocation(h).time >= time
        <5>1. CASE h.fix.time > h.loaded.time
          BY <3>2, <4>1, <4>3, <4>4, <5>1 DEF NewLocation, Written
        <5>2. CASE ~(h.fix.time > h.loaded.time)
          BY <3>2, <4>1, <5>2 DEF NewLocation
        <5> QED BY <5>1, <5>2
      <4>6. NewLocation(h) \in Fixes
        BY <1>5, <3>2, <4>1, NoFixAssumption, CommitTypes DEF Commit
      <4> QED BY <4>2, <4>5, <4>6, NoFixAssumption
    <3> QED BY <3>1, <3>2
  <2>3. \A x \in Subscribers : handler'[x] = Waiting \/ handler'[x] = handler[x]
    BY <2>1 DEF TypeOK
  <2> QED BY <2>2, <2>3
<1>6. ASSUME NEW s \in Subscribers, DatabaseError(s) \/ Restart(s) PROVE NotBefore(v, time)'
  BY <1>6 DEF DatabaseError, Restart, TypeOK
<1>7. CASE UNCHANGED vars
  BY <1>7 DEF vars
<1> QED BY <1>1, <1>2, <1>3, <1>4, <1>5, <1>6, <1>7 DEF Next, Handle

\* However many subscribers overlap, a race takes the current location back no
\* further than to the oldest row that one of them has loaded.
THEOREM Regress == Spec => RegressBounded
<1>1. TypeOK /\ LoadedExists /\ [Next]_vars =>
        \A v \in VehicleIds, time \in Times : NotBefore(v, time) => NotBefore(v, time)'
  BY NotBeforeStep
<1>2. TypeOK /\ LoadedExists /\ [Next]_vars =>
        [\A v \in VehicleIds, time \in Times : NotBefore(v, time) => NotBefore(v, time)']_vars
  BY <1>1
<1> QED BY <1>2, TypingInvariant, PTL DEF Spec, RegressBounded

-----------------------------------------------------------------------------
(* What has to be kept apart for LatestLocation                            *)

\* No two subscribers handle a message of the same vehicle at once.
VehiclesApart ==
    \A s, t \in Subscribers :
        s # t /\ handler[s] # Waiting /\ handler[t] # Waiting
          => handler[s].vehicle # handler[t].vehicle

\* A newest fix, once there is one, is the only one.
LEMMA NewestUnique ==
    ASSUME NEW h \in Seq(Fixes), NEW i \in DOMAIN h, Latest!IsNewest(h, i)
    PROVE  Latest!Newest(h) = h[i]
<1>1. ASSUME NEW j \in DOMAIN h PROVE h[j].time \in Int
  <2>1. h[j] \in Fixes
    OBVIOUS
  <2> QED BY <2>1, TimesAssumption DEF Fixes
<1>2. ASSUME NEW k \in DOMAIN h, Latest!IsNewest(h, k) PROVE k = i
  BY <1>1, <1>2 DEF Latest!IsNewest
<1>3. (CHOOSE k \in DOMAIN h : Latest!IsNewest(h, k)) = i
  BY <1>2
<1>4. h # <<>>
  OBVIOUS
<1> QED BY <1>3, <1>4 DEF Latest!Newest

HasNewest(h) == h # <<>> => \E i \in DOMAIN h : Latest!IsNewest(h, i)

\* Adding a fix keeps the newest one unless the added one is strictly newer:
\* handle_gps_message's "recorded_at > current.recorded_at".
LEMMA NewestOfAppend ==
    ASSUME NEW h \in Seq(Fixes), HasNewest(h), NEW f \in Fixes
    PROVE  /\ HasNewest(Append(h, f))
           /\ Latest!Newest(Append(h, f)) =
                IF h = <<>> \/ f.time > Latest!Newest(h).time THEN f ELSE Latest!Newest(h)
<1> DEFINE g == Append(h, f)
           n == Len(h) + 1
<1>1. /\ g \in Seq(Fixes) /\ DOMAIN g = 1 .. n /\ DOMAIN h = 1 .. Len(h) /\ Len(h) \in Nat
      /\ g[n] = f /\ \A j \in DOMAIN h : g[j] = h[j]
  BY AppendFacts
<1>2. /\ f.time \in Int /\ \A j \in DOMAIN h : h[j].time \in Int
  <2>1. \A j \in DOMAIN h : h[j] \in Fixes
    OBVIOUS
  <2> QED BY <2>1, TimesAssumption DEF Fixes
<1> HIDE DEF g
<1>3. CASE h = <<>>
  <2>1. Latest!IsNewest(g, n) /\ n \in DOMAIN g
    BY <1>1, <1>3 DEF Latest!IsNewest
  <2> QED BY <1>1, <1>3, <2>1, NewestUnique DEF HasNewest, g
<1>4. CASE h # <<>>
  <2>1. PICK i \in DOMAIN h : Latest!IsNewest(h, i)
    BY <1>4 DEF HasNewest
  <2>2. Latest!Newest(h) = h[i]
    BY <2>1, NewestUnique
  <2>3. CASE f.time > h[i].time
    <3>1. Latest!IsNewest(g, n) /\ n \in DOMAIN g
      BY <1>1, <1>2, <2>1, <2>3 DEF Latest!IsNewest
    <3> QED BY <1>1, <2>2, <2>3, <3>1, NewestUnique DEF HasNewest, g
  <2>4. CASE ~(f.time > h[i].time)
    <3>1. Latest!IsNewest(g, i) /\ i \in DOMAIN g
      BY <1>1, <1>2, <2>1, <2>4 DEF Latest!IsNewest
    <3> QED BY <1>1, <1>4, <2>2, <2>4, <3>1, NewestUnique DEF HasNewest, g
  <2> QED BY <2>3, <2>4
<1> QED BY <1>3, <1>4

\* Nobody stores for the vehicle between the handler's read and its commit, so what
\* its session loaded is what the row still holds.
NewestInv ==
    /\ \A v \in VehicleIds : HasNewest(history[v]) /\ location[v] = Latest!Newest(history[v])
    /\ \A s \in Subscribers :
         handler[s] # Waiting => handler[s].loaded = location[handler[s].vehicle]

\* A commit stores a fix atomically, or the message is dropped.
LEMMA CommitStores ==
    ASSUME TypeOK, NewestInv, NEW s \in Subscribers, Commit(s), ~CommitFails(handler[s])
    PROVE  /\ Latest!Store(handler[s].vehicle, handler[s].fix)
           /\ handler[s].vehicle \in VehicleIds /\ handler[s].fix \in Fixes
<1> DEFINE h == handler[s]
           v == h.vehicle
<1>1. h \in Handlings /\ h # Waiting
  BY DEF Commit, TypeOK, Waiting, Handlings
<1>2. v \in VehicleIds /\ h.fix \in Fixes /\ history[v] \in Seq(Fixes)
  BY <1>1 DEF TypeOK, Handlings
<1>3. h.loaded = location[v] /\ location[v] = Latest!Newest(history[v]) /\ HasNewest(history[v])
  BY <1>1, <1>2 DEF NewestInv
<1>4. location[v] = None <=> history[v] = <<>>
  <2>1. CASE history[v] = <<>>
    BY <1>3, <2>1 DEF Latest!Newest
  <2>2. CASE history[v] # <<>>
    <3>1. PICK i \in DOMAIN history[v] : Latest!IsNewest(history[v], i)
      BY <1>3, <2>2 DEF HasNewest
    <3>2. location[v] = history[v][i]
      BY <1>2, <1>3, <3>1, NewestUnique
    <3>3. location[v] \in Fixes
      BY <1>2, <3>1, <3>2
    <3> QED BY <2>2, <3>3, NoFixAssumption
  <2> QED BY <2>1, <2>2
<1>5. h.loaded # None => Written(location[v], h) = h.fix
  BY <1>1, <1>2, <1>3 DEF Written, Fixes
<1>6. NewLocation(h) = Latest!Newest(Append(history[v], h.fix))
  BY <1>2, <1>3, <1>4, <1>5, NewestOfAppend DEF NewLocation
<1>7. /\ history' = [history EXCEPT ![v] = Append(@, h.fix)]
      /\ location' = [location EXCEPT ![v] = NewLocation(h)]
  BY DEF Commit
<1> QED BY <1>2, <1>6, <1>7 DEF Latest!Store

LEMMA NewestStep ==
    ASSUME TypeOK, NewestInv, VehiclesApart, [Next]_vars
    PROVE  NewestInv'
<1> USE DEF NewestInv
<1>1. CASE Admin
  BY <1>1 DEF Admin, CreateVehicle, SetActive, DeleteVehicle
<1>2. ASSUME NEW s \in Subscribers, NEW m \in Messages, Deliver(s, m) PROVE NewestInv'
  BY <1>2 DEF Deliver
<1>3. ASSUME NEW s \in Subscribers, TakeMessage(s) PROVE NewestInv'
  BY <1>3 DEF TakeMessage, TypeOK
<1>4. ASSUME NEW s \in Subscribers, ReadCurrent(s) PROVE NewestInv'
  <2> DEFINE h == handler[s]
             l == IF h.loaded = None THEN location[h.vehicle] ELSE h.loaded
             g == [h EXCEPT !.at = "commit", !.loaded = l]
  <2>1. h \in Handlings /\ h # Waiting
    BY <1>4 DEF ReadCurrent, TypeOK, Waiting, Handlings
  <2>2. g.vehicle = h.vehicle /\ g.loaded = l
    <3> HIDE DEF l
    <3> QED BY <2>1 DEF Handlings
  <2>3. handler' = [handler EXCEPT ![s] = g] /\ UNCHANGED <<history, location>>
    BY <1>4 DEF ReadCurrent
  <2>4. l = location[h.vehicle]
    BY <2>1
  <2> HIDE DEF g, l
  <2> QED BY <2>2, <2>3, <2>4 DEF TypeOK
<1>5. ASSUME NEW s \in Subscribers, Commit(s) PROVE NewestInv'
  <2> DEFINE h == handler[s]
             v == h.vehicle
  <2>1. handler' = [handler EXCEPT ![s] = Waiting]
    BY <1>5 DEF Commit
  <2>2. /\ handler'[s] = Waiting
        /\ \A x \in Subscribers \ {s} :
             handler'[x] = handler[x] /\ (handler[x] # Waiting => handler[x].vehicle # v)
    <3>1. h # Waiting
      BY <1>5 DEF Commit, Waiting
    <3> QED BY <2>1, <3>1 DEF VehiclesApart, TypeOK
  <2>3. CASE CommitFails(h)
    BY <1>5, <2>2, <2>3 DEF Commit
  <2>4. CASE ~CommitFails(h)
    <3>1. v \in VehicleIds /\ h.fix \in Fixes /\ Latest!Store(v, h.fix)
      BY <1>5, <2>4, CommitStores
    <3>2. /\ history'[v] = Append(history[v], h.fix)
          /\ location'[v] = Latest!Newest(Append(history[v], h.fix))
          /\ \A x \in VehicleIds \ {v} : history'[x] = history[x] /\ location'[x] = location[x]
      BY <3>1 DEF Latest!Store, TypeOK
    <3>3. HasNewest(history'[v])
      BY <3>1, <3>2, NewestOfAppend DEF TypeOK
    <3>4. ASSUME NEW x \in Subscribers, handler'[x] # Waiting
          PROVE  handler'[x].loaded = location'[handler'[x].vehicle]
      <4>1. x # s /\ handler'[x] = handler[x] /\ handler[x].vehicle # v
        BY <2>2, <3>4
      <4>2. handler[x].vehicle \in VehicleIds
        BY <3>4, <4>1 DEF TypeOK, Handlings
      <4> QED BY <3>2, <3>4, <4>1, <4>2
    <3>5. \A x \in VehicleIds : HasNewest(history'[x]) /\ location'[x] = Latest!Newest(history'[x])
      BY <3>2, <3>3
    <3> QED BY <3>4, <3>5
  <2> QED BY <2>3, <2>4
<1>6. ASSUME NEW s \in Subscribers, DatabaseError(s) \/ Restart(s) PROVE NewestInv'
  BY <1>6 DEF DatabaseError, Restart, TypeOK
<1>7. CASE UNCHANGED vars
  BY <1>7 DEF vars
<1> QED BY <1>1, <1>2, <1>3, <1>4, <1>5, <1>6, <1>7 DEF Next, Handle

\* However many subscribers, whatever is delivered in whatever order and however
\* often, whatever fails and restarts: while no two handle the same vehicle at once,
\* every stored fix goes to history and the current location is the newest of it, as
\* one atomic step.  Only such an overlap can leave an older fix current.
THEOREM ApartImplementation == Spec /\ []VehiclesApart => ImplementsLatest
<1>1. Init => Latest!Init /\ NewestInv
  BY DEF Init, Latest!Init, NewestInv, HasNewest, Latest!Newest
<1>2. TypeOK /\ NewestInv /\ VehiclesApart /\ [Next]_vars => NewestInv'
  BY NewestStep
<1>3. TypeOK /\ NewestInv /\ [Next]_vars => [Latest!Next]_(Latest!vars)
  <2> SUFFICES ASSUME TypeOK, NewestInv, [Next]_vars
               PROVE  Latest!Next \/ UNCHANGED Latest!vars
    OBVIOUS
  <2>1. ASSUME NEW s \in Subscribers, Commit(s), ~CommitFails(handler[s]) PROVE Latest!Next
    BY <2>1, CommitStores DEF Latest!Next
  <2>2. CASE ~\E s \in Subscribers : Commit(s) /\ ~CommitFails(handler[s])
    BY <2>2 DEF Next, Admin, CreateVehicle, SetActive, DeleteVehicle, Deliver, Handle,
       TakeMessage, ReadCurrent, Commit, DatabaseError, Restart, vars, Latest!vars
  <2> QED BY <2>1, <2>2
<1> QED BY <1>1, <1>2, <1>3, TypingInvariant, PTL DEF Spec, ImplementsLatest, Latest!Spec

OneSubscriber == \A a, b \in Subscribers : a = b

\* One process serves one subscriber, which keeps the vehicles apart by itself: as
\* deployed, the current location is the newest fix of the history.
THEOREM Implementation == ASSUME OneSubscriber PROVE Spec => ImplementsLatest
<1>1. TypeOK => VehiclesApart
  BY OneSubscriber DEF OneSubscriber, VehiclesApart
<1> QED BY <1>1, Typing, ApartImplementation, PTL

=============================================================================
