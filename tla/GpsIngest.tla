--------------------------- MODULE GpsIngest ---------------------------
(***************************************************************************)
(* The MQTT subscriber's pipeline: messages reach the client's queue       *)
(* (QoS 1: late, repeated, out of order, or never), the subscriber takes   *)
(* them one by one and stores each valid fix (app/mqtt/client.py,          *)
(* app/mqtt/handler.py), while admins create, disable and delete vehicles. *)
(*                                                                         *)
(* One action is one database statement of the handler with the code up to *)
(* the next await; the flush and the commit are one action.  A message is  *)
(* the vehicle its topic names, the vehicle its payload names (None when   *)
(* that part does not parse) and a fix: its timestamp and its place, which *)
(* stands for the lat, lng and speed columns.  A process serves one        *)
(* subscriber; more than one is two processes overlapping in a deployment. *)
(***************************************************************************)
EXTENDS Integers, Sequences

CONSTANTS VehicleIds, Subscribers, Times, Places, None,
          MaxDeliveries   \* bound: deliveries in a behaviour

ASSUME TimesAssumption == Times \subseteq Int
ASSUME NoneAssumption == None \notin VehicleIds

VARIABLES
    vehicles,   \* vehicle -> "absent" (no row), "active", "inactive", "deleted"
    history,    \* vehicle -> its gps_points, in id order
    location,   \* vehicle -> its vehicle_current_location row or None
    queue,      \* subscriber -> messages received, not yet taken
    handler,    \* subscriber -> the message it is handling
    deliveries  \* deliveries so far

vars == <<vehicles, history, location, queue, handler, deliveries>>

Fixes == [time : Times, place : Places]
ASSUME NoFixAssumption == None \notin Fixes
Messages == [topic : VehicleIds \cup {None}, vehicle : VehicleIds \cup {None}, fix : Fixes]

\* loaded is the current-location row in the session's identity map.
Waiting == [at |-> "waiting"]
Handlings == [at : {"readCurrent", "commit"}, vehicle : VehicleIds, fix : Fixes,
              loaded : Fixes \cup {None}]

Exists(v) == vehicles[v] \in {"active", "inactive"}

TypeOK ==
    /\ vehicles \in [VehicleIds -> {"absent", "active", "inactive", "deleted"}]
    /\ history \in [VehicleIds -> Seq(Fixes)]
    /\ location \in [VehicleIds -> Fixes \cup {None}]
    /\ queue \in [Subscribers -> Seq(Messages)]
    /\ handler \in [Subscribers -> Handlings \cup {Waiting}]
    /\ deliveries \in Nat

Init ==
    /\ vehicles = [v \in VehicleIds |-> "absent"]
    /\ history = [v \in VehicleIds |-> <<>>]
    /\ location = [v \in VehicleIds |-> None]
    /\ queue = [s \in Subscribers |-> <<>>]
    /\ handler = [s \in Subscribers |-> Waiting]
    /\ deliveries = 0

-----------------------------------------------------------------------------
(* The admin side                                                          *)

CreateVehicle(v, status) ==
    /\ vehicles[v] = "absent"
    /\ vehicles' = [vehicles EXCEPT ![v] = status]
    /\ UNCHANGED <<history, location, queue, handler, deliveries>>

SetActive(v, status) ==
    /\ Exists(v)
    /\ vehicles' = [vehicles EXCEPT ![v] = status]
    /\ UNCHANGED <<history, location, queue, handler, deliveries>>

\* The delete's checks come earlier; what decides is the foreign keys.
DeleteVehicle(v) ==
    /\ Exists(v) /\ history[v] = <<>> /\ location[v] = None
    /\ vehicles' = [vehicles EXCEPT ![v] = "deleted"]
    /\ UNCHANGED <<history, location, queue, handler, deliveries>>

-----------------------------------------------------------------------------
(* The subscriber                                                          *)

\* The broker delivers any message, for the first time or again.
Deliver(s, m) ==
    /\ deliveries < MaxDeliveries
    /\ queue' = [queue EXCEPT ![s] = Append(@, m)]
    /\ deliveries' = deliveries + 1
    /\ UNCHANGED <<vehicles, history, location, handler>>

WellFormed(m) == m.topic # None /\ m.vehicle = m.topic

\* _process_message up to the handler's first statement: db.get(Vehicle), which
\* brings the vehicle's current_location along.
TakeMessage(s) ==
    /\ handler[s] = Waiting /\ queue[s] # <<>>
    /\ LET m == Head(queue[s]) IN
         handler' = IF WellFormed(m) /\ vehicles[m.vehicle] = "active"
                    THEN [handler EXCEPT ![s] = [at |-> "readCurrent", vehicle |-> m.vehicle,
                                                 fix |-> m.fix, loaded |-> location[m.vehicle]]]
                    ELSE handler
    /\ queue' = [queue EXCEPT ![s] = Tail(@)]
    /\ UNCHANGED <<vehicles, history, location, deliveries>>

\* db.get(VehicleCurrentLocation) asks the database only if none came along.
ReadCurrent(s) ==
    /\ handler[s].at = "readCurrent"
    /\ LET h == handler[s] IN
         handler' = [handler EXCEPT ![s] =
           [h EXCEPT !.at = "commit",
                     !.loaded = IF h.loaded = None THEN location[h.vehicle] ELSE h.loaded]]
    /\ UNCHANGED <<vehicles, history, location, queue, deliveries>>

\* Mutant: time and place written to each other's column.
WrittenSwapped(row, h) == [time |-> h.fix.place, place |-> h.fix.time]

\* The row an UPDATE of the columns that differ from the loaded ones leaves.
Written(row, h) ==
    [time |-> h.fix.time,
     place |-> IF h.fix.place = h.loaded.place THEN row.place ELSE h.fix.place]

\* Mutant: the last fix to arrive wins.
LastArrived(h) == IF h.loaded = None THEN h.fix ELSE Written(location[h.vehicle], h)

NewLocation(h) ==
    IF h.loaded = None THEN h.fix
    ELSE IF h.fix.time > h.loaded.time THEN Written(location[h.vehicle], h)
    ELSE location[h.vehicle]

\* Mutant: no foreign key from the GPS tables to vehicles.
CommitFailsOnDuplicate(h) == h.loaded = None /\ location[h.vehicle] # None

\* Inserting a second current row violates the primary key, storing a fix of a
\* deleted vehicle a foreign key: the exception is logged, the message is gone.
CommitFails(h) == ~Exists(h.vehicle) \/ (h.loaded = None /\ location[h.vehicle] # None)

Commit(s) ==
    /\ handler[s].at = "commit"
    /\ LET h == handler[s] IN
         IF CommitFails(h) THEN UNCHANGED <<history, location>>
         ELSE /\ history' = [history EXCEPT ![h.vehicle] = Append(@, h.fix)]
              /\ location' = [location EXCEPT ![h.vehicle] = NewLocation(h)]
    /\ handler' = [handler EXCEPT ![s] = Waiting]
    /\ UNCHANGED <<vehicles, queue, deliveries>>

\* Any statement may fail on the database's side: logged, and the message is gone.
DatabaseError(s) ==
    /\ handler[s] # Waiting
    /\ handler' = [handler EXCEPT ![s] = Waiting]
    /\ UNCHANGED <<vehicles, history, location, queue, deliveries>>

\* A restart of the process: the session is clean, what was queued is lost.
Restart(s) ==
    /\ handler[s] # Waiting \/ queue[s] # <<>>
    /\ handler' = [handler EXCEPT ![s] = Waiting]
    /\ queue' = [queue EXCEPT ![s] = <<>>]
    /\ UNCHANGED <<vehicles, history, location, deliveries>>

Handle(s) == TakeMessage(s) \/ ReadCurrent(s) \/ Commit(s) \/ DatabaseError(s) \/ Restart(s)

Admin ==
    \E v \in VehicleIds :
        \/ \E status \in {"active", "inactive"} : CreateVehicle(v, status) \/ SetActive(v, status)
        \/ DeleteVehicle(v)

Next == Admin \/ \E s \in Subscribers : Handle(s) \/ \E m \in Messages : Deliver(s, m)

Spec == Init /\ [][Next]_vars

-----------------------------------------------------------------------------
(* Properties                                                              *)

\* With one subscriber, the insert-or-update guarded by "recorded_at is newer"
\* keeps the current location equal to the newest fix of the whole history, for
\* any order, repetition, failure and restart: the handler implements
\* LatestLocation although it reads the row in one statement and writes it in
\* another.
Latest == INSTANCE LatestLocation WITH history <- history, location <- location
ImplementsLatest == Latest!Spec

\* Even with two subscribers, a vehicle has a current location exactly when it has
\* history, dated as one of its fixes, and only while its row exists: a lost race
\* for the first location takes its history point back with it.
LocationBacked ==
    \A v \in VehicleIds :
        /\ location[v] = None <=> history[v] = <<>>
        /\ location[v] # None => /\ Exists(v)
                                 /\ \E i \in DOMAIN history[v] : history[v][i].time = location[v].time

\* Nothing at hand for the vehicle is older than time: neither its current location
\* nor a row that a handler under way has loaded.
NotBefore(v, time) ==
    /\ location[v] # None /\ location[v].time >= time
    /\ \A s \in Subscribers :
         handler[s] # Waiting /\ handler[s].vehicle = v /\ handler[s].loaded # None
           => handler[s].loaded.time >= time

\* However many subscribers overlap, a race takes the current location back no
\* further than to the oldest row that one of them has loaded.
RegressBounded ==
    [][\A v \in VehicleIds, time \in Times : NotBefore(v, time) => NotBefore(v, time)']_vars
=============================================================================
