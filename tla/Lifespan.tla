---------------------------- MODULE Lifespan ----------------------------
(***************************************************************************)
(* The API process's background tasks from start to shutdown: the MQTT     *)
(* subscriber (app/mqtt/client.py) and the in-process simulator            *)
(* (simulator/runner.py), started, cancelled and gathered by the lifespan  *)
(* (app/main.py), under a broker that goes down and comes back.            *)
(*                                                                         *)
(* A task's control state is the await it is suspended in.  task.cancel()  *)
(* makes that await raise CancelledError when the task next runs, once and *)
(* before anything else: a task in `cancelled` can only take that step.    *)
(*                                                                         *)
(* Leaving `async with Client(...)` is aiomqtt's: on a live connection it  *)
(* awaits a disconnect, and on one that is lost it raises MqttError in     *)
(* place of whatever exception is leaving the block.  A connection is lost *)
(* here when aiomqtt knows it, so an outage is one it has noticed, and a   *)
(* broker that does not answer counts as down.                             *)
(*                                                                         *)
(* What a message does to the database is GpsIngest's subject.             *)
(* One bus stands for all the simulator moves (BusWalker): they differ in  *)
(* route and speed only.                                                   *)
(***************************************************************************)
EXTENDS BusWalker

CONSTANT Starts   \* where on its route a bus may start

ASSUME StartsAssumption == Starts \subseteq Nat

Tasks == {"subscriber", "simulator"}

VARIABLES
    broker,      \* "up", "down"
    phase,       \* of the lifespan: "serving", "gathering", "stopped"
    enabled,     \* tasks switched on by MQTT_ENABLED and SIMULATOR_ENABLED
    at,          \* task -> its await, or how it ended
    linked,      \* tasks whose broker connection is not lost
    cancelled,   \* tasks with a CancelledError to come
    bus          \* the simulator's walker

vars == <<broker, phase, enabled, at, linked, cancelled, bus>>

InClient == {"subscribing", "consuming", "handling", "publishing", "waiting"}
SubscriberStates == {"connecting", "subscribing", "consuming", "handling",
                     "disconnecting", "backoff", "stopped"}
SimulatorStates == {"loading", "connecting", "publishing", "waiting",
                    "disconnecting", "returned", "failed", "stopped"}
Ended == {"stopped", "returned", "failed"}

TypeOK ==
    /\ broker \in {"up", "down"} /\ phase \in {"serving", "gathering", "stopped"}
    /\ enabled \subseteq Tasks /\ linked \subseteq enabled /\ cancelled \subseteq enabled
    /\ DOMAIN at = Tasks
    /\ at["subscriber"] \in SubscriberStates /\ at["simulator"] \in SimulatorStates
    /\ bus \in Walkers

\* Mutant: the subscriber starts whatever MQTT_ENABLED says.
InitIgnoresFlag ==
    /\ broker \in {"up", "down"}
    /\ phase = "serving"
    /\ enabled \in SUBSET Tasks
    /\ at = [t \in Tasks |-> IF t = "subscriber" THEN "connecting"
                             ELSE IF t \notin enabled THEN "stopped" ELSE "loading"]
    /\ linked = {} /\ cancelled = {} /\ bus = [distance |-> 0, direction |-> 1]

Init ==
    /\ broker \in {"up", "down"}
    /\ phase = "serving"
    /\ enabled \in SUBSET Tasks
    /\ at = [t \in Tasks |-> IF t \notin enabled THEN "stopped"
                             ELSE IF t = "subscriber" THEN "connecting" ELSE "loading"]
    /\ linked = {} /\ cancelled = {} /\ bus = [distance |-> 0, direction |-> 1]

-----------------------------------------------------------------------------
(* The broker: an outage breaks every connection                           *)

BrokerDown ==
    /\ broker = "up" /\ broker' = "down" /\ linked' = {}
    /\ UNCHANGED <<phase, enabled, at, cancelled, bus>>

BrokerUp ==
    /\ broker = "down" /\ broker' = "up"
    /\ UNCHANGED <<phase, enabled, at, linked, cancelled, bus>>

-----------------------------------------------------------------------------
(* A step of task t from one await to the next                             *)

Moves(t, from, to) ==
    /\ t \notin cancelled /\ at[t] = from
    /\ at' = [at EXCEPT ![t] = to]
    /\ UNCHANGED <<broker, phase, enabled, cancelled>>

Stays(t, from, to) == Moves(t, from, to) /\ UNCHANGED <<linked, bus>>

-----------------------------------------------------------------------------
(* mqtt_subscriber_task                                                    *)

Connect ==
    /\ broker = "up"
    /\ Moves("subscriber", "connecting", "subscribing")
    /\ linked' = linked \cup {"subscriber"} /\ UNCHANGED bus

\* Mutant: MqttError is not caught.
ConnectFailsForGood == broker = "down" /\ Stays("subscriber", "connecting", "stopped")

ConnectFails == broker = "down" /\ Stays("subscriber", "connecting", "backoff")

Subscribe == "subscriber" \in linked /\ Stays("subscriber", "subscribing", "consuming")

ReceiveMessage == "subscriber" \in linked /\ Stays("subscriber", "consuming", "handling")

\* Stored, discarded, or an exception that the loop logs and survives.
MessageDone == Stays("subscriber", "handling", "consuming")

ConnectionLost ==
    /\ "subscriber" \notin linked
    /\ \E from \in {"subscribing", "consuming"} : Stays("subscriber", from, "backoff")

\* Mutant: the loop goes back to reading messages without a new client.
RetryOldClient == Stays("subscriber", "backoff", "consuming")

Retry == Stays("subscriber", "backoff", "connecting")

\* A CancelledError raised in task t's await, which continues in to.
Raised(t, to) ==
    /\ t \in cancelled /\ cancelled' = cancelled \ {t}
    /\ at' = [at EXCEPT ![t] = to]
    /\ UNCHANGED <<broker, phase, enabled, linked, bus>>

\* Mutant: the message loop survives CancelledError too.
CancelSwallowedInLoop ==
    Raised("subscriber",
           CASE at["subscriber"] = "backoff" -> "connecting"
             [] at["subscriber"] = "connecting" -> "stopped"
             [] at["subscriber"] = "handling" -> "consuming"
             [] OTHER -> IF "subscriber" \in linked THEN "disconnecting" ELSE "backoff")

\* Suppressed around the backoff's sleep, raised again everywhere else; on a lost
\* connection the client's exit turns it into one more MqttError to retry after.
SubscriberCancelled ==
    \/ at["subscriber"] = "backoff" /\ Raised("subscriber", "connecting")
    \/ at["subscriber"] = "connecting" /\ Raised("subscriber", "stopped")
    \/ /\ at["subscriber"] \in InClient
       /\ Raised("subscriber", IF "subscriber" \in linked THEN "disconnecting" ELSE "backoff")

\* The exit of the client: the broker's connection is closed, and the CancelledError
\* goes on.
Disconnected(t) ==
    /\ Moves(t, "disconnecting", "stopped")
    /\ linked' = linked \ {t} /\ UNCHANGED bus

\* Or it is lost first, or times out: MqttError takes the CancelledError's place.
DisconnectFails(t) ==
    /\ t \notin linked
    /\ Stays(t, "disconnecting", IF t = "subscriber" THEN "backoff" ELSE "failed")

-----------------------------------------------------------------------------
(* run_simulator, whose stop event the lifespan never sets                 *)

\* Rows, no rows, or a database error.
LoadAssignments ==
    \/ /\ Moves("simulator", "loading", "connecting") /\ UNCHANGED linked
       /\ \E d \in Starts : bus' = [distance |-> d, direction |-> 1]
    \/ Stays("simulator", "loading", "returned") \/ Stays("simulator", "loading", "failed")

SimulatorConnect ==
    \/ /\ broker = "up"
       /\ Moves("simulator", "connecting", "publishing")
       /\ linked' = linked \cup {"simulator"} /\ UNCHANGED bus
    \/ broker = "down" /\ Stays("simulator", "connecting", "failed")

\* One round: the bus moves or halts, its fix is published, and a publish on a
\* lost connection raises.
PublishRound ==
    /\ \/ "simulator" \in linked /\ Moves("simulator", "publishing", "waiting")
       \/ "simulator" \notin linked /\ Moves("simulator", "publishing", "failed")
    /\ \E step \in Steps : bus' = Advance(bus, step)
    /\ UNCHANGED linked

\* Mutant: the tick's TimeoutError is not caught.
TickRaises == Stays("simulator", "waiting", "failed")

Tick == Stays("simulator", "waiting", "publishing")

SimulatorCancelled ==
    \/ at["simulator"] \in {"loading", "connecting"} /\ Raised("simulator", "stopped")
    \/ /\ at["simulator"] \in InClient
       /\ Raised("simulator", IF "simulator" \in linked THEN "disconnecting" ELSE "failed")

-----------------------------------------------------------------------------
(* lifespan                                                                *)

\* Shutdown: cancel every task that has not ended, then gather them.
Shutdown ==
    /\ phase = "serving" /\ phase' = "gathering"
    /\ cancelled' = {t \in enabled : at[t] \notin Ended}
    /\ UNCHANGED <<broker, enabled, at, linked, bus>>

Gathered ==
    /\ phase = "gathering" /\ \A t \in enabled : at[t] \in Ended
    /\ phase' = "stopped"
    /\ UNCHANGED <<broker, enabled, at, linked, cancelled, bus>>

-----------------------------------------------------------------------------
Leaves(t) == Disconnected(t) \/ DisconnectFails(t)
SubscriberRuns == Connect \/ ConnectFails \/ Subscribe \/ MessageDone \/ ConnectionLost \/ Retry
                    \/ SubscriberCancelled \/ Leaves("subscriber")
SimulatorRuns == LoadAssignments \/ SimulatorConnect \/ PublishRound \/ Tick
                    \/ SimulatorCancelled \/ Leaves("simulator")

Next == \/ BrokerDown \/ BrokerUp \/ ReceiveMessage
        \/ SubscriberRuns \/ SimulatorRuns
        \/ Shutdown \/ Gathered

\* The event loop runs every task whose await has completed: connection attempts
\* and disconnects end (aiomqtt times them out), sleeps and queries end, a pending
\* CancelledError is raised.  The broker, the arrival of messages and the shutdown
\* are not forced.
Fairness == WF_vars(SubscriberRuns) /\ WF_vars(SimulatorRuns) /\ WF_vars(Gathered)

Spec == Init /\ [][Next]_vars /\ Fairness

-----------------------------------------------------------------------------
(* Properties                                                              *)

Serving == phase = "serving"
Subscribed == at["subscriber"] \in {"consuming", "handling"} /\ "subscriber" \in linked

\* "Retries forever": no sequence of outages and messages ends the subscriber while
\* the process serves.
SubscriberAlive == Serving /\ "subscriber" \in enabled => at["subscriber"] \notin Ended

\* "Broker outages are logged and retried with backoff": once the broker stays up,
\* the subscriber holds a live subscription for good, after any number of outages.
SubscriberReconnects ==
    <>[](Serving /\ broker = "up") => <>[]("subscriber" \in enabled => Subscribed)

\* A shutdown whose cancellation the subscriber heeds as things stand: it has ended,
\* or is told to where nothing stands between its CancelledError and its end.
Heeding ==
    \/ at["subscriber"] \in Ended
    \/ "subscriber" \in cancelled /\ at["subscriber"] = "connecting"
    \/ "subscriber" \in cancelled \cap linked /\ at["subscriber"] \in InClient
    \/ "subscriber" \in linked /\ at["subscriber"] = "disconnecting"
Ending ==
    /\ phase = "gathering" /\ Heeding
    /\ \A t \in enabled : at[t] \in Ended \cup {"disconnecting"} \/ t \in cancelled

\* One in which the subscriber swallows its cancellation: in its backoff, by leaving
\* a client whose connection is lost, or already.
Doomed ==
    /\ phase = "gathering" /\ "subscriber" \in enabled
    /\ IF "subscriber" \in cancelled
       THEN \/ at["subscriber"] = "backoff"
            \/ at["subscriber"] \in InClient /\ "subscriber" \notin linked
       ELSE at["subscriber"] \notin Ended \cup {"disconnecting"}

\* And one whose subscriber lost the connection it was closing: either may follow.
Torn == phase = "gathering" /\ at["subscriber"] = "disconnecting" /\ "subscriber" \notin linked

\* A shutdown that was going to end does, unless an outage cuts the subscriber off
\* before it has left its client: no message, other outage or task stands in its way.
EndingKept ==
    [][Ending => Ending' \/ phase' = "stopped" \/ (broker' = "down" /\ "subscriber" \in linked)]_vars

\* Asked to stop anywhere but in its backoff or on a lost connection, the process
\* does stop, wherever its tasks are suspended, unless such an outage comes.
CancelEnds == EndingKept /\ (Ending ~> phase = "stopped" \/ Doomed \/ Torn)

\* What becomes of a shutdown: it is one of the three, and one whose subscriber has
\* swallowed its cancellation, or is about to, gathers for ever.
FateSettled ==
    /\ [](phase = "gathering" => Ending \/ Doomed \/ Torn)
    /\ [](Doomed => []Doomed)
    /\ EndingKept

\* While no outage comes, a connected simulator publishes round after round.
SimulatorSteady ==
    [](at["simulator"] = "waiting" /\ "simulator" \in linked /\ [](Serving /\ broker = "up")
         => []<>(at["simulator"] = "publishing"))

\* "Runs until cancelled": a process that is shut down stops.
ShutdownEnds == phase = "gathering" ~> phase = "stopped"

\* How far along its route a bus is, a start beyond the last waypoint being there.
Along(walker) == IF walker.distance > Total THEN Total ELSE walker.distance

\* Where a fix puts the bus is where it has walked to, on the one segment that
\* holds it, also at a waypoint, beyond a terminus and next to a segment of length 0.
PositionOnRoute ==
    LET p == Position(bus) IN
    /\ p[1] \in 1 .. Last
    /\ p[2] > 0 => Cumulative[p[1]] + p[2] < Cumulative[p[1] + 1]
    /\ Cumulative[p[1]] + p[2] = Along(bus)

\* "A bus never teleports back to its start": between two fixes it covers at most
\* its step, at a terminus and from beyond one too.
NoLeap ==
    [][at["simulator"] # "loading" =>
         \E step \in Steps : Along(bus') \in Along(bus) - step .. Along(bus) + step]_bus

\* "Ping-pongs": a bus that moves again and again reaches both termini again and
\* again without a leap, however often it halts and however long its steps are.
PingPong ==
    /\ NoLeap
    /\ []<><<bus' # bus>>_bus => []<>(bus.distance = 0) /\ []<>(bus.distance = Total)
=============================================================================
