-------------------------- MODULE Lifespan_proofs --------------------------
(***************************************************************************)
(* Proofs about Lifespan, for any route and any steps.  The invariant adds *)
(* to the types that nothing is cancelled while the process serves and the *)
(* subscriber leaves no client, which is why nothing but an uncaught       *)
(* exception could end it then, and that a task that is switched off never *)
(* starts.                                                                 *)
(***************************************************************************)
EXTENDS Lifespan, WellFoundedInduction, TLAPS

LifeInv ==
    /\ TypeOK /\ SubscriberAlive
    /\ Serving => cancelled = {} /\ at["subscriber"] # "disconnecting"
    /\ \A t \in Tasks \ enabled : at[t] = "stopped"

-----------------------------------------------------------------------------
LEMMA RouteTypes ==
    /\ Last \in Nat /\ Last >= 2 /\ Total \in Nat
    /\ \A i \in 1 .. Last : Cumulative[i] \in Nat
    /\ Cumulative[1] = 0
BY RouteAssumption DEF Last, Total

LEMMA AdvanceType ==
    ASSUME NEW walker \in Walkers, NEW step \in Steps
    PROVE  Advance(walker, step) \in Walkers
<1> DEFINE d == walker.distance + walker.direction * step
<1>1. d \in Int  BY StepsAssumption DEF Walkers
<1> HIDE DEF d
<1>2. CASE d >= Total  BY <1>2, RouteTypes DEF Advance, Walkers, d
<1>3. CASE ~(d >= Total) /\ d <= 0  BY <1>3 DEF Advance, Walkers, d
<1>4. CASE ~(d >= Total) /\ ~(d <= 0)
  <2>1. d \in Nat  BY <1>1, <1>4
  <2>2. Advance(walker, step) = [walker EXCEPT !.distance = d]  BY <1>4 DEF Advance, d
  <2>3. QED  BY <2>1, <2>2 DEF Walkers
<1>5. QED  BY <1>2, <1>3, <1>4

\* A set of numbers has a least one.
LEMMA Least ==
    ASSUME NEW T, T \subseteq Nat, T # {}
    PROVE  \E m \in T : \A k \in T : m <= k
<1> DEFINE R == OpToRel(<, Nat)
<1>1. IsWellFoundedOn(R, Nat)  BY NatLessThanWellFounded
<1>2. \A x, y \in Nat : x < y => <<x, y>> \in R  BY DEF OpToRel
<1> HIDE DEF R
<1>3. PICK x \in T : \A y \in T : ~(<<y, x>> \in R)  BY <1>1, WFMin
<1>4. \A y \in T : x \in Nat /\ y \in Nat /\ ~(y < x)  BY <1>2, <1>3
<1>5. \A y \in T : x <= y  BY <1>4
<1>6. QED  BY <1>5

\* Every distance short of the terminus lies on a segment of its own: the first
\* whose end is beyond it.
LEMMA SegmentHolds ==
    ASSUME NEW d \in Nat, d < Total
    PROVE  /\ Segment(d) \in 1 .. Last - 1
           /\ Cumulative[Segment(d)] <= d /\ d < Cumulative[Segment(d) + 1]
<1> DEFINE Beyond == {i \in 1 .. Last - 1 : d < Cumulative[i + 1]}
<1>1. Last - 1 \in Beyond  BY RouteTypes DEF Total
<1>2. Beyond \subseteq Nat /\ Beyond # {}  BY <1>1
<1>3. PICK i \in Beyond : \A k \in Beyond : i <= k  BY <1>2, Least
<1>4. i \in 1 .. Last - 1 /\ d < Cumulative[i + 1]  OBVIOUS
<1>5. Cumulative[i] <= d
  <2>1. CASE i = 1  BY <2>1, RouteTypes
  <2>2. CASE i # 1
    <3>1. i - 1 \in 1 .. Last - 1 /\ i - 1 \notin Beyond
      BY <1>3, <1>4, <2>2, RouteTypes
    <3>2. ~(d < Cumulative[(i - 1) + 1])  BY <3>1
    <3>3. (i - 1) + 1 = i /\ Cumulative[i] \in Nat  BY <1>4, RouteTypes
    <3>4. QED  BY <3>2, <3>3
  <2>3. QED  BY <2>1, <2>2
<1>6. \E j \in 1 .. Last - 1 : Cumulative[j] <= d /\ d < Cumulative[j + 1]
  BY <1>4, <1>5
<1>7. QED  BY <1>6 DEF Segment

-----------------------------------------------------------------------------
LEMMA InitLifeInv == Init => LifeInv
<1> SUFFICES ASSUME Init PROVE LifeInv
  OBVIOUS
<1>1. [distance |-> 0, direction |-> 1] \in Walkers  BY DEF Walkers
<1>2. TypeOK
  BY <1>1 DEF Init, TypeOK, Tasks, SubscriberStates, SimulatorStates
<1>3. SubscriberAlive
  BY DEF Init, SubscriberAlive, Tasks, Ended
<1>4. QED  BY <1>2, <1>3 DEF Init, LifeInv, Tasks

\* A step of a task between two awaits that are its own.
LEMMA MovesStep ==
    ASSUME LifeInv, NEW t \in Tasks, NEW from, NEW to, Moves(t, from, to),
           linked' \subseteq enabled, bus' \in Walkers,
           from # "stopped",
           t = "subscriber" => to \in SubscriberStates \ (Ended \cup {"disconnecting"}),
           t = "simulator" => to \in SimulatorStates
    PROVE  LifeInv'
BY DEF LifeInv, TypeOK, SubscriberAlive, Serving, Moves, Tasks

LEMMA SubscriberStep ==
    ASSUME LifeInv, SubscriberRuns \/ ReceiveMessage
    PROVE  LifeInv'
<1> USE DEF LifeInv
<1> DEFINE Goes == {"connecting", "subscribing", "consuming", "handling", "backoff"}
<1>1. /\ "subscriber" \in Tasks
      /\ Goes \subseteq SubscriberStates \ (Ended \cup {"disconnecting"})
      /\ Goes \subseteq SubscriberStates \ {"stopped"}
  BY DEF Tasks, SubscriberStates, Ended
<1>2. ASSUME NEW from \in SubscriberStates \ {"stopped"}, NEW to \in Goes,
             Stays("subscriber", from, to)
      PROVE  LifeInv'
  BY <1>1, <1>2, MovesStep DEF Stays, Moves, TypeOK
<1>3. ASSUME Connect PROVE LifeInv'
  <2>1. "subscriber" \in enabled
    BY <1>1, <1>3 DEF Connect, Moves, TypeOK
  <2>2. QED  BY <1>1, <1>3, <2>1, MovesStep DEF Connect, Moves, TypeOK
<1>4. ASSUME SubscriberCancelled PROVE LifeInv'
  <2>1. PICK to \in SubscriberStates : Raised("subscriber", to)
    BY <1>4 DEF SubscriberCancelled, SubscriberStates
  <2>2. ~Serving  BY <2>1 DEF Raised
  <2>3. QED  BY <1>1, <2>1, <2>2 DEF Raised, TypeOK, SubscriberAlive, Serving, Tasks
<1>5. ASSUME Leaves("subscriber") PROVE LifeInv'
  <2>1. ~Serving  BY <1>5 DEF Leaves, Disconnected, DisconnectFails, Stays, Moves
  <2>2. linked' \subseteq linked /\ bus' = bus /\ UNCHANGED <<broker, phase, enabled, cancelled>>
    BY <1>5 DEF Leaves, Disconnected, DisconnectFails, Stays, Moves
  <2>3. PICK to \in SubscriberStates : at' = [at EXCEPT !["subscriber"] = to]
    BY <1>5 DEF Leaves, Disconnected, DisconnectFails, Stays, Moves, SubscriberStates
  <2>4. "subscriber" \in enabled
    BY <1>1, <1>5 DEF Leaves, Disconnected, DisconnectFails, Stays, Moves
  <2>5. QED  BY <1>1, <2>1, <2>2, <2>3, <2>4 DEF TypeOK, SubscriberAlive, Serving, Tasks
<1>6. ReceiveMessage \/ MessageDone \/ Retry \/ Subscribe => LifeInv'
  BY <1>1, <1>2 DEF ReceiveMessage, MessageDone, Retry, Subscribe
<1>7. ConnectFails \/ ConnectionLost => LifeInv'
  BY <1>1, <1>2 DEF ConnectFails, ConnectionLost
<1>8. QED  BY <1>3, <1>4, <1>5, <1>6, <1>7 DEF SubscriberRuns

LEMMA SimulatorStep ==
    ASSUME LifeInv, SimulatorRuns
    PROVE  LifeInv'
<1> USE DEF LifeInv
<1>1. /\ "simulator" \in Tasks /\ linked \subseteq enabled /\ bus \in Walkers
      /\ {"connecting", "publishing", "waiting", "returned", "failed"} \subseteq SimulatorStates
  BY DEF Tasks, SimulatorStates, TypeOK
<1>2. ASSUME NEW from \in SimulatorStates \ {"stopped"},
             NEW to \in {"connecting", "publishing", "waiting", "returned", "failed"},
             Stays("simulator", from, to)
      PROVE  LifeInv'
  BY <1>1, <1>2, MovesStep DEF Stays
<1>3. ASSUME LoadAssignments PROVE LifeInv'
  <2>1. CASE /\ Moves("simulator", "loading", "connecting") /\ UNCHANGED linked
             /\ \E d \in Starts : bus' = [distance |-> d, direction |-> 1]
    <3>1. bus' \in Walkers /\ linked' \subseteq enabled
      BY <1>1, <2>1, StartsAssumption DEF Walkers
    <3>2. QED  BY <1>1, <2>1, <3>1, MovesStep
  <2>2. QED  BY <1>2, <1>3, <2>1 DEF LoadAssignments, SimulatorStates
<1>4. ASSUME SimulatorConnect PROVE LifeInv'
  <2>1. CASE /\ Moves("simulator", "connecting", "publishing")
             /\ linked' = linked \cup {"simulator"} /\ UNCHANGED bus
    <3>1. "simulator" \in enabled
      BY <1>1, <2>1 DEF Moves, TypeOK
    <3>2. QED  BY <1>1, <2>1, <3>1, MovesStep
  <2>2. QED  BY <1>2, <1>4, <2>1 DEF SimulatorConnect, SimulatorStates
<1>5. ASSUME PublishRound PROVE LifeInv'
  <2>1. bus' \in Walkers /\ linked' \subseteq enabled
    BY <1>1, <1>5, AdvanceType DEF PublishRound
  <2>2. QED  BY <1>1, <1>5, <2>1, MovesStep DEF PublishRound
<1>6. ASSUME Tick PROVE LifeInv'
  BY <1>2, <1>6 DEF Tick, SimulatorStates
<1>7. ASSUME SimulatorCancelled PROVE LifeInv'
  <2>1. PICK to \in SimulatorStates : Raised("simulator", to)
    BY <1>7 DEF SimulatorCancelled, SimulatorStates
  <2>2. QED  BY <1>1, <2>1 DEF Raised, TypeOK, SubscriberAlive, Serving, Tasks
<1>8. ASSUME Leaves("simulator") PROVE LifeInv'
  <2>1. PICK to \in {"failed", "stopped"} : Moves("simulator", "disconnecting", to)
    BY <1>8 DEF Leaves, Disconnected, DisconnectFails, Stays
  <2>2. linked' \subseteq enabled /\ bus' \in Walkers
    BY <1>1, <1>8 DEF Leaves, Disconnected, DisconnectFails, Stays
  <2>3. to \in SimulatorStates  BY DEF SimulatorStates
  <2>4. QED  BY <1>1, <2>1, <2>2, <2>3, MovesStep
<1>9. QED  BY <1>3, <1>4, <1>5, <1>6, <1>7, <1>8 DEF SimulatorRuns

LEMMA NextLifeInv == LifeInv /\ [Next]_vars => LifeInv'
<1> SUFFICES ASSUME LifeInv, [Next]_vars PROVE LifeInv'
  OBVIOUS
<1> USE DEF LifeInv, TypeOK, SubscriberAlive, Serving
<1>1. CASE UNCHANGED vars  BY <1>1 DEF vars
<1>2. CASE BrokerDown \/ BrokerUp  BY <1>2 DEF BrokerDown, BrokerUp
<1>3. CASE ReceiveMessage \/ SubscriberRuns  BY <1>3, SubscriberStep
<1>4. CASE SimulatorRuns  BY <1>4, SimulatorStep
<1>5. CASE Shutdown \/ Gathered  BY <1>5 DEF Shutdown, Gathered
<1>6. QED  BY <1>1, <1>2, <1>3, <1>4, <1>5 DEF Next

LEMMA Invariance == Spec => []LifeInv
BY InitLifeInv, NextLifeInv, PTL DEF Spec

-----------------------------------------------------------------------------
\* Tasks are only where the code awaits, and a walker is never off its scale.
THEOREM Typing == Spec => []TypeOK
BY Invariance, PTL DEF LifeInv

\* No outage and no message ends an enabled subscriber while the process serves.
THEOREM Alive == Spec => []SubscriberAlive
BY Invariance, PTL DEF LifeInv

\* On every route the published position is the distance walked, on one segment.
THEOREM OnRoute == Spec => []PositionOnRoute
<1>1. LifeInv => PositionOnRoute
  <2> SUFFICES ASSUME LifeInv PROVE PositionOnRoute
    OBVIOUS
  <2> DEFINE d == bus.distance
  <2>1. d \in Nat  BY DEF LifeInv, TypeOK, Walkers
  <2>2. CASE d >= Total
    <3>1. Position(bus) = <<Last, 0>>  BY <2>2 DEF Position
    <3>2. Along(bus) = Total  BY <2>1, <2>2, RouteTypes DEF Along
    <3>3. QED  BY <3>1, <3>2, RouteTypes DEF PositionOnRoute, Total
  <2>3. CASE ~(d >= Total)
    <3> DEFINE i == Segment(d)
    <3>1. d < Total  BY <2>1, <2>3, RouteTypes
    <3>2. i \in 1 .. Last - 1 /\ Cumulative[i] <= d /\ d < Cumulative[i + 1]
      BY <2>1, <3>1, SegmentHolds
    <3>3. Position(bus) = <<i, d - Cumulative[i]>>  BY <2>3 DEF Position
    <3>4. Along(bus) = d  BY <2>1, <3>1, RouteTypes DEF Along
    <3> HIDE DEF i, d
    <3>5. /\ Cumulative[i] \in Nat /\ Cumulative[i + 1] \in Nat /\ i \in 1 .. Last
          /\ Cumulative[i] + (d - Cumulative[i]) = d
      BY <2>1, <3>2, RouteTypes
    <3>6. QED  BY <3>2, <3>3, <3>4, <3>5 DEF PositionOnRoute
  <2>4. QED  BY <2>2, <2>3
<1>2. QED  BY <1>1, Invariance, PTL

-----------------------------------------------------------------------------
\* One tick moves a bus by its step, or by less at a terminus.
LEMMA AdvanceBound ==
    ASSUME NEW walker \in Walkers, NEW step \in Steps
    PROVE  Along(Advance(walker, step)) \in Along(walker) - step .. Along(walker) + step
<1> DEFINE at0 == walker.distance
           d == walker.distance + walker.direction * step
<1>1. at0 \in Nat /\ step \in Nat /\ Total \in Nat /\ (d = at0 + step \/ d = at0 - step) /\ d \in Int
  BY StepsAssumption, RouteTypes DEF Walkers
<1>2. Along(walker) = IF at0 > Total THEN Total ELSE at0  BY DEF Along
<1>3. Along(Advance(walker, step)) = IF d >= Total THEN Total ELSE IF d <= 0 THEN 0 ELSE d
  <2>1. Advance(walker, step).distance = IF d >= Total THEN Total ELSE IF d <= 0 THEN 0 ELSE d
    BY DEF Advance, Walkers
  <2> HIDE DEF d
  <2>2. QED  BY <1>1, <2>1 DEF Along
<1> HIDE DEF at0, d
<1>4. QED  BY <1>1, <1>2, <1>3

\* For any route and any steps a bus is never put further than its step from where
\* it was, on the way out, on the way back and where it turns.
THEOREM Continuous == Spec => NoLeap
<1>1. LifeInv /\ [Next]_vars =>
        [at["simulator"] # "loading" =>
           \E step \in Steps : Along(bus') \in Along(bus) - step .. Along(bus) + step]_bus
  <2> SUFFICES ASSUME LifeInv, [Next]_vars, bus' # bus, at["simulator"] # "loading"
               PROVE  \E step \in Steps : Along(bus') \in Along(bus) - step .. Along(bus) + step
    OBVIOUS
  <2>1. PublishRound
    BY DEF Next, vars, BrokerDown, BrokerUp, ReceiveMessage, SubscriberRuns, SimulatorRuns, Shutdown,
           Gathered, Connect, ConnectFails, Subscribe, MessageDone, ConnectionLost, Retry,
           SubscriberCancelled, Leaves, Disconnected, DisconnectFails, LoadAssignments,
           SimulatorConnect, Tick, SimulatorCancelled, Raised, Stays, Moves
  <2>2. PICK step \in Steps : bus' = Advance(bus, step)  BY <2>1 DEF PublishRound
  <2>3. QED  BY <2>2, AdvanceBound DEF LifeInv, TypeOK
<1>2. QED  BY <1>1, Invariance, PTL DEF Spec, NoLeap

-----------------------------------------------------------------------------
(* How a shutdown ends                                                     *)

Over == Ended \cup {"disconnecting"}

\* Every enabled task is told to end by the shutdown, and only the subscriber can
\* go on without ending.
FateInv ==
    /\ LifeInv
    /\ phase = "gathering" => \A t \in enabled \ {"subscriber"} : at[t] \in Over \/ t \in cancelled

LEMMA TaskNames ==
    TypeOK => /\ DOMAIN at = Tasks /\ enabled \subseteq {"subscriber", "simulator"}
              /\ cancelled \subseteq enabled
BY DEF TypeOK, Tasks

\* What a step of the subscriber outside a cancellation needs and leaves alone.
LEMMA SubscriberMoves ==
    ASSUME TypeOK,
           ReceiveMessage \/ (SubscriberRuns /\ ~SubscriberCancelled /\ ~Leaves("subscriber"))
    PROVE  /\ "subscriber" \notin cancelled /\ UNCHANGED <<phase, enabled, cancelled>>
           /\ at["subscriber"] \notin Over /\ at'["subscriber"] \notin Over
           /\ at'["simulator"] = at["simulator"]
<1> USE DEF Stays, Moves, Ended, Over, TypeOK, Tasks
<1>1. CASE ReceiveMessage  BY <1>1 DEF ReceiveMessage
<1>2. CASE Connect  BY <1>2 DEF Connect
<1>3. CASE ConnectFails  BY <1>3 DEF ConnectFails
<1>4. CASE MessageDone  BY <1>4 DEF MessageDone
<1>5. CASE ConnectionLost  BY <1>5 DEF ConnectionLost
<1>6. CASE Retry  BY <1>6 DEF Retry
<1>7. CASE Subscribe  BY <1>7 DEF Subscribe
<1>8. QED  BY <1>1, <1>2, <1>3, <1>4, <1>5, <1>6, <1>7 DEF SubscriberRuns

LEMMA SubscriberHeeds ==
    ASSUME TypeOK, SubscriberCancelled
    PROVE  /\ "subscriber" \in cancelled /\ cancelled' = cancelled \ {"subscriber"}
           /\ UNCHANGED <<phase, enabled, linked>> /\ at'["simulator"] = at["simulator"]
           /\ \/ at["subscriber"] = "backoff" /\ at'["subscriber"] = "connecting"
              \/ at["subscriber"] = "connecting" /\ at'["subscriber"] = "stopped"
              \/ /\ at["subscriber"] \in InClient
                 /\ at'["subscriber"] = IF "subscriber" \in linked THEN "disconnecting" ELSE "backoff"
BY DEF SubscriberCancelled, Raised, TypeOK, Tasks

LEMMA SubscriberLeaves ==
    ASSUME TypeOK, Leaves("subscriber")
    PROVE  /\ "subscriber" \notin cancelled /\ UNCHANGED <<phase, enabled, cancelled>>
           /\ at["subscriber"] = "disconnecting" /\ at'["simulator"] = at["simulator"]
           /\ \/ at'["subscriber"] = "stopped"
              \/ "subscriber" \notin linked /\ at'["subscriber"] = "backoff"
BY DEF Leaves, Disconnected, DisconnectFails, Stays, Moves, TypeOK, Tasks

\* A step of the simulator: outside a cancellation only when none is to come.
LEMMA SimulatorMoves ==
    ASSUME TypeOK, SimulatorRuns
    PROVE  /\ UNCHANGED <<phase, enabled>> /\ at'["subscriber"] = at["subscriber"]
           /\ cancelled' \in {cancelled, cancelled \ {"simulator"}}
           /\ "subscriber" \in linked' <=> "subscriber" \in linked
           /\ at'["simulator"] \in Over
              \/ ("simulator" \notin cancelled /\ at["simulator"] \notin Over)
<1> USE DEF Stays, Moves, Ended, Over, TypeOK, Tasks
<1>1. CASE LoadAssignments  BY <1>1 DEF LoadAssignments
<1>2. CASE SimulatorConnect  BY <1>2 DEF SimulatorConnect
<1>3. CASE PublishRound  BY <1>3 DEF PublishRound
<1>4. CASE Tick  BY <1>4 DEF Tick
<1>5. CASE SimulatorCancelled  BY <1>5 DEF SimulatorCancelled, Raised
<1>6. CASE Leaves("simulator")  BY <1>6 DEF Leaves, Disconnected, DisconnectFails
<1>7. QED  BY <1>1, <1>2, <1>3, <1>4, <1>5, <1>6 DEF SimulatorRuns

LEMMA OtherSteps ==
    ASSUME BrokerDown \/ BrokerUp \/ UNCHANGED vars
    PROVE  /\ UNCHANGED <<phase, enabled, at, cancelled>>
           /\ linked' = linked \/ (linked' = {} /\ broker' = "down")
BY DEF BrokerDown, BrokerUp, vars

LEMMA StepCases ==
    ASSUME [Next]_vars
    PROVE  \/ ReceiveMessage \/ (SubscriberRuns /\ ~SubscriberCancelled /\ ~Leaves("subscriber"))
           \/ SubscriberCancelled \/ Leaves("subscriber") \/ SimulatorRuns
           \/ Shutdown \/ Gathered \/ (BrokerDown \/ BrokerUp \/ UNCHANGED vars)
BY DEF Next

LEMMA NextFate == FateInv /\ [Next]_vars => FateInv'
<1> SUFFICES ASSUME FateInv, [Next]_vars, phase' = "gathering",
                    NEW t \in enabled' \ {"subscriber"}
             PROVE  at'[t] \in Over \/ t \in cancelled'
  BY NextLifeInv DEF FateInv
<1>1. TypeOK /\ TypeOK' /\ t = "simulator"
  BY NextLifeInv, TaskNames DEF FateInv, LifeInv, TypeOK, Tasks
<1>2. phase = "gathering" /\ t \in enabled => at[t] \in Over \/ t \in cancelled  BY DEF FateInv
<1>3. CASE ReceiveMessage \/ (SubscriberRuns /\ ~SubscriberCancelled /\ ~Leaves("subscriber"))
  BY <1>1, <1>2, <1>3, SubscriberMoves
<1>4. CASE SubscriberCancelled  BY <1>1, <1>2, <1>4, SubscriberHeeds
<1>5. CASE Leaves("subscriber")  BY <1>1, <1>2, <1>5, SubscriberLeaves
<1>6. CASE SimulatorRuns  BY <1>1, <1>2, <1>6, SimulatorMoves
<1>7. CASE Shutdown  BY <1>1, <1>7 DEF Shutdown, Over
<1>8. CASE Gathered  BY <1>8 DEF Gathered
<1>9. CASE BrokerDown \/ BrokerUp \/ UNCHANGED vars  BY <1>1, <1>2, <1>9, OtherSteps
<1>10. QED  BY <1>3, <1>4, <1>5, <1>6, <1>7, <1>8, <1>9, StepCases

LEMMA FateInvariance == Spec => []FateInv
<1>1. Init => FateInv  BY InitLifeInv DEF Init, FateInv
<1>2. QED  BY <1>1, NextFate, PTL DEF Spec

LEMMA Alternatives == FateInv /\ phase = "gathering" => Ending \/ Doomed \/ Torn
<1> SUFFICES ASSUME FateInv, phase = "gathering", ~Doomed, ~Torn PROVE Ending
  OBVIOUS
<1>1. /\ at["subscriber"] \in SubscriberStates
      /\ "subscriber" \notin enabled => at["subscriber"] = "stopped"
      /\ enabled \subseteq {"subscriber", "simulator"}
  BY DEF FateInv, LifeInv, TypeOK, Tasks
<1>2. Heeding /\ ("subscriber" \in enabled => at["subscriber"] \in Over \/ "subscriber" \in cancelled)
  BY <1>1 DEF Doomed, Torn, Heeding, Ended, Over, InClient, SubscriberStates
<1>3. QED  BY <1>1, <1>2 DEF FateInv, Ending, Over

\* Nothing wakes a subscriber that has swallowed its cancellation to the shutdown.
LEMMA DoomedStays == FateInv /\ Doomed /\ [Next]_vars => Doomed'
<1> SUFFICES ASSUME FateInv, Doomed, [Next]_vars  PROVE Doomed'
  OBVIOUS
<1> USE DEF Doomed
<1>1. TypeOK /\ at["subscriber"] \notin Over
  BY DEF FateInv, LifeInv, Over, Ended, InClient
<1>2. CASE ReceiveMessage \/ (SubscriberRuns /\ ~SubscriberCancelled /\ ~Leaves("subscriber"))
  BY <1>1, <1>2, SubscriberMoves DEF Over
<1>3. CASE SubscriberCancelled
  BY <1>1, <1>3, SubscriberHeeds DEF Ended, InClient
<1>4. CASE Leaves("subscriber")  BY <1>1, <1>4, SubscriberLeaves DEF Over
<1>5. CASE SimulatorRuns  BY <1>1, <1>5, SimulatorMoves
<1>6. CASE Shutdown \/ Gathered  BY <1>1, <1>6 DEF Shutdown, Gathered, Over
<1>7. CASE BrokerDown \/ BrokerUp \/ UNCHANGED vars
  BY <1>7, OtherSteps
<1>8. QED  BY <1>2, <1>3, <1>4, <1>5, <1>6, <1>7, StepCases

\* Nothing but an outage takes a heeded cancellation away.
LEMMA HeedingStays ==
    ASSUME FateInv, Ending, [Next]_vars, ~(broker' = "down" /\ "subscriber" \in linked)
    PROVE  Heeding' /\ (phase' = "gathering" \/ phase' = "stopped")
<1> USE DEF Ending
<1>1. TypeOK  BY DEF FateInv, LifeInv
<1>2. CASE ReceiveMessage \/ (SubscriberRuns /\ ~SubscriberCancelled /\ ~Leaves("subscriber"))
  BY <1>1, <1>2, SubscriberMoves DEF Heeding, Over
<1>3. CASE SubscriberCancelled
  BY <1>1, <1>3, SubscriberHeeds DEF Heeding, Ended, InClient
<1>4. CASE Leaves("subscriber")
  BY <1>1, <1>4, SubscriberLeaves DEF Heeding, Ended, InClient
<1>5. CASE SimulatorRuns  BY <1>1, <1>5, SimulatorMoves DEF Heeding
<1>6. CASE Shutdown \/ Gathered  BY <1>6 DEF Shutdown, Gathered, Heeding
<1>7. CASE BrokerDown \/ BrokerUp \/ UNCHANGED vars
  <2>1. linked' = linked \/ "subscriber" \notin linked  BY <1>7, OtherSteps
  <2>2. QED  BY <1>7, <2>1, OtherSteps DEF Heeding
<1>8. QED  BY <1>2, <1>3, <1>4, <1>5, <1>6, <1>7, StepCases

LEMMA EndingStays ==
    FateInv /\ Ending /\ [Next]_vars
      => Ending' \/ phase' = "stopped" \/ (broker' = "down" /\ "subscriber" \in linked)
<1>0. FateInv' /\ (phase = "gathering")' => Ending' \/ Doomed' \/ Torn'  BY Alternatives, PTL
<1> SUFFICES ASSUME FateInv, Ending, [Next]_vars, Heeding', phase' = "gathering"
             PROVE  ~Doomed' /\ ~Torn'
  BY NextFate, HeedingStays, <1>0
<1>1. QED  BY DEF Heeding, Doomed, Torn, Ended, InClient

\* A shutdown that finds the subscriber in its backoff or on a lost connection never
\* ends; any other stays one that ends (CancelEnds) unless an outage cuts the
\* subscriber's connection before it has closed it.
THEOREM Fate == Spec => FateSettled
<1>1. FateInv /\ [Next]_vars
        => [Ending => Ending' \/ phase' = "stopped"
                        \/ (broker' = "down" /\ "subscriber" \in linked)]_vars
  BY EndingStays
<1>2. QED
  BY <1>1, Alternatives, DoomedStays, FateInvariance, PTL DEF Spec, FateSettled, EndingKept
=============================================================================
