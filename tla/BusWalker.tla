---------------------------- MODULE BusWalker ----------------------------
(***************************************************************************)
(* The simulator's route walking (simulator/walk.py): a bus is a distance  *)
(* along its polyline and a direction.  Distances are whole numbers here,  *)
(* Cumulative[i] that of the i-th waypoint; a position is a waypoint and   *)
(* the distance walked from it towards the next.                           *)
(***************************************************************************)
EXTENDS Integers, Sequences

CONSTANTS Cumulative,   \* distance of each waypoint from the first
          Steps         \* what a bus may cover in a tick, 0 when it halts

ASSUME RouteAssumption ==
    /\ Cumulative \in Seq(Nat) /\ Len(Cumulative) >= 2 /\ Cumulative[1] = 0
    /\ \A i, j \in 1 .. Len(Cumulative) : i < j => Cumulative[i] <= Cumulative[j]
ASSUME StepsAssumption == Steps \subseteq Nat

Last == Len(Cumulative)
Total == Cumulative[Last]
Walkers == [distance : Nat, direction : {-1, 1}]

\* Mutant: back to the first waypoint from the last one.
AdvanceInCircles(bus, step) ==
    LET d == bus.distance + bus.direction * step
    IN [bus EXCEPT !.distance = IF d >= Total THEN 0 ELSE d]

\* Move, and turn round at a terminus.
Advance(bus, step) ==
    LET d == bus.distance + bus.direction * step
    IN IF d >= Total THEN [distance |-> Total, direction |-> -1]
       ELSE IF d <= 0 THEN [distance |-> 0, direction |-> 1]
       ELSE [bus EXCEPT !.distance = d]

\* Mutant: bisect_left, which stays before a waypoint that has been reached.
SegmentLeft(d) == CHOOSE i \in 1 .. Last - 1 : Cumulative[i + 1] >= d
                      /\ \A j \in 1 .. i - 1 : Cumulative[j + 1] < d

\* bisect_right: the last waypoint at or before d.
Segment(d) == CHOOSE i \in 1 .. Last - 1 : Cumulative[i] <= d /\ d < Cumulative[i + 1]

Position(bus) ==
    IF bus.distance >= Total THEN <<Last, 0>>
    ELSE LET i == Segment(bus.distance) IN <<i, bus.distance - Cumulative[i]>>
=============================================================================
