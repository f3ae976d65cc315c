------------------------- MODULE LatestLocation -------------------------
(***************************************************************************)
(* What GPS ingestion promises: "current location keeps the LATEST fix     *)
(* only, history keeps everything" (app/mqtt/handler.py).  A fix is added  *)
(* to its vehicle's history and the current location becomes the newest    *)
(* fix of the history, in one step.                                        *)
(***************************************************************************)
EXTENDS Integers, Sequences

CONSTANTS VehicleIds, Fixes, None

VARIABLES history,   \* vehicle -> its fixes, in the order they were stored
          location   \* vehicle -> its newest fix, None when it has none

vars == <<history, location>>

\* The fix with the latest time, the first stored of those with that time.
IsNewest(h, i) ==
    \A j \in DOMAIN h : h[j].time < h[i].time \/ (h[j].time = h[i].time /\ i <= j)

Newest(h) == IF h = <<>> THEN None ELSE h[CHOOSE i \in DOMAIN h : IsNewest(h, i)]

Init ==
    /\ history = [v \in VehicleIds |-> <<>>]
    /\ location = [v \in VehicleIds |-> None]

Store(v, f) ==
    /\ history' = [history EXCEPT ![v] = Append(@, f)]
    /\ location' = [location EXCEPT ![v] = Newest(Append(history[v], f))]

Next == \E v \in VehicleIds, f \in Fixes : Store(v, f)

Spec == Init /\ [][Next]_vars
=============================================================================
