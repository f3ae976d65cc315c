-------------------------- MODULE HistoryPaging --------------------------
(***************************************************************************)
(* GET /me/vehicle/history read page by page while fixes keep arriving.    *)
(* get_history (app/services/tracking_service.py) runs two statements, a   *)
(* count and a page, each on its own READ COMMITTED snapshot; the client   *)
(* raises the offset by the limit until a page comes back short.           *)
(*                                                                         *)
(* One vehicle, which stays assigned to the client's user.  The window     *)
(* [From, To] is explicit, the same in every request: without from and to  *)
(* the code ends it at the moment of each request.  No request deletes a   *)
(* point; the demo reset (seed --fresh), which wipes them all, does not    *)
(* come between two pages here.                                            *)
(***************************************************************************)
EXTENDS Integers, FiniteSets

CONSTANTS
    Times,       \* recorded_at, in or out of the window
    From, To,    \* the window
    Limit,       \* the page size, default 500, at most 1000
    MaxId        \* bound: the ids gps_points hands out

ASSUME ConstantsAssumption ==
    /\ Times \subseteq Int /\ From \in Int /\ To \in Int
    /\ Limit \in Nat \ {0} /\ MaxId \in Nat

VARIABLES
    points,     \* the vehicle's gps_points
    at,         \* the client's next step: "start", "count", "page"
    offset,     \* the offset of the request
    count,      \* the request's count, the answer's once the page is in
    page,       \* the last page received
    delivered,  \* points of all pages since the client started
    received,   \* how many points those pages held, repeats included
    initial,    \* points in the window when the client started
    late        \* how many entered the window since

vars == <<points, at, offset, count, page, delivered, received, initial, late>>

Points == [id : 1 .. MaxId, recorded_at : Times]

TypeOK ==
    /\ points \subseteq Points
    /\ \A p, q \in points : p.id = q.id => p = q
    /\ at \in {"start", "count", "page"}
    /\ offset \in Nat /\ count \in Nat /\ received \in Nat /\ late \in Nat
    /\ page \subseteq points /\ delivered \subseteq points /\ initial \subseteq points

Init ==
    /\ points = {} /\ at = "start" /\ offset = 0 /\ count = 0 /\ received = 0 /\ late = 0
    /\ page = {} /\ delivered = {} /\ initial = {}

-----------------------------------------------------------------------------
InWindow(p) == From <= p.recorded_at /\ p.recorded_at <= To

Window == {p \in points : InWindow(p)}

\* Mutant: ORDER BY recorded_at alone, points of one timestamp in any order.
BeforeByTime(p, q) == p.recorded_at <= q.recorded_at

\* ORDER BY recorded_at, id
Before(p, q) ==
    \/ p.recorded_at < q.recorded_at
    \/ p.recorded_at = q.recorded_at /\ p.id < q.id

AllBefore(S, T) == \A p \in S, q \in T : Before(p, q)

\* LIMIT and OFFSET of the ordered window: the first offset points are skipped, the
\* next limit points are the page.
IsPage(skipped, rows) ==
    /\ rows \subseteq Window \ skipped
    /\ Cardinality(skipped) = IF offset <= Cardinality(Window) THEN offset ELSE Cardinality(Window)
    /\ \/ Cardinality(rows) = Limit
       \/ Cardinality(rows) < Limit /\ rows = Window \ skipped
    /\ AllBefore(skipped, Window \ skipped)
    /\ AllBefore(rows, Window \ (skipped \cup rows))

\* Mutant: an id may be handed out again.
StoreFixOldId(id, recordedAt) ==
    LET p == [id |-> id, recorded_at |-> recordedAt] IN
    /\ points' = points \cup {p}
    /\ late' = IF InWindow(p) THEN late + 1 ELSE late
    /\ UNCHANGED <<at, offset, count, page, delivered, received, initial>>

\* handle_gps_message stores a fix, of any age, under a new id.
StoreFix(id, recordedAt) ==
    LET p == [id |-> id, recorded_at |-> recordedAt] IN
    /\ \A q \in points : q.id # id
    /\ points' = points \cup {p}
    /\ late' = IF InWindow(p) THEN late + 1 ELSE late
    /\ UNCHANGED <<at, offset, count, page, delivered, received, initial>>

\* The client's first request.
StartPaging ==
    /\ at = "start"
    /\ at' = "count" /\ offset' = 0
    /\ page' = {} /\ delivered' = {} /\ received' = 0
    /\ initial' = Window /\ late' = 0
    /\ UNCHANGED <<points, count>>

\* Mutant: every point of the vehicle is counted.
CountedAll == Cardinality(points)

Counted == Cardinality(Window)

\* get_history's first statement.
CountPoints ==
    /\ at = "count"
    /\ count' = Counted
    /\ at' = "page"
    /\ UNCHANGED <<points, offset, page, delivered, received, initial, late>>

\* get_history's second statement and the client's next move: a short page is the last.
FetchPage ==
    /\ at = "page"
    /\ \E skipped \in SUBSET Window : \E rows \in SUBSET (Window \ skipped) :
           /\ IsPage(skipped, rows)
           /\ page' = rows
           /\ delivered' = delivered \cup rows
           /\ received' = received + Cardinality(rows)
           /\ IF Cardinality(rows) < Limit THEN at' = "start" /\ offset' = offset
              ELSE at' = "count" /\ offset' = offset + Limit
    /\ UNCHANGED <<points, count, initial, late>>

Next ==
    \/ \E id \in 1 .. MaxId, recordedAt \in Times : StoreFix(id, recordedAt)
    \/ StartPaging \/ CountPoints \/ FetchPage

Spec == Init /\ [][Next]_vars

-----------------------------------------------------------------------------
(* Properties                                                              *)

\* Late fixes shift the pages under a paging client, yet it misses none of the points
\* that were there when it started: they only ever move to later pages.
NoMiss == at = "start" => initial \subseteq delivered

\* A shifted point may come twice: pages repeat at most as many points as arrived.
RepeatsBounded == received <= Cardinality(delivered) + late

\* The count of the last answer, taken before its page, is no more than the offset
\* and the page: a client that compares them never waits for points that are not there.
CountReached == at = "start" => count <= offset + Cardinality(page)
=============================================================================
