-------------------------- MODULE VehicleStatus --------------------------
(***************************************************************************)
(* The status of a vehicle as its driver reads it: moving, idle, offline,  *)
(* derived from the current location when GET /me/vehicle/current answers  *)
(* (app/services/tracking_service.py), while fixes arrive late, out of     *)
(* order, or dated ahead of the server's clock (nothing checks a           *)
(* timestamp against it), and time passes.                                 *)
(*                                                                         *)
(* One vehicle, one request at a time.  The request's first statement,     *)
(* which authenticates the user, joined-loads the vehicle and its current  *)
(* location; every later lookup finds these in the session.  The admin     *)
(* fleet view derives the status in the same way from one statement.       *)
(***************************************************************************)
EXTENDS Integers, FiniteSets

CONSTANTS
    StaleAfter,            \* STALE_AFTER, 60 s in the code
    MovingThreshold,       \* MOVING_THRESHOLD_KMH
    MaxAhead,              \* how far a fix may be dated ahead of the clock
    Speeds, None,
    MaxTime, MaxFixes      \* bounds: the clock, the fixes received

ASSUME ConstantsAssumption ==
    /\ StaleAfter \in Nat /\ MovingThreshold \in Nat /\ MaxAhead \in Nat
    /\ MaxTime \in Nat /\ MaxFixes \in Nat
    /\ Speeds \subseteq Nat

VARIABLES
    now,       \* the server's clock
    fixes,     \* fixes stored: their timestamp, their speed, when they came
    current,   \* the vehicle_current_location row or None
    request,   \* the driver's request under way: when it began, the row it loaded
    answer     \* the last answer: its status and row, when its request began and ended

vars == <<now, fixes, current, request, answer>>

Statuses == {"moving", "idle", "offline"}
Fixes == [recorded_at : Int, speed : Speeds, received : Nat]
Rows == Fixes \cup {None}
Requests == [began : Nat, row : Rows]
Answers == [status : Statuses, row : Rows, began : Nat, at : Nat]
ASSUME NoneAssumption == None \notin Fixes /\ None \notin Requests /\ None \notin Answers

TypeOK ==
    /\ now \in Nat
    /\ fixes \subseteq Fixes
    /\ current \in fixes \cup {None}
    /\ request \in Requests \cup {None}
    /\ answer \in Answers \cup {None}

Init ==
    /\ now = 0 /\ fixes = {} /\ current = None
    /\ request = None /\ answer = None

-----------------------------------------------------------------------------
\* Mutant: a fix of exactly StaleAfter is stale.
DeriveStatusAtLimit(row, time) ==
    IF row = None \/ time - row.recorded_at >= StaleAfter THEN "offline"
    ELSE IF row.speed > MovingThreshold THEN "moving" ELSE "idle"

\* Mutant: a vehicle without a location is idle.
DeriveStatusNoRow(row, time) ==
    IF row # None /\ time - row.recorded_at > StaleAfter THEN "offline"
    ELSE IF row # None /\ row.speed > MovingThreshold THEN "moving" ELSE "idle"

\* derive_status: the age is compared strictly, and so is the speed.
DeriveStatus(row, time) ==
    IF row = None \/ time - row.recorded_at > StaleAfter THEN "offline"
    ELSE IF row.speed > MovingThreshold THEN "moving" ELSE "idle"

TimePasses ==
    /\ now < MaxTime /\ now' = now + 1
    /\ UNCHANGED <<fixes, current, request, answer>>

\* Mutant: the last fix to arrive is the current one.
LastArrived(fix) == fix

\* Mutant: the speed stays that of the row's first fix.
NewestWithOldSpeed(fix) ==
    IF current = None THEN fix
    ELSE IF fix.recorded_at > current.recorded_at THEN [fix EXCEPT !.speed = current.speed]
    ELSE current

Newest(fix) ==
    IF current = None THEN fix
    ELSE IF fix.recorded_at > current.recorded_at THEN fix ELSE current

\* handle_gps_message, which GpsIngest looks into.
StoreFix(recordedAt, speed) ==
    LET fix == [recorded_at |-> recordedAt, speed |-> speed, received |-> now] IN
    /\ recordedAt <= now + MaxAhead
    /\ fixes' = fixes \cup {fix}
    /\ current' = Newest(fix)
    /\ UNCHANGED <<now, request, answer>>

\* get_current_user's db.get(User), which brings the vehicle and its row along.
Authenticate ==
    /\ request = None
    /\ request' = [began |-> now, row |-> current]
    /\ UNCHANGED <<now, fixes, current, answer>>

\* db.get(VehicleCurrentLocation) asks the database only if no row came along.
RowRead == IF request.row = None THEN current ELSE request.row

Answer ==
    /\ request # None
    /\ answer' = [status |-> DeriveStatus(RowRead, now), row |-> RowRead,
                  began |-> request.began, at |-> now]
    /\ request' = None
    /\ UNCHANGED <<now, fixes, current>>

\* The fleet view reads every row in one statement; a vehicle without a location
\* has no status there.  The same client asks for it, between its own requests.
ListVehicles ==
    /\ request = None /\ current # None
    /\ answer' = [status |-> DeriveStatus(current, now), row |-> current,
                  began |-> now, at |-> now]
    /\ UNCHANGED <<now, fixes, current, request>>

Next ==
    \/ TimePasses
    \/ /\ Cardinality(fixes) < MaxFixes
       /\ \E recordedAt \in 0 .. MaxTime + MaxAhead, speed \in Speeds : StoreFix(recordedAt, speed)
    \/ Authenticate \/ Answer \/ ListVehicles

Spec == Init /\ [][Next]_vars

-----------------------------------------------------------------------------
(* Properties                                                              *)

Live == answer # None /\ answer.status # "offline"
Offline == answer # None /\ answer.status = "offline"

\* derive_status calls no vehicle offline that is not: every fix stored before the
\* request began, in whatever order they arrived, is older than STALE_AFTER.
OfflineMeansSilent ==
    Offline => \A f \in fixes : f.received < answer.began => answer.at - f.recorded_at > StaleAfter

\* A live status is that of a fix no older than any stored before the request, and
\* which reached the server within STALE_AFTER plus the devices' clock error.
LiveMeansRecent ==
    Live => \E f \in fixes :
        /\ \A g \in fixes : g.received < answer.began => g.recorded_at <= f.recorded_at
        /\ answer.at - f.received <= StaleAfter + MaxAhead
        /\ answer.status = "moving" <=> f.speed > MovingThreshold

\* Late fixes never take a polling client back in time: from one answer to the
\* next, driver's view or fleet view, the location shown only gets newer.
AnswersAdvance ==
    [][answer # None /\ answer.row # None =>
         answer'.row # None /\ answer'.row.recorded_at >= answer.row.recorded_at]_vars
=============================================================================
