---------------------- MODULE VehicleStatus_proofs ----------------------
(***************************************************************************)
(* Proofs about VehicleStatus, for every threshold, clock error and bound. *)
(* The inductive invariant StatusInv says that the current row is the      *)
(* newest fix and that the row a request holds, or an answer showed,       *)
(* covers every fix stored before the request began.                       *)
(***************************************************************************)
EXTENDS VehicleStatus, TLAPS

\* The row is a stored fix, no older than any fix received before the time.
Covers(row, time) ==
    /\ row \in fixes \cup {None}
    /\ \A f \in fixes : f.received < time => row # None /\ f.recorded_at <= row.recorded_at

\* The row is not ahead of another one.
NotAhead(row, later) == row # None => later # None /\ row.recorded_at <= later.recorded_at

CurrentIsNewest == \A f \in fixes : current # None /\ f.recorded_at <= current.recorded_at

FixesDated == \A f \in fixes : f.received <= now /\ f.recorded_at <= f.received + MaxAhead

RequestCovers ==
    request # None =>
        /\ request.began <= now
        /\ Covers(request.row, request.began)
        /\ answer # None => NotAhead(answer.row, request.row)

AnswerCovers ==
    answer # None =>
        /\ answer.began <= answer.at /\ answer.at <= now
        /\ Covers(answer.row, answer.began)
        /\ NotAhead(answer.row, current)
        /\ answer.status = DeriveStatus(answer.row, answer.at)

StatusInv == TypeOK /\ CurrentIsNewest /\ FixesDated /\ RequestCovers /\ AnswerCovers

-----------------------------------------------------------------------------
\* A fix that arrives now leaves rows as covering as they were for any earlier time.
LEMMA CoversGrows ==
    ASSUME NEW row, NEW time \in Nat, NEW fix, Covers(row, time),
           now \in Nat, time <= now, fix.received = now, fixes' = fixes \cup {fix}
    PROVE  Covers(row, time)'
BY DEF Covers

\* The row that becomes current is stored, and is behind neither the last nor the fix.
LEMMA NewestIsNewer ==
    ASSUME NEW fix \in Fixes, TypeOK
    PROVE  /\ Newest(fix) \in {fix, current}
           /\ Newest(fix) # None
           /\ NotAhead(current, Newest(fix))
           /\ fix.recorded_at <= Newest(fix).recorded_at
BY NoneAssumption DEF Newest, NotAhead, Fixes, TypeOK, Rows

LEMMA NotAheadTransitive ==
    ASSUME NEW a \in Rows, NEW b \in Rows, NEW c \in Rows, NotAhead(a, b), NotAhead(b, c)
    PROVE  NotAhead(a, c)
BY DEF NotAhead, Rows, Fixes

\* Whatever the row and the time, the status is one of the three.
LEMMA StatusType == \A row, time : DeriveStatus(row, time) \in Statuses
BY DEF DeriveStatus, Statuses

LEMMA InitStatusInv == Init => StatusInv
BY DEF Init, StatusInv, TypeOK, CurrentIsNewest, FixesDated, RequestCovers, AnswerCovers

-----------------------------------------------------------------------------
\* What a request that began earlier, and read its row by now, may answer with.
LEMMA AnswerStep ==
    ASSUME StatusInv, NEW row \in Rows, NEW began \in Nat, began <= now,
           Covers(row, began), NotAhead(row, current),
           answer' = [status |-> DeriveStatus(row, now), row |-> row, began |-> began, at |-> now],
           UNCHANGED <<now, fixes, current>>
    PROVE  (answer' \in Answers \cup {None}) /\ AnswerCovers'
<1>1. DeriveStatus(row, now) \in Statuses  BY StatusType
<1>2. answer' \in Answers  BY <1>1 DEF Answers, StatusInv, TypeOK
<1>3. DeriveStatus(row, now)' = DeriveStatus(row, now)  BY DEF DeriveStatus
<1>4. AnswerCovers'
  <2>1. /\ answer'.status = DeriveStatus(row, now) /\ answer'.row = row
        /\ answer'.began = began /\ answer'.at = now
    OBVIOUS
  <2>2. answer'.began <= answer'.at /\ answer'.at <= now'  BY <2>1 DEF StatusInv, TypeOK
  <2>3. Covers(row, began)'  BY DEF Covers
  <2>4. NotAhead(answer'.row, current')  BY <2>1 DEF NotAhead
  <2>5. answer'.status = DeriveStatus(answer'.row, answer'.at)  BY <2>1
  <2>6. QED  BY <2>1, <2>2, <2>3, <2>4, <2>5 DEF AnswerCovers, Covers, NotAhead, DeriveStatus
<1>5. QED  BY <1>2, <1>4

LEMMA NextStatusInv == StatusInv /\ [Next]_vars => StatusInv'
<1> SUFFICES ASSUME StatusInv, [Next]_vars PROVE StatusInv'
  OBVIOUS
<1> USE DEF StatusInv
<1>1. CASE TimePasses
  BY <1>1 DEF TimePasses, TypeOK, CurrentIsNewest, FixesDated, RequestCovers, AnswerCovers,
              Covers, NotAhead, DeriveStatus, Requests, Answers, Fixes
<1>2. ASSUME NEW recordedAt \in 0 .. MaxTime + MaxAhead, NEW speed \in Speeds,
             StoreFix(recordedAt, speed)
      PROVE  StatusInv'
  <2> DEFINE fix == [recorded_at |-> recordedAt, speed |-> speed, received |-> now]
  <2>1. fix \in Fixes  BY DEF Fixes, TypeOK
  <2>2. /\ fixes' = fixes \cup {fix} /\ current' = Newest(fix)
        /\ recordedAt <= now + MaxAhead
        /\ now' = now /\ request' = request /\ answer' = answer
    BY <1>2 DEF StoreFix
  <2>3. fix.received = now /\ fix.recorded_at = recordedAt  OBVIOUS
  <2> HIDE DEF fix
  <2>4. /\ current' \in {fix, current} /\ current' # None
        /\ NotAhead(current, current') /\ fix.recorded_at <= current'.recorded_at
    BY <2>1, <2>2, NewestIsNewer
  <2>5. TypeOK'  BY <2>1, <2>2, <2>4 DEF TypeOK
  <2>6. CurrentIsNewest'
    BY <2>1, <2>2, <2>4 DEF CurrentIsNewest, NotAhead, TypeOK, Fixes
  <2>7. FixesDated'  BY <2>2, <2>3, ConstantsAssumption DEF FixesDated, TypeOK, Fixes
  <2>8. RequestCovers'
    <3> SUFFICES ASSUME request # None PROVE RequestCovers'
      BY <2>2 DEF RequestCovers
    <3>1. request.began \in Nat  BY DEF TypeOK, Requests
    <3>2. Covers(request.row, request.began)'
      BY <2>2, <2>3, <3>1, CoversGrows DEF RequestCovers, TypeOK
    <3>3. QED  BY <2>2, <3>2 DEF RequestCovers, NotAhead, Covers
  <2>9. AnswerCovers'
    <3> SUFFICES ASSUME answer # None PROVE AnswerCovers'
      BY <2>2 DEF AnswerCovers
    <3>1. answer.began \in Nat /\ answer.row \in Rows /\ answer.at \in Nat
      BY DEF TypeOK, Answers
    <3>2. Covers(answer.row, answer.began)'
      <4>1. answer.began <= now  BY <3>1 DEF AnswerCovers, TypeOK
      <4>2. Covers(answer.row, answer.began)  BY DEF AnswerCovers
      <4>3. QED  BY <2>2, <2>3, <3>1, <4>1, <4>2, CoversGrows DEF TypeOK
    <3>3. NotAhead(answer.row, current')
      BY <2>1, <2>4, <3>1, NotAheadTransitive DEF AnswerCovers, TypeOK, Rows
    <3>4. QED  BY <2>2, <3>2, <3>3 DEF AnswerCovers, NotAhead, Covers, DeriveStatus
  <2>10. QED  BY <2>5, <2>6, <2>7, <2>8, <2>9
<1>3. CASE Authenticate
  <2>1. request' = [began |-> now, row |-> current] /\ UNCHANGED <<now, fixes, current, answer>>
    BY <1>3 DEF Authenticate
  <2>2. request'.began = now /\ request'.row = current  BY <2>1
  <2>3. Covers(current, now)'  BY <2>1 DEF Covers, CurrentIsNewest, TypeOK
  <2>4. RequestCovers'  BY <2>1, <2>2, <2>3 DEF RequestCovers, AnswerCovers, NotAhead, Covers, TypeOK
  <2>5. request' \in Requests  BY <2>1 DEF TypeOK, Requests, Rows
  <2>6. QED  BY <2>1, <2>4, <2>5 DEF TypeOK, CurrentIsNewest, FixesDated, AnswerCovers, Covers,
                                     NotAhead, DeriveStatus
<1>4. CASE Answer
  <2>1. /\ request # None /\ request' = None /\ UNCHANGED <<now, fixes, current>>
        /\ answer' = [status |-> DeriveStatus(RowRead, now), row |-> RowRead,
                      began |-> request.began, at |-> now]
    BY <1>4 DEF Answer
  <2>2. request.began \in Nat /\ request.began <= now /\ request.row \in Rows
    BY <2>1 DEF TypeOK, Requests, RequestCovers
  <2>3. RowRead \in Rows  BY <2>2 DEF RowRead, TypeOK, Rows
  <2>4. Covers(RowRead, request.began)
    BY <2>1, <2>2 DEF RowRead, RequestCovers, Covers, CurrentIsNewest, TypeOK
  <2>5. NotAhead(RowRead, current)
    BY <2>1, <2>2 DEF RowRead, RequestCovers, Covers, CurrentIsNewest, NotAhead, TypeOK, Fixes, Rows
  <2>6. (answer' \in Answers \cup {None}) /\ AnswerCovers'
    BY <2>1, <2>2, <2>3, <2>4, <2>5, AnswerStep
  <2>7. QED  BY <2>1, <2>6 DEF TypeOK, CurrentIsNewest, FixesDated, RequestCovers
<1>5. CASE ListVehicles
  <2>1. /\ request = None /\ request' = None /\ current # None
        /\ UNCHANGED <<now, fixes, current>>
        /\ answer' = [status |-> DeriveStatus(current, now), row |-> current,
                      began |-> now, at |-> now]
    BY <1>5 DEF ListVehicles
  <2>2. current \in Rows /\ now \in Nat  BY DEF TypeOK, Rows
  <2>3. Covers(current, now) /\ NotAhead(current, current)
    BY <2>1, <2>2 DEF Covers, CurrentIsNewest, NotAhead, TypeOK, Rows, Fixes
  <2>4. (answer' \in Answers \cup {None}) /\ AnswerCovers'
    BY <2>1, <2>2, <2>3, AnswerStep
  <2>5. QED  BY <2>1, <2>4 DEF TypeOK, CurrentIsNewest, FixesDated, RequestCovers
<1>6. CASE UNCHANGED vars
  BY <1>6 DEF vars, TypeOK, CurrentIsNewest, FixesDated, RequestCovers, AnswerCovers, Covers,
              NotAhead, DeriveStatus
<1>7. QED  BY <1>1, <1>2, <1>3, <1>4, <1>5, <1>6 DEF Next

LEMMA StatusInvariant == Spec => []StatusInv
BY InitStatusInv, NextStatusInv, PTL DEF Spec

-----------------------------------------------------------------------------
(* Theorems                                                                *)

\* Every reachable state has its type, with the current row one of the stored fixes.
THEOREM Typing == Spec => []TypeOK
<1>1. StatusInv => TypeOK  BY DEF StatusInv
<1>2. QED  BY <1>1, StatusInvariant, PTL

\* derive_status never calls a vehicle offline whose newest fix, of all that were
\* stored before the request, is still fresh: for every staleness and clock error.
THEOREM OfflineIsSilent == Spec => []OfflineMeansSilent
<1>1. StatusInv => OfflineMeansSilent
  BY ConstantsAssumption DEF StatusInv, TypeOK, AnswerCovers, Covers, DeriveStatus,
     OfflineMeansSilent, Offline, Answers, Rows, Fixes
<1>2. QED  BY <1>1, StatusInvariant, PTL

\* A live status is that of a newest fix received within STALE_AFTER plus the clock
\* error, and its speed decides between moving and idle.
THEOREM LiveIsRecent == Spec => []LiveMeansRecent
<1>1. StatusInv => LiveMeansRecent
  <2> SUFFICES ASSUME StatusInv, Live PROVE LiveMeansRecent
    BY DEF LiveMeansRecent
  <2>1. answer # None /\ answer.status # "offline" /\ answer \in Answers
    BY DEF Live, StatusInv, TypeOK
  <2>2. answer.status = DeriveStatus(answer.row, answer.at) /\ Covers(answer.row, answer.began)
    BY <2>1 DEF StatusInv, AnswerCovers
  <2>3. answer.row # None /\ ~(answer.at - answer.row.recorded_at > StaleAfter)
        /\ (answer.status = "moving" <=> answer.row.speed > MovingThreshold)
    BY <2>1, <2>2 DEF DeriveStatus
  <2>4. answer.row \in fixes  BY <2>2, <2>3 DEF Covers
  <2>5. \A g \in fixes : g.received < answer.began => g.recorded_at <= answer.row.recorded_at
    BY <2>2 DEF Covers
  <2>6. answer.at - answer.row.received <= StaleAfter + MaxAhead
    BY <2>1, <2>3, <2>4, ConstantsAssumption DEF StatusInv, FixesDated, TypeOK, Answers, Fixes
  <2>7. QED  BY <2>3, <2>4, <2>5, <2>6 DEF LiveMeansRecent
<1>2. QED  BY <1>1, StatusInvariant, PTL

\* From one answer to the next the location shown only gets newer, in whatever order
\* fixes are stored around a request's two lookups.
THEOREM Advance == Spec => AnswersAdvance
<1> DEFINE Advances == answer # None /\ answer.row # None =>
                           answer'.row # None /\ answer'.row.recorded_at >= answer.row.recorded_at
<1>1. StatusInv /\ [Next]_vars => [Advances]_vars
  <2> SUFFICES ASSUME StatusInv, Next, answer # None, answer.row # None
               PROVE  answer'.row # None /\ answer'.row.recorded_at >= answer.row.recorded_at
    OBVIOUS
  <2>1. answer.row \in Fixes  BY DEF StatusInv, TypeOK, Answers, Rows
  <2>2. CASE answer' = answer  BY <2>1, <2>2 DEF Fixes
  <2>3. CASE Answer
    <3>1. request # None /\ answer'.row = RowRead  BY <2>3 DEF Answer
    <3>2. NotAhead(answer.row, request.row) /\ request.row \in fixes \cup {None}
      BY <3>1 DEF StatusInv, RequestCovers, Covers
    <3>3. request.row # None /\ answer.row.recorded_at <= request.row.recorded_at
      BY <3>2 DEF NotAhead
    <3>4. RowRead = request.row  BY <3>3 DEF RowRead
    <3>5. request.row \in Fixes  BY <3>2, <3>3 DEF StatusInv, TypeOK
    <3>6. QED  BY <2>1, <3>1, <3>3, <3>4, <3>5 DEF Fixes
  <2>4. CASE ListVehicles
    <3>1. current # None /\ answer'.row = current  BY <2>4 DEF ListVehicles
    <3>2. current \in Fixes  BY <3>1 DEF StatusInv, TypeOK
    <3>3. answer.row.recorded_at <= current.recorded_at
      BY DEF StatusInv, AnswerCovers, NotAhead
    <3>4. QED  BY <2>1, <3>1, <3>2, <3>3 DEF Fixes
  <2>5. QED
    BY <2>2, <2>3, <2>4 DEF Next, TimePasses, StoreFix, Authenticate
<1>2. QED  BY <1>1, StatusInvariant, PTL DEF Spec, AnswersAdvance
=============================================================================
