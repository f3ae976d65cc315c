---------------------- MODULE HistoryPaging_proofs ----------------------
(***************************************************************************)
(* Proofs about HistoryPaging, for every window, page size and number of   *)
(* points.  The inductive invariant PagingInv says that a point which was  *)
(* there when the client started, and has not been delivered, has at least *)
(* offset points before it: new points can only push it to a later page.   *)
(***************************************************************************)
EXTENDS HistoryPaging, FiniteSetTheorems, TLAPS

Preceding(p) == {q \in Window : Before(q, p)}

InitialStays == initial \subseteq Window

NotPassed ==
    at # "start" => \A p \in initial \ delivered : offset <= Cardinality(Preceding(p))

AllDelivered == at = "start" => initial \subseteq delivered

CountHolds ==
    /\ at = "page" => count <= Cardinality(Window)
    /\ at = "start" => count <= offset + Cardinality(page)

PagingInv ==
    /\ TypeOK /\ IsFiniteSet(points)
    /\ InitialStays /\ NotPassed /\ AllDelivered /\ CountHolds

-----------------------------------------------------------------------------
(* The order of the points and the sets cut by it                          *)

LEMMA BeforeIsStrict ==
    ASSUME NEW p \in Points, NEW q \in Points
    PROVE  Before(p, q) => ~Before(q, p)
<1>1. p.recorded_at \in Times /\ q.recorded_at \in Times  BY DEF Points
<1>2. p.id \in 1 .. MaxId /\ q.id \in 1 .. MaxId  BY DEF Points
<1>3. Times \subseteq Int /\ MaxId \in Int  BY ConstantsAssumption
<1>4. p.recorded_at \in Int /\ q.recorded_at \in Int  BY <1>1, <1>3
<1>5. p.id \in Int /\ q.id \in Int  BY <1>2, <1>3
<1>6. QED  BY <1>4, <1>5 DEF Before

LEMMA WindowFinite ==
    ASSUME PagingInv
    PROVE  /\ IsFiniteSet(Window) /\ Window \subseteq Points
           /\ \A S \in SUBSET Window : IsFiniteSet(S) /\ Cardinality(S) \in Nat
<1>1. Window \in SUBSET points /\ points \subseteq Points
  BY DEF Window, PagingInv, TypeOK
<1>2. IsFiniteSet(Window)  BY <1>1, FS_Subset DEF PagingInv
<1>3. ASSUME NEW S \in SUBSET Window PROVE IsFiniteSet(S) /\ Cardinality(S) \in Nat
  BY <1>2, FS_Subset, FS_CardinalityType
<1>4. QED  BY <1>1, <1>2, <1>3

\* A skipped point has fewer points before it than the offset.
LEMMA SkippedArePassed ==
    ASSUME PagingInv, NEW skipped \in SUBSET Window, NEW rows \in SUBSET (Window \ skipped),
           IsPage(skipped, rows), NEW p \in skipped
    PROVE  Cardinality(Preceding(p)) < offset
<1>1. /\ Window \subseteq Points /\ Preceding(p) \subseteq Window
      /\ \A S \in SUBSET Window : IsFiniteSet(S) /\ Cardinality(S) \in Nat
  BY WindowFinite DEF Preceding
<1>2. offset \in Nat  BY DEF PagingInv, TypeOK
<1>3. ASSUME NEW q \in Preceding(p) PROVE q \in skipped \ {p}
  <2>1. q \in Window /\ Before(q, p) /\ q \in Points /\ p \in Points
    BY <1>1 DEF Preceding
  <2>2. ~Before(p, q) /\ q # p  BY <2>1, BeforeIsStrict
  <2>3. QED  BY <2>1, <2>2 DEF IsPage, AllBefore
<1>4. /\ IsFiniteSet(skipped) /\ Cardinality(skipped) \in Nat
      /\ Cardinality(Window) \in Nat /\ Cardinality(Preceding(p)) \in Nat
  BY <1>1
<1>5. IsFiniteSet(skipped \ {p}) /\ Cardinality(skipped \ {p}) = Cardinality(skipped) - 1
  BY <1>4, FS_RemoveElement
<1>6. Cardinality(Preceding(p)) <= Cardinality(skipped) - 1
  BY <1>3, <1>5, FS_Subset
<1>7. Cardinality(skipped) <= offset  BY <1>2, <1>4 DEF IsPage
<1>8. QED  BY <1>2, <1>4, <1>6, <1>7

\* What the page leaves out, of the points at or beyond the offset, has a whole page
\* more before it.
LEMMA LeftForLater ==
    ASSUME PagingInv, NEW skipped \in SUBSET Window, NEW rows \in SUBSET (Window \ skipped),
           IsPage(skipped, rows), NEW p \in Window, p \notin rows,
           offset <= Cardinality(Preceding(p))
    PROVE  Cardinality(rows) = Limit /\ offset + Limit <= Cardinality(Preceding(p))
<1>1. /\ IsFiniteSet(Window) /\ Window \subseteq Points
      /\ Preceding(p) \subseteq Window
      /\ \A S \in SUBSET Window : IsFiniteSet(S) /\ Cardinality(S) \in Nat
  BY WindowFinite DEF Preceding
<1>2. offset \in Nat /\ Limit \in Nat  BY ConstantsAssumption DEF PagingInv, TypeOK
<1>3. p \notin skipped
  <2>1. p \in skipped => Cardinality(Preceding(p)) < offset  BY SkippedArePassed
  <2>2. Cardinality(Preceding(p)) \in Nat  BY <1>1
  <2>3. QED  BY <1>2, <2>1, <2>2
<1>4. Cardinality(skipped) = offset
  <2>1. skipped # Window  BY <1>3
  <2>2. Cardinality(skipped) # Cardinality(Window)  BY <1>1, <2>1, FS_Subset
  <2>3. QED  BY <2>2 DEF IsPage
<1>5. Cardinality(rows) = Limit
  <2>1. rows # Window \ skipped  BY <1>3
  <2>2. QED  BY <2>1 DEF IsPage
<1>6. skipped \cup rows \subseteq Preceding(p)
  BY <1>3 DEF IsPage, AllBefore, Preceding
<1>7. Cardinality(skipped \cup rows) = offset + Limit
  <2>1. IsFiniteSet(skipped) /\ IsFiniteSet(rows)  BY <1>1
  <2>2. skipped \cap rows = {}  OBVIOUS
  <2>3. Cardinality(skipped \cup rows)
          = Cardinality(skipped) + Cardinality(rows) - Cardinality(skipped \cap rows)
    BY <2>1, FS_Union
  <2>4. QED  BY <1>2, <1>4, <1>5, <2>2, <2>3, FS_EmptySet
<1>8. Cardinality(skipped \cup rows) <= Cardinality(Preceding(p))
  BY <1>1, <1>6, FS_Subset
<1>9. QED  BY <1>5, <1>7, <1>8

\* A short page reaches the end of the window.
LEMMA ShortPageIsLast ==
    ASSUME PagingInv, NEW skipped \in SUBSET Window, NEW rows \in SUBSET (Window \ skipped),
           IsPage(skipped, rows), Cardinality(rows) < Limit
    PROVE  Cardinality(Window) <= offset + Cardinality(rows)
<1>1. /\ IsFiniteSet(skipped) /\ Cardinality(skipped) \in Nat
      /\ IsFiniteSet(rows) /\ Cardinality(rows) \in Nat
      /\ Cardinality(Window) \in Nat
      /\ offset \in Nat /\ Limit \in Nat
  <2>1. offset \in Nat /\ Limit \in Nat  BY ConstantsAssumption DEF PagingInv, TypeOK
  <2>2. \A S \in SUBSET Window : IsFiniteSet(S) /\ Cardinality(S) \in Nat  BY WindowFinite
  <2>3. rows \in SUBSET Window /\ Window \in SUBSET Window  OBVIOUS
  <2>4. QED  BY <2>1, <2>2, <2>3
<1>2. rows = Window \ skipped  BY <1>1 DEF IsPage
<1>3. Cardinality(skipped) <= offset  BY <1>1 DEF IsPage
<1>4. skipped \cap rows = {} /\ skipped \cup rows = Window  BY <1>2
<1>5. Cardinality(Window) = Cardinality(skipped) + Cardinality(rows) - Cardinality(skipped \cap rows)
  BY <1>1, <1>4, FS_Union
<1>6. QED  BY <1>1, <1>3, <1>4, <1>5, FS_EmptySet

-----------------------------------------------------------------------------
LEMMA InitPagingInv == Init => PagingInv
BY FS_EmptySet DEF Init, PagingInv, TypeOK, InitialStays, NotPassed, AllDelivered, CountHolds

LEMMA NextPagingInv == PagingInv /\ [Next]_vars => PagingInv'
<1> SUFFICES ASSUME PagingInv, [Next]_vars PROVE PagingInv'
  OBVIOUS
<1>1. ASSUME NEW id \in 1 .. MaxId, NEW recordedAt \in Times, StoreFix(id, recordedAt)
      PROVE  PagingInv'
  <2> DEFINE p == [id |-> id, recorded_at |-> recordedAt]
  <2>1. p \in Points /\ p.id = id  BY DEF Points
  <2>2. /\ \A q \in points : q.id # id
        /\ points' = points \cup {p}
        /\ late' \in {late, late + 1}
        /\ UNCHANGED <<at, offset, count, page, delivered, received, initial>>
    BY <1>1 DEF StoreFix
  <2> HIDE DEF p
  <2>3. TypeOK'  BY <2>1, <2>2 DEF PagingInv, TypeOK
  <2>4. IsFiniteSet(points)'  BY <2>2, FS_AddElement DEF PagingInv
  <2>5. Window \subseteq Window' /\ IsFiniteSet(Window') /\ IsFiniteSet(Window)
    <3>1. Window \subseteq Window' /\ Window' \subseteq points' /\ Window \subseteq points
      BY <2>2 DEF Window, InWindow
    <3>2. QED  BY <2>4, <3>1, FS_Subset DEF PagingInv
  <2>6. InitialStays'  BY <2>2, <2>5 DEF PagingInv, InitialStays
  <2>7. NotPassed'
    <3> SUFFICES ASSUME at # "start", NEW q \in initial \ delivered
                 PROVE  offset <= Cardinality(Preceding(q)')
      BY <2>2 DEF NotPassed, Preceding, Window, InWindow, Before
    <3>1. offset <= Cardinality(Preceding(q))  BY DEF PagingInv, NotPassed
    <3>2. Preceding(q) \subseteq Preceding(q)' /\ Preceding(q)' \subseteq Window'
      BY <2>5 DEF Preceding, Before
    <3>3. IsFiniteSet(Preceding(q)')  BY <2>5, <3>2, FS_Subset
    <3>4. IsFiniteSet(Preceding(q)) /\ Cardinality(Preceding(q)) <= Cardinality(Preceding(q)')
      BY <3>2, <3>3, FS_Subset
    <3>5. Cardinality(Preceding(q)) \in Nat /\ Cardinality(Preceding(q)') \in Nat
      BY <3>3, <3>4, FS_CardinalityType
    <3>6. QED  BY <3>1, <3>4, <3>5 DEF PagingInv, TypeOK
  <2>8. AllDelivered'  BY <2>2 DEF PagingInv, AllDelivered
  <2>9. CountHolds'
    <3>1. Cardinality(Window) <= Cardinality(Window') /\ Cardinality(Window) \in Nat
          /\ Cardinality(Window') \in Nat
      BY <2>5, FS_Subset, FS_CardinalityType
    <3>2. CASE at = "page"
      BY <2>2, <3>1, <3>2 DEF PagingInv, CountHolds, TypeOK
    <3>3. CASE at # "page"  BY <2>2, <3>3 DEF PagingInv, CountHolds
    <3>4. QED  BY <3>2, <3>3
  <2>10. QED  BY <2>3, <2>4, <2>6, <2>7, <2>8, <2>9 DEF PagingInv
<1>2. CASE StartPaging
  <2>1. TypeOK' /\ IsFiniteSet(points)'
    BY <1>2 DEF StartPaging, PagingInv, TypeOK, Window
  <2>2. InitialStays' /\ AllDelivered' /\ CountHolds'
    BY <1>2 DEF StartPaging, InitialStays, AllDelivered, CountHolds, Window, InWindow
  <2>3. NotPassed'
    <3> SUFFICES ASSUME NEW p \in Window PROVE 0 <= Cardinality(Preceding(p))
      BY <1>2 DEF StartPaging, NotPassed, Preceding, Window, InWindow, Before
    <3>1. Preceding(p) \subseteq Window  BY DEF Preceding
    <3>2. QED  BY <3>1, WindowFinite
  <2>4. QED  BY <2>1, <2>2, <2>3 DEF PagingInv
<1>3. CASE CountPoints
  <2>1. Window' = Window /\ \A p : Preceding(p)' = Preceding(p)
    BY <1>3 DEF CountPoints, Window, InWindow, Preceding, Before
  <2>2. Cardinality(Window) \in Nat  BY WindowFinite
  <2>3. TypeOK' /\ IsFiniteSet(points)'
    BY <1>3, <2>2 DEF CountPoints, Counted, PagingInv, TypeOK
  <2>4. InitialStays' /\ AllDelivered'
    BY <1>3, <2>1 DEF CountPoints, PagingInv, InitialStays, AllDelivered
  <2>5. NotPassed'
    BY <1>3, <2>1 DEF CountPoints, PagingInv, NotPassed
  <2>6. CountHolds'
    BY <1>3, <2>1, <2>2 DEF CountPoints, Counted, CountHolds
  <2>7. QED  BY <2>3, <2>4, <2>5, <2>6 DEF PagingInv
<1>4. CASE FetchPage
  <2> PICK skipped \in SUBSET Window : \E rows \in SUBSET (Window \ skipped) :
           /\ IsPage(skipped, rows)
           /\ page' = rows
           /\ delivered' = delivered \cup rows
           /\ received' = received + Cardinality(rows)
           /\ IF Cardinality(rows) < Limit THEN at' = "start" /\ offset' = offset
              ELSE at' = "count" /\ offset' = offset + Limit
    BY <1>4 DEF FetchPage
  <2>1. PICK rows \in SUBSET (Window \ skipped) :
           /\ at = "page" /\ IsPage(skipped, rows)
           /\ page' = rows /\ delivered' = delivered \cup rows
           /\ received' = received + Cardinality(rows)
           /\ IF Cardinality(rows) < Limit THEN at' = "start" /\ offset' = offset
              ELSE at' = "count" /\ offset' = offset + Limit
           /\ UNCHANGED <<points, count, initial, late>>
    BY <1>4 DEF FetchPage
  <2>2. Window' = Window /\ \A p : Preceding(p)' = Preceding(p)
    BY <2>1 DEF Window, InWindow, Preceding, Before
  <2>3. Cardinality(rows) \in Nat /\ Cardinality(Window) \in Nat
    BY WindowFinite
  <2>4. TypeOK' /\ IsFiniteSet(points)'
    BY <2>1, <2>3, ConstantsAssumption DEF PagingInv, TypeOK, Window
  <2>5. InitialStays'  BY <2>1, <2>2 DEF PagingInv, InitialStays
  <2>6. ASSUME NEW p \in initial \ delivered'
        PROVE  Cardinality(rows) = Limit /\ offset + Limit <= Cardinality(Preceding(p))
    <3>1. p \in Window /\ p \notin rows /\ p \in initial \ delivered
      BY <2>1, <2>6 DEF PagingInv, InitialStays
    <3>2. offset <= Cardinality(Preceding(p))  BY <2>1, <3>1 DEF PagingInv, NotPassed
    <3>3. QED  BY <2>1, <3>1, <3>2, LeftForLater
  <2>7. CASE Cardinality(rows) < Limit
    <3>1. at' = "start" /\ offset' = offset /\ initial' = initial  BY <2>1, <2>7
    <3>2. AllDelivered'
      BY <2>3, <2>6, <2>7, <3>1, ConstantsAssumption DEF AllDelivered
    <3>3. CountHolds'
      <4>1. count <= Cardinality(Window)  BY <2>1 DEF PagingInv, CountHolds
      <4>2. Cardinality(Window) <= offset + Cardinality(rows)
        BY <2>1, <2>7, ShortPageIsLast
      <4>3. QED  BY <2>1, <2>3, <3>1, <4>1, <4>2 DEF CountHolds, PagingInv, TypeOK
    <3>4. QED  BY <2>4, <2>5, <3>1, <3>2, <3>3 DEF PagingInv, NotPassed
  <2>8. CASE ~(Cardinality(rows) < Limit)
    <3>1. at' = "count" /\ offset' = offset + Limit /\ initial' = initial  BY <2>1, <2>8
    <3>2. NotPassed'  BY <2>2, <2>6, <3>1 DEF NotPassed
    <3>3. QED  BY <2>4, <2>5, <3>1, <3>2 DEF PagingInv, AllDelivered, CountHolds
  <2>9. QED  BY <2>7, <2>8
<1>5. CASE UNCHANGED vars
  <2>1. Window' = Window /\ \A p : Preceding(p)' = Preceding(p)
    BY <1>5 DEF vars, Window, InWindow, Preceding, Before
  <2>2. QED
    BY <1>5, <2>1 DEF vars, PagingInv, TypeOK, InitialStays, NotPassed, AllDelivered, CountHolds
<1>6. QED  BY <1>1, <1>2, <1>3, <1>4, <1>5 DEF Next

LEMMA PagingInvariant == Spec => []PagingInv
BY InitPagingInv, NextPagingInv, PTL DEF Spec

-----------------------------------------------------------------------------
(* Repeats                                                                 *)

\* A paging client has received as many points as it skips, and the points that
\* came late are those of the window it did not find at its start.
RepeatInv ==
    /\ late = Cardinality(Window \ initial)
    /\ at # "start" => received = offset
    /\ RepeatsBounded

\* The skipped points that were never delivered are late ones, so a page brings as
\* many new points as it has, short of the late ones.
LEMMA PageBrings ==
    ASSUME PagingInv, RepeatInv, at = "page",
           NEW skipped \in SUBSET Window, NEW rows \in SUBSET (Window \ skipped),
           IsPage(skipped, rows)
    PROVE  received + Cardinality(rows) <= Cardinality(delivered \cup rows) + late
<1> DEFINE unseen == skipped \ delivered
           reached == skipped \cup rows
<1>1. /\ \A S \in SUBSET Window : IsFiniteSet(S) /\ Cardinality(S) \in Nat
      /\ IsFiniteSet(delivered) /\ IsFiniteSet(delivered \cup rows)
      /\ Cardinality(delivered) \in Nat /\ Cardinality(delivered \cup rows) \in Nat
  <2>1. \A S \in SUBSET Window : IsFiniteSet(S) /\ Cardinality(S) \in Nat  BY WindowFinite
  <2>2. IsFiniteSet(delivered)  BY FS_Subset DEF PagingInv, TypeOK
  <2>3. IsFiniteSet(delivered \cup rows)  BY <2>1, <2>2, FS_Union
  <2>4. QED  BY <2>1, <2>2, <2>3, FS_CardinalityType
<1>2. offset \in Nat /\ received = offset /\ late \in Nat
  BY DEF PagingInv, TypeOK, RepeatInv
<1>3. unseen \cap initial = {}
  <2> SUFFICES ASSUME NEW p \in unseen, p \in initial PROVE FALSE
    OBVIOUS
  <2>1. Cardinality(Preceding(p)) < offset  BY SkippedArePassed
  <2>2. offset <= Cardinality(Preceding(p))  BY DEF PagingInv, NotPassed
  <2>3. Cardinality(Preceding(p)) \in Nat  BY <1>1 DEF Preceding
  <2>4. QED  BY <1>2, <2>1, <2>2, <2>3
<1>4. Cardinality(unseen) <= late /\ Cardinality(unseen) \in Nat
  <2>1. unseen \subseteq Window \ initial  BY <1>3
  <2>2. IsFiniteSet(Window \ initial)  BY <1>1
  <2>3. Cardinality(unseen) <= Cardinality(Window \ initial)  BY <2>1, <2>2, FS_Subset
  <2>4. QED  BY <1>1, <2>3 DEF RepeatInv
<1>5. CASE Cardinality(skipped) = offset
  <2>1. Cardinality(reached) = offset + Cardinality(rows)
    <3>1. IsFiniteSet(skipped) /\ IsFiniteSet(rows) /\ skipped \cap rows = {}  BY <1>1
    <3>2. Cardinality(reached)
            = Cardinality(skipped) + Cardinality(rows) - Cardinality(skipped \cap rows)
      BY <3>1, FS_Union
    <3>3. Cardinality(rows) \in Nat  BY <1>1
    <3>4. QED  BY <1>2, <1>5, <3>1, <3>2, <3>3, FS_EmptySet
  <2>2. Cardinality(reached \ unseen) = Cardinality(reached) - Cardinality(unseen)
    <3>1. IsFiniteSet(reached) /\ reached \cap unseen = unseen  BY <1>1
    <3>2. Cardinality(reached \ unseen) = Cardinality(reached) - Cardinality(reached \cap unseen)
      BY <3>1, FS_Difference
    <3>3. QED  BY <3>1, <3>2
  <2>3. reached \ unseen \subseteq delivered \cup rows  OBVIOUS
  <2>4. Cardinality(reached \ unseen) <= Cardinality(delivered \cup rows)
    BY <1>1, <2>3, FS_Subset
  <2>5. Cardinality(rows) \in Nat  BY <1>1
  <2> HIDE DEF unseen, reached
  <2>6. QED  BY <1>1, <1>2, <1>4, <2>1, <2>2, <2>4, <2>5
<1>6. CASE Cardinality(skipped) # offset
  <2>1. Cardinality(skipped) = Cardinality(Window)  BY <1>6 DEF IsPage
  <2>2. IsFiniteSet(Window)  BY WindowFinite
  <2>3. skipped = Window  BY <2>1, <2>2, FS_Subset
  <2>4. rows = {} /\ Cardinality(rows) = 0  BY <2>3, FS_EmptySet
  <2>5. delivered \cup rows = delivered  BY <2>4
  <2>6. QED  BY <1>2, <2>4, <2>5 DEF RepeatInv, RepeatsBounded
<1>7. QED  BY <1>5, <1>6

LEMMA InitRepeatInv == Init => RepeatInv
<1> SUFFICES ASSUME Init PROVE RepeatInv
  OBVIOUS
<1>1. Window \ initial = {}  BY DEF Init, Window
<1>2. QED  BY <1>1, FS_EmptySet DEF Init, RepeatInv, RepeatsBounded

LEMMA NextRepeatInv == PagingInv /\ RepeatInv /\ [Next]_vars => RepeatInv'
<1> SUFFICES ASSUME PagingInv, RepeatInv, [Next]_vars PROVE RepeatInv'
  OBVIOUS
<1>1. /\ IsFiniteSet(Window \ initial) /\ Cardinality(Window \ initial) \in Nat
      /\ Cardinality(delivered) \in Nat
      /\ received \in Nat /\ late \in Nat /\ offset \in Nat
  <2>1. IsFiniteSet(delivered)  BY FS_Subset DEF PagingInv, TypeOK
  <2>2. QED  BY <2>1, WindowFinite, FS_CardinalityType DEF PagingInv, TypeOK
<1>2. ASSUME NEW id \in 1 .. MaxId, NEW recordedAt \in Times, StoreFix(id, recordedAt)
      PROVE  RepeatInv'
  <2> DEFINE p == [id |-> id, recorded_at |-> recordedAt]
  <2>1. p.id = id  OBVIOUS
  <2>2. /\ \A q \in points : q.id # id
        /\ points' = points \cup {p} /\ late' = IF InWindow(p) THEN late + 1 ELSE late
        /\ UNCHANGED <<at, offset, delivered, received, initial>>
    BY <1>2 DEF StoreFix
  <2> HIDE DEF p
  <2>3. p \notin points /\ p \notin initial /\ p \notin Window
    BY <2>1, <2>2 DEF PagingInv, TypeOK, Window
  <2>4. late' = Cardinality(Window' \ initial)
    <3>1. CASE InWindow(p)
      <4>1. Window' \ initial = (Window \ initial) \cup {p} /\ p \notin Window \ initial
        BY <2>2, <2>3, <3>1 DEF Window, InWindow
      <4>2. Cardinality(Window' \ initial) = Cardinality(Window \ initial) + 1
        BY <1>1, <4>1, FS_AddElement
      <4>3. QED  BY <2>2, <3>1, <4>2 DEF RepeatInv
    <3>2. CASE ~InWindow(p)
      <4>1. Window' = Window  BY <2>2, <3>2 DEF Window, InWindow
      <4>2. QED  BY <2>2, <3>2, <4>1 DEF RepeatInv
    <3>3. QED  BY <3>1, <3>2
  <2>5. RepeatsBounded'
    BY <1>1, <2>2 DEF RepeatInv, RepeatsBounded
  <2>6. QED  BY <2>2, <2>4, <2>5 DEF RepeatInv
<1>3. CASE StartPaging
  <2>1. Window' = Window  BY <1>3 DEF StartPaging, Window, InWindow
  <2>2. initial' = Window /\ late' = 0 /\ received' = 0 /\ offset' = 0 /\ delivered' = {}
    BY <1>3 DEF StartPaging
  <2>3. Window' \ initial' = {}  BY <2>1, <2>2
  <2>4. QED  BY <2>2, <2>3, FS_EmptySet DEF RepeatInv, RepeatsBounded
<1>4. CASE CountPoints
  <2>1. Window' = Window  BY <1>4 DEF CountPoints, Window, InWindow
  <2>2. QED  BY <1>4, <2>1 DEF CountPoints, RepeatInv, RepeatsBounded
<1>5. CASE FetchPage
  <2>1. PICK skipped \in SUBSET Window : \E rows \in SUBSET (Window \ skipped) :
           /\ IsPage(skipped, rows)
           /\ delivered' = delivered \cup rows
           /\ received' = received + Cardinality(rows)
           /\ IF Cardinality(rows) < Limit THEN at' = "start" /\ offset' = offset
              ELSE at' = "count" /\ offset' = offset + Limit
    BY <1>5 DEF FetchPage
  <2>2. PICK rows \in SUBSET (Window \ skipped) :
           /\ IsPage(skipped, rows)
           /\ delivered' = delivered \cup rows
           /\ received' = received + Cardinality(rows)
           /\ IF Cardinality(rows) < Limit THEN at' = "start" /\ offset' = offset
              ELSE at' = "count" /\ offset' = offset + Limit
    BY <2>1
  <2>3. at = "page" /\ UNCHANGED <<points, initial, late>>  BY <1>5 DEF FetchPage
  <2>4. Window' = Window  BY <2>3 DEF Window, InWindow
  <2>5. RepeatsBounded'  BY <2>2, <2>3, PageBrings DEF RepeatsBounded
  <2>6. at' # "start" => received' = offset'
    <3> SUFFICES ASSUME at' # "start" PROVE received' = offset'
      OBVIOUS
    <3>1. ~(Cardinality(rows) < Limit) /\ offset' = offset + Limit  BY <2>2
    <3>2. Cardinality(rows) = Limit  BY <2>2, <3>1 DEF IsPage
    <3>3. received = offset  BY <2>3 DEF RepeatInv
    <3>4. QED  BY <2>2, <3>1, <3>2, <3>3
  <2>7. QED  BY <2>3, <2>4, <2>5, <2>6 DEF RepeatInv
<1>6. CASE UNCHANGED vars
  <2>1. Window' = Window  BY <1>6 DEF vars, Window, InWindow
  <2>2. QED  BY <1>6, <2>1 DEF vars, RepeatInv, RepeatsBounded
<1>7. QED  BY <1>2, <1>3, <1>4, <1>5, <1>6 DEF Next

LEMMA RepeatInvariant == Spec => []RepeatInv
BY InitRepeatInv, NextRepeatInv, PagingInvariant, PTL DEF Spec

-----------------------------------------------------------------------------
(* Theorems                                                                *)

\* Every reachable state has its type, and no two points share an id.
THEOREM Typing == Spec => []TypeOK
<1>1. PagingInv => TypeOK  BY DEF PagingInv
<1>2. QED  BY <1>1, PagingInvariant, PTL

\* Offset paging over an explicit window misses no point that was there when it
\* started, however many fixes are stored between its statements.
THEOREM NothingMissed == Spec => []NoMiss
<1>1. PagingInv => NoMiss  BY DEF PagingInv, AllDelivered, NoMiss
<1>2. QED  BY <1>1, PagingInvariant, PTL

\* A finished client's last count is never beyond what its pages reached.
THEOREM CountIsReached == Spec => []CountReached
<1>1. PagingInv => CountReached  BY DEF PagingInv, CountHolds, CountReached
<1>2. QED  BY <1>1, PagingInvariant, PTL

\* However fixes and pages interleave, a client is sent at most one repeat for
\* each fix that entered its window after its first request.
THEOREM RepeatsAreLate == Spec => []RepeatsBounded
<1>1. RepeatInv => RepeatsBounded  BY DEF RepeatInv
<1>2. QED  BY <1>1, RepeatInvariant, PTL
=============================================================================
