---------------------------- MODULE ServiceProofs ----------------------------
(***************************************************************************)
(* Proofs about Admission, its history and the Service built on it, for    *)
(* every set of requests and addresses, every limit, every number of       *)
(* record types and every length of the minute.  Requests and Sources need *)
(* not be finite: only the slots held and the addresses tracked are.       *)
(***************************************************************************)
EXTENDS Service, AdmissionHistory, FiniteSetTheorems, TLAPS

-----------------------------------------------------------------------------
(* Admission                                                               *)

\* The strengthening: the sets whose cardinality the code counts are finite.
SlotInv ==
  /\ IsFiniteSet(Holding)
  /\ SlotsAreOpenResponses
  /\ active <= ConcurrentRequests

TableInv ==
  /\ IsFiniteSet(DOMAIN sources)
  /\ TableBounded

IInv == TypeOK /\ SlotInv /\ TableInv

-----------------------------------------------------------------------------
(* What one step does to the variables each invariant speaks of.           *)

\* Every step of enter() leaves a table of tracked addresses, with at most one
\* added and only when there was room for it.
LEMMA TableShape ==
  ASSUME TypeOK, NEW r \in Requests, NEW s \in Sources, Enter(r, s)
  PROVE  \/ DOMAIN sources' = Tracked
         \/ HasEntry(s) /\ DOMAIN sources' = Tracked \cup {s}
  BY DEF Enter, EnterTableFull, EnterAtLimit, EnterAdmitted, Table, Admits

LEMMA WindowTypes ==
  ASSUME TypeOK, NEW s \in Sources
  PROVE  /\ Fresh \in RateWindow
         /\ GlobalWindow \in RateWindow
         /\ SourceWindow(s) \in RateWindow
         /\ Tracked \subseteq Sources
         /\ \A x \in Tracked : sources[x] \in RateWindow
  <1>1. Fresh \in RateWindow
    BY AdmissionAssumption DEF TypeOK, Fresh, RateWindow
  <1>2. Tracked \subseteq Sources /\ \A x \in Tracked : sources[x] \in RateWindow
    BY DEF TypeOK, Tracked
  <1>3. QED
    BY <1>1, <1>2 DEF GlobalWindow, SourceWindow, TypeOK

LEMMA CountedType ==
  ASSUME NEW w \in RateWindow
  PROVE  Counted(w) \in RateWindow
  BY DEF Counted, RateWindow

LEMMA TableType ==
  ASSUME TypeOK, NEW s \in Sources, NEW w \in RateWindow
  PROVE  /\ DOMAIN Table(s, w) \subseteq Sources
         /\ Table(s, w) \in [DOMAIN Table(s, w) -> RateWindow]
  BY WindowTypes DEF Table

-----------------------------------------------------------------------------
LEMMA TypeInit == Init => TypeOK
  BY DEF Init, TypeOK, RateWindow

LEMMA TypeStep == TypeOK /\ [Next]_admissionVars => TypeOK'
  <1> SUFFICES ASSUME TypeOK, [Next]_admissionVars
               PROVE  TypeOK'
    OBVIOUS
  <1>1. ASSUME NEW r \in Requests, NEW s \in Sources, Enter(r, s)
        PROVE  TypeOK'
    <2>1. CASE EnterTableFull(s)
      BY <2>1, WindowTypes DEF EnterTableFull, TypeOK
    <2>2. CASE EnterAtLimit(s)
      BY <2>2, WindowTypes, TableType DEF EnterAtLimit, TypeOK
    <2>3. CASE EnterAdmitted(r, s)
      <3>1. Counted(GlobalWindow) \in RateWindow /\ Counted(SourceWindow(s)) \in RateWindow
        BY WindowTypes, CountedType
      <3>2. QED
        BY <2>3, <3>1, TableType DEF EnterAdmitted, TypeOK
    <2>4. QED
      BY <1>1, <2>1, <2>2, <2>3 DEF Enter
  <1>2. ASSUME NEW r \in Requests, Finish(r) \/ Close(r)
        PROVE  TypeOK'
    <2>1. Release(r) /\ UNCHANGED <<now, global, sources>>
      BY <1>2 DEF Finish, Close
    <2>2. active' \in Int /\ released' \in [Requests -> BOOLEAN]
      <3>1. CASE released[r]
        BY <2>1, <3>1 DEF Release, TypeOK
      <3>2. CASE ~released[r]
        <4>1. active' = active - 1 /\ released' = [released EXCEPT ![r] = TRUE]
          BY <2>1, <3>2 DEF Release
        <4>2. released' \in [Requests -> BOOLEAN]
          BY <4>1 DEF TypeOK
        <4>3. QED
          BY <4>1, <4>2 DEF TypeOK
      <3>3. QED
        BY <3>1, <3>2
    <2>3. response' \in [Requests -> {"none", "open", "finished"}]
      BY <1>2 DEF Finish, Close, TypeOK
    <2>4. QED
      BY <2>1, <2>2, <2>3 DEF TypeOK
  <1>3. CASE Tick
    BY <1>3 DEF Tick, TypeOK
  <1>4. CASE UNCHANGED admissionVars
    BY <1>4 DEF admissionVars, TypeOK
  <1>5. QED
    BY <1>1, <1>2, <1>3, <1>4 DEF Next

\* Type correctness of Admission.
THEOREM TypeCorrect == Spec => []TypeOK
  BY TypeInit, TypeStep, PTL DEF Spec

-----------------------------------------------------------------------------
\* Giving a slot back: the counter follows the set, whichever of the two
\* callers comes first.
LEMMA ReleaseSlot ==
  ASSUME TypeOK, SlotInv, NEW r \in Requests, Release(r),
         response' = [response EXCEPT ![r] = "finished"]
           \/ response' = [response EXCEPT ![r] = "none"]
  PROVE  /\ Holding' = Holding \ {r}
         /\ SlotInv'
  <1>1. Holding' = Holding \ {r}
    BY DEF Release, Holding, TypeOK
  <1>2. Holding' = {q \in Requests : response'[q] = "open"}
    <2>1. Holding = {q \in Requests : response[q] = "open"}
      BY DEF SlotInv, SlotsAreOpenResponses
    <2>2. \A q \in Requests : response'[q] = "open" <=> response[q] = "open" /\ q # r
      BY DEF TypeOK
    <2>3. QED
      BY <1>1, <2>1, <2>2
  <1>3. /\ IsFiniteSet(Holding')
        /\ Cardinality(Holding') =
             IF r \in Holding THEN Cardinality(Holding) - 1 ELSE Cardinality(Holding)
    BY <1>1, FS_RemoveElement DEF SlotInv
  <1>4. active' = IF r \in Holding THEN active - 1 ELSE active
    BY DEF Release, Holding
  <1>5. active' = Cardinality(Holding') /\ active' <= ConcurrentRequests
    BY <1>3, <1>4, AdmissionAssumption DEF SlotInv, SlotsAreOpenResponses, TypeOK
  <1>6. QED
    BY <1>1, <1>2, <1>3, <1>5 DEF SlotInv, SlotsAreOpenResponses

\* Taking a slot.
LEMMA AdmitSlot ==
  ASSUME TypeOK, SlotInv, NEW r \in Requests, NEW s \in Sources, EnterAdmitted(r, s)
  PROVE  /\ Holding' = Holding \cup {r}
         /\ r \notin Holding
         /\ Cardinality(Holding) < ConcurrentRequests
         /\ SlotInv'
  <1>1. r \notin Holding
    BY DEF SlotInv, SlotsAreOpenResponses, EnterAdmitted
  <1>2. Holding' = Holding \cup {r}
    BY DEF EnterAdmitted, Holding, TypeOK
  <1>3. Holding' = {q \in Requests : response'[q] = "open"}
    <2>1. Holding = {q \in Requests : response[q] = "open"}
      BY DEF SlotInv, SlotsAreOpenResponses
    <2>2. \A q \in Requests : response'[q] = "open" <=> response[q] = "open" \/ q = r
      BY DEF EnterAdmitted, TypeOK
    <2>3. QED
      BY <1>2, <2>1, <2>2
  <1>4. IsFiniteSet(Holding') /\ Cardinality(Holding') = Cardinality(Holding) + 1
    BY <1>1, <1>2, FS_AddElement DEF SlotInv
  <1>5. active < ConcurrentRequests /\ active' = active + 1
    BY AdmissionAssumption DEF EnterAdmitted, Admits, AtLimit, TypeOK
  <1>6. active = Cardinality(Holding)
    BY DEF SlotInv, SlotsAreOpenResponses
  <1>7. active' = Cardinality(Holding') /\ active' <= ConcurrentRequests
    BY <1>4, <1>5, <1>6, AdmissionAssumption DEF TypeOK
  <1>8. QED
    BY <1>1, <1>2, <1>3, <1>4, <1>5, <1>6, <1>7 DEF SlotInv, SlotsAreOpenResponses

LEMMA SlotInit == Init => SlotInv
  <1> SUFFICES ASSUME Init PROVE SlotInv
    OBVIOUS
  <1>1. Holding = {} /\ {r \in Requests : response[r] = "open"} = {}
    BY DEF Init, Holding
  <1>2. QED
    BY <1>1, FS_EmptySet, AdmissionAssumption DEF Init, SlotInv, SlotsAreOpenResponses

LEMMA SlotStep == TypeOK /\ SlotInv /\ [Next]_admissionVars => SlotInv'
  <1> SUFFICES ASSUME TypeOK, SlotInv, [Next]_admissionVars
               PROVE  SlotInv'
    OBVIOUS
  <1>1. ASSUME UNCHANGED <<active, response, released>>
        PROVE  SlotInv'
    BY <1>1 DEF SlotInv, SlotsAreOpenResponses, Holding
  <1>2. ASSUME NEW r \in Requests, NEW s \in Sources, Enter(r, s)
        PROVE  SlotInv'
    <2>1. CASE EnterTableFull(s) \/ EnterAtLimit(s)
      BY <1>1, <2>1 DEF EnterTableFull, EnterAtLimit
    <2>2. CASE EnterAdmitted(r, s)
      BY <2>2, AdmitSlot
    <2>3. QED
      BY <1>2, <2>1, <2>2 DEF Enter
  <1>3. ASSUME NEW r \in Requests, Finish(r) \/ Close(r)
        PROVE  SlotInv'
    BY <1>3, ReleaseSlot DEF Finish, Close
  <1>4. CASE Tick
    BY <1>1, <1>4 DEF Tick
  <1>5. CASE UNCHANGED admissionVars
    BY <1>1, <1>5 DEF admissionVars
  <1>6. QED
    BY <1>2, <1>3, <1>4, <1>5 DEF Next

\* The concurrency counter is the number of open responses of admitted requests.
THEOREM SlotsCorrect == Spec => []SlotsAreOpenResponses
  <1>1. TypeOK /\ SlotInv /\ [Next]_admissionVars => (TypeOK /\ SlotInv)'
    BY TypeStep, SlotStep
  <1>2. SlotInv => SlotsAreOpenResponses
    BY DEF SlotInv
  <1>3. QED
    BY TypeInit, SlotInit, <1>1, <1>2, PTL DEF Spec

-----------------------------------------------------------------------------
LEMMA TableStep == TypeOK /\ TableInv /\ [Next]_admissionVars => TableInv'
  <1> SUFFICES ASSUME TypeOK, TableInv, [Next]_admissionVars
               PROVE  TableInv'
    OBVIOUS
  <1>1. ASSUME UNCHANGED sources
        PROVE  TableInv'
    BY <1>1 DEF TableInv, TableBounded
  <1>2. ASSUME NEW r \in Requests, NEW s \in Sources, Enter(r, s)
        PROVE  TableInv'
    <2>1. /\ IsFiniteSet(Tracked)
          /\ Cardinality(Tracked) \in Nat
          /\ Cardinality(Tracked) <= SourceEntries
      <3>1. Tracked \subseteq DOMAIN sources
        BY DEF Tracked
      <3>2. /\ IsFiniteSet(Tracked)
            /\ Cardinality(Tracked) <= Cardinality(DOMAIN sources)
        BY <3>1, FS_Subset DEF TableInv
      <3>3. Cardinality(Tracked) \in Nat /\ Cardinality(DOMAIN sources) \in Nat
        BY <3>2, FS_CardinalityType DEF TableInv
      <3>4. QED
        BY <3>2, <3>3, AdmissionAssumption DEF TableInv, TableBounded
    <2>2. CASE DOMAIN sources' = Tracked
      BY <2>1, <2>2 DEF TableInv, TableBounded
    <2>3. CASE HasEntry(s) /\ DOMAIN sources' = Tracked \cup {s}
      <3>1. /\ IsFiniteSet(Tracked \cup {s})
            /\ Cardinality(Tracked \cup {s}) =
                 IF s \in Tracked THEN Cardinality(Tracked) ELSE Cardinality(Tracked) + 1
        BY <2>1, FS_AddElement
      <3>2. QED
        BY <2>1, <2>3, <3>1, AdmissionAssumption DEF HasEntry, TableInv, TableBounded
    <2>4. QED
      BY <1>2, <2>2, <2>3, TableShape
  <1>3. ASSUME NEW r \in Requests, Finish(r) \/ Close(r)
        PROVE  TableInv'
    BY <1>1, <1>3 DEF Finish, Close
  <1>4. CASE Tick
    BY <1>1, <1>4 DEF Tick
  <1>5. CASE UNCHANGED admissionVars
    BY <1>1, <1>5 DEF admissionVars
  <1>6. QED
    BY <1>2, <1>3, <1>4, <1>5 DEF Next

LEMMA TableInit == Init => TableInv
  BY FS_EmptySet, AdmissionAssumption DEF Init, TableInv, TableBounded

\* The table of addresses never outgrows its cap.
THEOREM TableNeverOverflows == Spec => []TableBounded
  <1>1. TypeOK /\ TableInv /\ [Next]_admissionVars => (TypeOK /\ TableInv)'
    BY TypeStep, TableStep
  <1>2. TableInv => TableBounded
    BY DEF TableInv
  <1>3. QED
    BY TypeInit, TableInit, <1>1, <1>2, PTL DEF Spec

-----------------------------------------------------------------------------
LEMMA WindowsStep ==
  ASSUME TypeOK, [Next]_admissionVars, NEW x \in DOMAIN sources, sources[x].until > now'
  PROVE  /\ x \in DOMAIN sources'
         /\ sources'[x].until = sources[x].until
         /\ sources'[x].count >= sources[x].count
  <1>0. sources[x].count \in Nat /\ sources[x].until \in Nat /\ x \in Sources
    BY DEF TypeOK, RateWindow
  <1>1. ASSUME UNCHANGED sources
        PROVE  /\ x \in DOMAIN sources'
               /\ sources'[x].until = sources[x].until
               /\ sources'[x].count >= sources[x].count
    BY <1>0, <1>1
  <1>2. ASSUME NEW r \in Requests, NEW s \in Sources, Enter(r, s)
        PROVE  /\ x \in DOMAIN sources'
               /\ sources'[x].until = sources[x].until
               /\ sources'[x].count >= sources[x].count
    <2>1. now' = now /\ x \in Tracked
      BY <1>2 DEF Enter, EnterTableFull, EnterAtLimit, EnterAdmitted, Tracked
    <2>2. CASE EnterTableFull(s)
      BY <1>0, <2>1, <2>2 DEF EnterTableFull
    <2>3. CASE EnterAtLimit(s)
      BY <1>0, <2>1, <2>3 DEF EnterAtLimit, Table, SourceWindow
    <2>4. CASE EnterAdmitted(r, s)
      <3>1. CASE x = s
        <4>1. sources'[x] = Counted(sources[x]) /\ x \in DOMAIN sources'
          BY <2>1, <2>4, <3>1 DEF EnterAdmitted, Table, SourceWindow
        <4>2. sources[x] \in RateWindow
          BY DEF TypeOK
        <4>3. QED
          BY <1>0, <4>1, <4>2 DEF Counted, RateWindow
      <3>2. CASE x # s
        BY <1>0, <2>1, <2>4, <3>2 DEF EnterAdmitted, Table
      <3>3. QED
        BY <3>1, <3>2
    <2>5. QED
      BY <1>2, <2>2, <2>3, <2>4 DEF Enter
  <1>3. ASSUME NEW r \in Requests, Finish(r) \/ Close(r)
        PROVE  UNCHANGED sources
    BY <1>3 DEF Finish, Close
  <1>4. CASE Tick
    BY <1>1, <1>4 DEF Tick
  <1>5. CASE UNCHANGED admissionVars
    BY <1>1, <1>5 DEF admissionVars
  <1>6. QED
    BY <1>1, <1>2, <1>3, <1>4, <1>5 DEF Next

\* No step evicts or forgives an address whose window is running.
THEOREM WindowsAreKept == Spec => LiveWindowsKept
  <1>1. TypeOK /\ [Next]_admissionVars =>
          [\A s \in DOMAIN sources :
             sources[s].until > now' =>
               /\ s \in DOMAIN sources'
               /\ sources'[s].until = sources[s].until
               /\ sources'[s].count >= sources[s].count]_admissionVars
    BY WindowsStep
  <1>2. QED
    BY <1>1, TypeCorrect, PTL DEF Spec, LiveWindowsKept

-----------------------------------------------------------------------------
\* Instances carry their own copy of Cardinality.
LEMMA PoolCardinality ==
  ASSUME NEW S
  PROVE  Pool!Cardinality(S) = Cardinality(S)
  BY DEF Cardinality, Pool!Cardinality

\* Refinement: every step of Admission is a step of the pool or leaves it alone.
LEMMA PoolStep ==
  TypeOK /\ SlotInv /\ [Next]_admissionVars => [Pool!Next]_Holding
  <1> SUFFICES ASSUME TypeOK, SlotInv, [Next]_admissionVars, Holding' # Holding
               PROVE  \E h \in Requests : Pool!Acquire(h) \/ Pool!Release(h)
    BY DEF Pool!Next
  <1>1. ASSUME UNCHANGED released
        PROVE  FALSE
    BY <1>1 DEF Holding
  <1>2. ASSUME NEW r \in Requests, NEW s \in Sources, Enter(r, s)
        PROVE  Pool!Acquire(r)
    <2>1. EnterAdmitted(r, s)
      BY <1>1, <1>2 DEF Enter, EnterTableFull, EnterAtLimit
    <2>2. QED
      BY <2>1, AdmitSlot, PoolCardinality DEF Pool!Acquire
  <1>3. ASSUME NEW r \in Requests, Finish(r) \/ Close(r)
        PROVE  Pool!Release(r)
    <2>1. Holding' = Holding \ {r}
      BY <1>3, ReleaseSlot DEF Finish, Close
    <2>2. QED
      BY <2>1 DEF Pool!Release
  <1>4. CASE Tick
    BY <1>1, <1>4 DEF Tick
  <1>5. CASE UNCHANGED admissionVars
    BY <1>1, <1>5 DEF admissionVars
  <1>6. QED
    BY <1>2, <1>3, <1>4, <1>5 DEF Next

\* Admission implements a pool of ConcurrentRequests slots.
THEOREM AdmissionImplementsPool == Spec => ImplementsPool
  <1>1. Init => Pool!Init
    BY DEF Init, Pool!Init, Holding
  <1>2. TypeOK /\ SlotInv /\ [Next]_admissionVars => (TypeOK /\ SlotInv)'
    BY TypeStep, SlotStep
  <1>3. QED
    BY TypeInit, SlotInit, <1>1, <1>2, PoolStep, PTL DEF Spec, ImplementsPool, Pool!Spec

-----------------------------------------------------------------------------
(* Admission with its history: a fixed window against the last minute.     *)

Admissions == [source : Sources, time : Nat, nth : Nat]

\* A finite set of admissions of the minute that ends at time t.
OfTheMinute(A, t) ==
  /\ IsFiniteSet(A)
  /\ A \subseteq Admissions
  /\ \A a \in A : a.time > t - Minute /\ a.time <= t

\* Window w splits the admissions of the minute: those before it began, of an
\* earlier window, and those inside it.
Before(A, w) == {a \in A : a.time < w.until - Minute}
Inside(A, w) == {a \in A : a.time >= w.until - Minute}

\* What a window of rate R knows of the admissions A at time t: while it runs
\* its count is exactly of those inside it, and those before it fill at most
\* one window.
Fits(A, w, R, t) ==
  /\ w.until <= t + Minute
  /\ w.count <= R
  /\ \A a \in A : a.time < w.until
  /\ Cardinality(Before(A, w)) <= R
  /\ Cardinality(Inside(A, w)) <= w.count
  /\ t < w.until => Cardinality(Inside(A, w)) = w.count

\* What a limiter may forget at time t: at most R admissions, all of them past.
Past(A, R, t) ==
  /\ Cardinality(A) <= R
  /\ \A a \in A : a.time < t

LEMMA SplitIs ==
  ASSUME NEW A, NEW t \in Nat, OfTheMinute(A, t), NEW w \in RateWindow
  PROVE  /\ IsFiniteSet(Before(A, w)) /\ IsFiniteSet(Inside(A, w))
         /\ Cardinality(A) \in Nat
         /\ Cardinality(Before(A, w)) \in Nat
         /\ Cardinality(Inside(A, w)) \in Nat
         /\ Cardinality(Inside(A, w)) <= Cardinality(A)
         /\ Cardinality(A) <= Cardinality(Before(A, w)) + Cardinality(Inside(A, w))
  <1>1. Before(A, w) \subseteq A /\ Inside(A, w) \subseteq A
    BY DEF Before, Inside
  <1>2. IsFiniteSet(Before(A, w)) /\ IsFiniteSet(Inside(A, w))
    BY <1>1, FS_Subset DEF OfTheMinute
  <1>3. Cardinality(Inside(A, w)) <= Cardinality(A)
    BY <1>1, FS_Subset DEF OfTheMinute
  <1>4. A = Before(A, w) \cup Inside(A, w)
    <2>1. \A a \in A : a.time \in Nat
      BY DEF OfTheMinute, Admissions
    <2>2. w.until - Minute \in Int
      BY AdmissionAssumption DEF RateWindow
    <2>3. QED
      BY <2>1, <2>2 DEF Before, Inside
  <1>5. Cardinality(A) = Cardinality(Before(A, w)) + Cardinality(Inside(A, w))
                           - Cardinality(Before(A, w) \cap Inside(A, w))
    BY <1>2, <1>4, FS_Union
  <1>6. IsFiniteSet(Before(A, w) \cap Inside(A, w))
    BY <1>2, FS_Subset
  <1>7. /\ Cardinality(A) \in Nat
        /\ Cardinality(Before(A, w)) \in Nat
        /\ Cardinality(Inside(A, w)) \in Nat
        /\ Cardinality(Before(A, w) \cap Inside(A, w)) \in Nat
    BY <1>2, <1>6, FS_CardinalityType DEF OfTheMinute
  <1>8. QED
    BY <1>2, <1>3, <1>5, <1>7

\* A window that has run out holds every admission of the minute.
LEMMA ExpiredIsPast ==
  ASSUME NEW A, NEW t \in Nat, OfTheMinute(A, t), NEW w \in RateWindow, NEW R \in Nat,
         Fits(A, w, R, t), w.until <= t
  PROVE  Past(A, R, t)
  <1>1. \A a \in A : a.time \in Nat
    BY DEF OfTheMinute, Admissions
  <1>2. \A a \in A : a.time < t /\ a.time >= w.until - Minute
    BY <1>1, AdmissionAssumption DEF OfTheMinute, Fits, RateWindow
  <1>3. Inside(A, w) = A
    BY <1>2 DEF Inside
  <1>4. Cardinality(A) <= R
    BY <1>3, SplitIs DEF Fits, RateWindow
  <1>5. QED
    BY <1>2, <1>4 DEF Past

\* A new window has everything before it.
LEMMA FreshFits ==
  ASSUME NEW A, NEW t \in Nat, OfTheMinute(A, t), NEW R \in Nat, Past(A, R, t),
         NEW w \in RateWindow, w.count = 0, w.until = t + Minute
  PROVE  Fits(A, w, R, t)
  <1>1. \A a \in A : a.time \in Nat /\ a.time < t
    BY DEF OfTheMinute, Admissions, Past
  <1>2. Before(A, w) = A /\ Inside(A, w) = {}
    BY <1>1, AdmissionAssumption DEF Before, Inside
  <1>3. Cardinality({}) = 0
    BY FS_EmptySet
  <1>4. \A a \in A : a.time < w.until
    BY <1>1, AdmissionAssumption
  <1>5. QED
    BY <1>2, <1>3, <1>4, AdmissionAssumption DEF Fits, Past

\* An admission counted in a running window.
LEMMA CountedFits ==
  ASSUME NEW A, NEW t \in Nat, OfTheMinute(A, t), NEW w \in RateWindow, NEW R \in Nat,
         Fits(A, w, R, t), t < w.until, w.count < R,
         NEW a \in Admissions, a \notin A, a.time = t
  PROVE  Fits(A \cup {a}, Counted(w), R, t)
  <1> DEFINE B == A \cup {a}
  <1>1. Counted(w).until = w.until /\ Counted(w).count = w.count + 1
    BY DEF Counted, RateWindow
  <1>2. t >= w.until - Minute /\ ~(t < w.until - Minute)
    BY AdmissionAssumption DEF Fits, RateWindow
  <1>3. Before(B, Counted(w)) = Before(A, w) /\ Inside(B, Counted(w)) = Inside(A, w) \cup {a}
    BY <1>1, <1>2 DEF Before, Inside
  <1>4. Cardinality(Inside(A, w) \cup {a}) = Cardinality(Inside(A, w)) + 1
    <2>1. a \notin Inside(A, w)
      BY DEF Inside
    <2>2. QED
      BY <2>1, SplitIs, FS_AddElement
  <1>5. Cardinality(Inside(A, w)) \in Nat /\ Cardinality(Inside(A, w)) = w.count
    BY SplitIs DEF Fits
  <1>6. w.count + 1 <= R
    BY DEF RateWindow
  <1>7. Cardinality(Inside(B, Counted(w))) = Counted(w).count
    BY <1>1, <1>3, <1>4, <1>5
  <1>8. Cardinality(Inside(B, Counted(w))) <= Counted(w).count
    BY <1>1, <1>7 DEF RateWindow
  <1>9. \A b \in B : b.time < Counted(w).until
    <2>1. \A b \in A : b.time < w.until
      BY DEF Fits
    <2>2. QED
      BY <1>1, <2>1
  <1>10. Counted(w).until <= t + Minute /\ Counted(w).count <= R
    BY <1>1, <1>6 DEF Fits
  <1>11. Cardinality(Before(B, Counted(w))) <= R
    BY <1>3 DEF Fits
  <1>12. QED
    BY <1>7, <1>8, <1>9, <1>10, <1>11 DEF Fits

\* A tick forgets admissions before a running window only.
LEMMA TickFits ==
  ASSUME NEW A, NEW t \in Nat, NEW u \in Nat, u = t + 1, OfTheMinute(A, t), NEW w \in RateWindow, NEW R \in Nat,
         Fits(A, w, R, t)
  PROVE  Fits({a \in A : a.time > u - Minute}, w, R, u)
  <1> DEFINE B == {a \in A : a.time > u - Minute}
  <1>0. \A a \in A : a.time \in Nat
    BY DEF OfTheMinute, Admissions
  <1>1. OfTheMinute(B, t)
    <2>1. B \subseteq A
      OBVIOUS
    <2>2. IsFiniteSet(B)
      BY <2>1, FS_Subset DEF OfTheMinute
    <2>3. QED
      BY <2>1, <2>2 DEF OfTheMinute
  <1>2. Before(B, w) \subseteq Before(A, w) /\ Inside(B, w) \subseteq Inside(A, w)
    BY DEF Before, Inside
  <1>3. /\ Cardinality(Before(B, w)) <= Cardinality(Before(A, w))
        /\ Cardinality(Inside(B, w)) <= Cardinality(Inside(A, w))
    BY <1>2, SplitIs, FS_Subset
  <1>4. Cardinality(Before(B, w)) \in Nat /\ Cardinality(Inside(B, w)) \in Nat
    BY <1>1, SplitIs
  <1>5. Cardinality(Before(A, w)) \in Nat /\ Cardinality(Inside(A, w)) \in Nat
    BY SplitIs
  <1>6. ASSUME u < w.until
        PROVE  Cardinality(Inside(B, w)) = w.count
    <2>1. \A a \in A : a.time >= w.until - Minute => a.time > u - Minute
      BY <1>0, <1>6, AdmissionAssumption DEF RateWindow
    <2>2. Inside(B, w) = Inside(A, w)
      BY <2>1 DEF Inside
    <2>3. t < w.until
      BY <1>6 DEF RateWindow
    <2>4. QED
      BY <2>2, <2>3 DEF Fits
  <1>7. w.until <= u + Minute
    BY AdmissionAssumption DEF Fits, RateWindow
  <1>8. Cardinality(Before(B, w)) <= R /\ Cardinality(Inside(B, w)) <= w.count
    BY <1>3, <1>4, <1>5 DEF Fits, RateWindow
  <1>9. (\A a \in B : a.time < w.until) /\ w.count <= R
    BY DEF Fits
  <1>10. QED
    BY <1>6, <1>7, <1>8, <1>9 DEF Fits

\* Two windows at most overlap a minute.
LEMMA TwoWindows ==
  ASSUME NEW A, NEW t \in Nat, OfTheMinute(A, t), NEW w \in RateWindow, NEW R \in Nat,
         Fits(A, w, R, t)
  PROVE  Cardinality(A) <= 2 * R
  BY SplitIs DEF Fits, RateWindow

-----------------------------------------------------------------------------
\* The strengthening.  What the history holds:
HistoryTypeOK ==
  /\ TypeOK
  /\ OfTheMinute(admitted, now)
  /\ attempted \in [Sources -> SUBSET Nat]
  /\ \A s \in Sources : \A t \in attempted[s] : t > now - Minute /\ t <= now
  /\ IsFiniteSet(Callers)

\* the numbers of an address's admissions in a tick are below their number,
\* so that the next one is new;
Numbered == \A a \in admitted : a.nth < Cardinality(At(a.source, a.time))

\* and how the limiter's windows fit it.  An address without an entry can be
\* forgotten, and one whose entry still counts called when its window began.
AddressFits(s) ==
  IF s \in DOMAIN sources
  THEN /\ Fits(From(s), sources[s], RequestsPerIpMinute, now)
       /\ sources[s].until > now => sources[s].until - Minute \in attempted[s]
  ELSE Past(From(s), RequestsPerIpMinute, now)

WindowsFit ==
  /\ Fits(admitted, global, RequestsPerMinute, now)
  /\ \A s \in Sources : AddressFits(s)

HistoryInv == HistoryTypeOK /\ Numbered /\ WindowsFit

LEMMA FromIs ==
  ASSUME HistoryTypeOK, NEW s \in Sources
  PROVE  OfTheMinute(From(s), now)
  <1>1. From(s) \subseteq admitted
    BY DEF From
  <1>2. IsFiniteSet(From(s))
    BY <1>1, FS_Subset DEF HistoryTypeOK, OfTheMinute
  <1>3. QED
    BY <1>1, <1>2 DEF HistoryTypeOK, OfTheMinute

\* The windows enter() works with, refreshed where they had run out, fit too.
LEMMA RefreshedFit ==
  ASSUME HistoryInv
  PROVE  /\ GlobalWindow \in RateWindow
         /\ now < GlobalWindow.until
         /\ Fits(admitted, GlobalWindow, RequestsPerMinute, now)
         /\ \A s \in Sources :
              /\ SourceWindow(s) \in RateWindow
              /\ now < SourceWindow(s).until
              /\ Fits(From(s), SourceWindow(s), RequestsPerIpMinute, now)
              /\ s \notin Tracked => Past(From(s), RequestsPerIpMinute, now)
              /\ s \in Tracked => sources[s].until - Minute \in attempted[s]
              /\ s \notin Tracked => SourceWindow(s).until - Minute = now
  <1> USE AdmissionAssumption
  <1>0. TypeOK /\ now \in Nat /\ OfTheMinute(admitted, now) /\ global \in RateWindow
    BY DEF HistoryInv, HistoryTypeOK, TypeOK
  <1>1. /\ Fresh \in RateWindow /\ Fresh.count = 0 /\ Fresh.until = now + Minute
        /\ now < Fresh.until
    BY <1>0 DEF Fresh, RateWindow
  <1>2. /\ GlobalWindow \in RateWindow
        /\ now < GlobalWindow.until
        /\ Fits(admitted, GlobalWindow, RequestsPerMinute, now)
    <2>1. Fits(admitted, global, RequestsPerMinute, now)
      BY DEF HistoryInv, WindowsFit
    <2>2. CASE now >= global.until
      <3>1. Past(admitted, RequestsPerMinute, now)
        BY <1>0, <2>1, <2>2, ExpiredIsPast DEF RateWindow
      <3>2. Fits(admitted, Fresh, RequestsPerMinute, now)
        BY <1>0, <1>1, <3>1, FreshFits
      <3>3. QED
        BY <1>1, <2>2, <3>2 DEF GlobalWindow
    <2>3. CASE ~(now >= global.until)
      BY <1>0, <2>1, <2>3 DEF GlobalWindow, RateWindow
    <2>4. QED
      BY <2>2, <2>3
  <1>3. ASSUME NEW s \in Sources
        PROVE  /\ SourceWindow(s) \in RateWindow
               /\ now < SourceWindow(s).until
               /\ Fits(From(s), SourceWindow(s), RequestsPerIpMinute, now)
               /\ s \notin Tracked => Past(From(s), RequestsPerIpMinute, now)
               /\ s \in Tracked => sources[s].until - Minute \in attempted[s]
               /\ s \notin Tracked => SourceWindow(s).until - Minute = now
    <2>1. OfTheMinute(From(s), now) /\ AddressFits(s)
      BY <1>3, FromIs DEF HistoryInv, WindowsFit
    <2>2. CASE s \in Tracked
      <3>1. s \in DOMAIN sources /\ sources[s].until > now /\ sources[s] \in RateWindow
        BY <1>0, <2>2 DEF Tracked, TypeOK
      <3>2. SourceWindow(s) = sources[s] /\ now < sources[s].until
        BY <1>0, <2>2, <3>1 DEF SourceWindow, RateWindow
      <3>3. QED
        BY <2>1, <2>2, <3>1, <3>2 DEF AddressFits
    <2>3. CASE s \notin Tracked
      <3>1. Past(From(s), RequestsPerIpMinute, now)
        <4>1. CASE s \in DOMAIN sources
          <5>1. sources[s] \in RateWindow /\ ~(sources[s].until > now)
            BY <1>0, <2>3, <4>1 DEF Tracked, TypeOK
          <5>2. sources[s].until <= now
            BY <1>0, <5>1 DEF RateWindow
          <5>3. QED
            BY <1>0, <2>1, <4>1, <5>1, <5>2, ExpiredIsPast DEF AddressFits
        <4>2. CASE s \notin DOMAIN sources
          BY <2>1, <4>2 DEF AddressFits
        <4>3. QED
          BY <4>1, <4>2
      <3>2. Fits(From(s), Fresh, RequestsPerIpMinute, now)
        BY <1>0, <1>1, <2>1, <3>1, FreshFits
      <3>3. Fresh.until - Minute = now
        BY <1>0, <1>1
      <3>4. QED
        BY <1>1, <2>3, <3>1, <3>2, <3>3 DEF SourceWindow
    <2>4. QED
      BY <2>2, <2>3
  <1>4. QED
    BY <1>2, <1>3

-----------------------------------------------------------------------------
LEMMA HistoryInvInit == HistoryInit => HistoryInv
  <1> SUFFICES ASSUME HistoryInit
               PROVE  HistoryInv
    OBVIOUS
  <1> USE AdmissionAssumption
  <1>0. IsFiniteSet({}) /\ Cardinality({}) = 0
    BY FS_EmptySet
  <1>1. admitted = {} /\ attempted = [s \in Sources |-> {}] /\ Init
    BY DEF HistoryInit
  <1>2. now = 0 /\ global = [count |-> 0, until |-> 0] /\ DOMAIN sources = {}
    BY <1>1 DEF Init
  <1>3. HistoryTypeOK
    <2>1. Callers = {}
      BY <1>1 DEF Callers
    <2>2. QED
      BY <1>0, <1>1, <2>1, TypeInit DEF HistoryTypeOK, OfTheMinute
  <1>4. Numbered
    BY <1>1 DEF Numbered
  <1>5. Fits(admitted, global, RequestsPerMinute, now)
    <2>1. Before(admitted, global) = {} /\ Inside(admitted, global) = {}
      BY <1>1 DEF Before, Inside
    <2>2. global.until = 0 /\ global.count = 0
      BY <1>2
    <2>3. \A a \in admitted : a.time < global.until
      BY <1>1
    <2>4. now = 0 /\ global.until <= now + Minute /\ ~(now < global.until)
      BY <1>2
    <2>5. /\ global.count <= RequestsPerMinute
          /\ Cardinality(Before(admitted, global)) <= RequestsPerMinute
          /\ Cardinality(Inside(admitted, global)) <= global.count
      BY <1>0, <2>1, <2>2
    <2>6. QED
      BY <2>3, <2>4, <2>5 DEF Fits
  <1>6. ASSUME NEW s \in Sources
        PROVE  AddressFits(s)
    <2>1. From(s) = {}
      BY <1>1 DEF From
    <2>2. QED
      BY <1>0, <1>2, <2>1 DEF AddressFits, Past
  <1>7. QED
    BY <1>3, <1>4, <1>5, <1>6 DEF HistoryInv, WindowsFit

\* A call of enter(): what the history holds.
LEMMA EnterHolds ==
  ASSUME HistoryInv, NEW r \in Requests, NEW s \in Sources, HistoryEnter(r, s)
  PROVE  /\ HistoryTypeOK'
         /\ Numbered'
         /\ now' = now
         /\ attempted' = [attempted EXCEPT ![s] = @ \cup {now}]
         /\ \/ UNCHANGED admitted /\ (EnterTableFull(s) \/ EnterAtLimit(s))
            \/ /\ EnterAdmitted(r, s)
               /\ admitted' = admitted \cup {Admission(s)}
               /\ Admission(s) \in Admissions
               /\ Admission(s) \notin admitted
  <1> USE AdmissionAssumption
  <1>0. TypeOK /\ now \in Nat /\ active \in Int /\ IsFiniteSet(admitted) /\ admitted \subseteq Admissions
    BY DEF HistoryInv, HistoryTypeOK, TypeOK, OfTheMinute
  <1>1. now' = now /\ Enter(r, s)
    BY DEF HistoryEnter, Enter, EnterTableFull, EnterAtLimit, EnterAdmitted
  <1>2. attempted' = [attempted EXCEPT ![s] = @ \cup {now}]
    BY DEF HistoryEnter
  <1>3. TypeOK'
    BY <1>0, <1>1, TypeStep DEF Next
  <1>4. /\ attempted' \in [Sources -> SUBSET Nat]
        /\ \A x \in Sources : \A t \in attempted'[x] : t > now' - Minute /\ t <= now'
    BY <1>0, <1>1, <1>2 DEF HistoryInv, HistoryTypeOK
  <1>5. IsFiniteSet(Callers')
    <2>1. Callers' \subseteq Callers \cup {s}
      BY <1>2 DEF Callers, HistoryInv, HistoryTypeOK
    <2>2. IsFiniteSet(Callers \cup {s})
      BY FS_AddElement DEF HistoryInv, HistoryTypeOK
    <2>3. QED
      BY <2>1, <2>2, FS_Subset
  <1>6. CASE EnterTableFull(s) \/ EnterAtLimit(s)
    <2>1. active' = active
      BY <1>6 DEF EnterTableFull, EnterAtLimit
    <2>2. admitted' = admitted
      BY <1>0, <2>1 DEF HistoryEnter
    <2>3. Numbered'
      BY <2>2 DEF Numbered, At, HistoryInv
    <2>4. OfTheMinute(admitted', now')
      BY <1>1, <2>2 DEF HistoryInv, HistoryTypeOK
    <2>5. QED
      BY <1>1, <1>2, <1>3, <1>4, <1>5, <1>6, <2>2, <2>3, <2>4 DEF HistoryTypeOK, OfTheMinute
  <1>7. CASE EnterAdmitted(r, s)
    <2> DEFINE a == Admission(s)
    <2>1. active' > active
      BY <1>0, <1>7 DEF EnterAdmitted
    <2>2. admitted' = admitted \cup {a}
      BY <2>1 DEF HistoryEnter
    <2>3. IsFiniteSet(At(s, now)) /\ Cardinality(At(s, now)) \in Nat
      <3>1. At(s, now) \subseteq admitted
        BY DEF At
      <3>2. QED
        BY <1>0, <3>1, FS_Subset, FS_CardinalityType
    <2>4. a.source = s /\ a.time = now /\ a.nth = Cardinality(At(s, now)) /\ a \in Admissions
      BY <1>0, <2>3 DEF Admission, Admissions
    <2>5. a \notin admitted
      <3>1. ASSUME a \in admitted
            PROVE  FALSE
        BY <2>3, <2>4, <3>1 DEF Numbered, HistoryInv
      <3>2. QED
        BY <3>1
    <2>6. OfTheMinute(admitted', now')
      <3>1. IsFiniteSet(admitted')
        BY <1>0, <2>2, FS_AddElement
      <3>2. QED
        BY <1>0, <1>1, <2>2, <2>4, <3>1 DEF HistoryInv, HistoryTypeOK, OfTheMinute
    <2>7. Numbered'
      <3>1. ASSUME NEW b \in admitted'
            PROVE  b.nth < Cardinality(At(b.source, b.time)')
        <4>1. CASE b.source = s /\ b.time = now
          <5>1. At(b.source, b.time)' = At(s, now) \cup {a} /\ a \notin At(s, now)
            BY <2>2, <2>4, <2>5, <4>1 DEF At
          <5>2. Cardinality(At(b.source, b.time)') = Cardinality(At(s, now)) + 1
            BY <2>3, <5>1, FS_AddElement
          <5>3. b.nth <= Cardinality(At(s, now)) /\ b.nth \in Nat
            <6>1. CASE b \in admitted
              <7>1. b.nth < Cardinality(At(s, now)) /\ b.nth \in Nat
                BY <1>0, <4>1, <6>1 DEF Numbered, HistoryInv, Admissions
              <7>2. QED
                BY <2>3, <7>1
            <6>2. CASE b = a
              BY <2>3, <2>4, <6>2
            <6>3. QED
              BY <2>2, <3>1, <6>1, <6>2
          <5>4. QED
            BY <2>3, <5>2, <5>3
        <4>2. CASE ~(b.source = s /\ b.time = now)
          <5>1. b \in admitted
            BY <2>2, <2>4, <3>1, <4>2
          <5>2. At(b.source, b.time)' = At(b.source, b.time)
            BY <2>2, <2>4, <4>2 DEF At
          <5>3. QED
            BY <5>1, <5>2 DEF Numbered, HistoryInv
        <4>3. QED
          BY <4>1, <4>2
      <3>2. QED
        BY <3>1 DEF Numbered, At
    <2>8. HistoryTypeOK'
      BY <1>3, <1>4, <1>5, <2>6 DEF HistoryTypeOK, OfTheMinute
    <2>9. QED
      BY <1>1, <1>2, <1>7, <2>2, <2>4, <2>5, <2>7, <2>8
  <1>8. QED
    BY <1>1, <1>6, <1>7 DEF Enter

LEMMA EnterFits ==
  ASSUME HistoryInv, NEW r \in Requests, NEW s \in Sources, HistoryEnter(r, s)
  PROVE  WindowsFit'
  <1> USE AdmissionAssumption
  <1>0. /\ TypeOK /\ now \in Nat /\ now' = now /\ OfTheMinute(admitted, now)
        /\ attempted \in [Sources -> SUBSET Nat]
    BY EnterHolds DEF HistoryInv, HistoryTypeOK, TypeOK
  <1>1. /\ now \in attempted'[s]
        /\ \A x \in Sources : attempted[x] \subseteq attempted'[x]
    BY <1>0, EnterHolds
  <1>2. Tracked \subseteq Sources
    BY <1>0, WindowTypes
  \* A tracked address keeps its entry; a forgotten one is past.
  <1>3. ASSUME NEW x \in Sources, From(x)' = From(x),
               \/ /\ x \in DOMAIN sources'
                  /\ sources'[x] = SourceWindow(x)
                  /\ x \in Tracked \/ x = s
               \/ x \notin DOMAIN sources' /\ x \notin Tracked
        PROVE  AddressFits(x)'
    <2>1. CASE x \in DOMAIN sources'
      <3>1. sources'[x] = SourceWindow(x) /\ (x \in Tracked \/ x = s)
        BY <1>3, <2>1
      <3>2. Fits(From(x)', sources'[x], RequestsPerIpMinute, now')
        BY <1>0, <1>3, <3>1, RefreshedFit
      <3>3. sources'[x].until - Minute \in attempted'[x]
        <4>1. CASE x \in Tracked
          <5>1. SourceWindow(x) = sources[x]
            BY <4>1 DEF SourceWindow
          <5>2. QED
            BY <1>1, <3>1, <4>1, <5>1, RefreshedFit
        <4>2. CASE x \notin Tracked
          BY <1>1, <3>1, <4>2, RefreshedFit
        <4>3. QED
          BY <4>1, <4>2
      <3>4. QED
        BY <2>1, <3>2, <3>3 DEF AddressFits, Fits, Before, Inside
    <2>2. CASE x \notin DOMAIN sources'
      <3>1. Past(From(x)', RequestsPerIpMinute, now')
        BY <1>0, <1>3, <2>2, RefreshedFit
      <3>2. QED
        BY <2>2, <3>1 DEF AddressFits, Past
    <2>3. QED
      BY <2>1, <2>2
  <1>4. CASE UNCHANGED admitted /\ (EnterTableFull(s) \/ EnterAtLimit(s))
    <2>1. \A x \in Sources : From(x)' = From(x)
      BY <1>4 DEF From
    <2>2. global' = GlobalWindow
      BY <1>4 DEF EnterTableFull, EnterAtLimit
    <2>3. Fits(admitted', global', RequestsPerMinute, now')
      BY <1>0, <1>4, <2>2, RefreshedFit
    <2>4. ASSUME NEW x \in Sources
          PROVE  \/ /\ x \in DOMAIN sources'
                    /\ sources'[x] = SourceWindow(x)
                    /\ x \in Tracked \/ x = s
                 \/ x \notin DOMAIN sources' /\ x \notin Tracked
      <3>1. CASE EnterTableFull(s)
        BY <3>1 DEF EnterTableFull, SourceWindow
      <3>2. CASE EnterAtLimit(s)
        BY <3>2 DEF EnterAtLimit, Table, SourceWindow
      <3>3. QED
        BY <1>4, <3>1, <3>2
    <2>5. \A x \in Sources : AddressFits(x)'
      BY <1>3, <2>1, <2>4
    <2>6. QED
      BY <2>3, <2>5 DEF WindowsFit, Fits, Before, Inside
  <1>5. CASE /\ EnterAdmitted(r, s)
             /\ admitted' = admitted \cup {Admission(s)}
             /\ Admission(s) \in Admissions
             /\ Admission(s) \notin admitted
    <2> DEFINE a == Admission(s)
    <2>1. a.source = s /\ a.time = now
      BY DEF Admission
    <2>2. From(s)' = From(s) \cup {a} /\ a \notin From(s)
      BY <1>5, <2>1 DEF From
    <2>3. \A x \in Sources : x # s => From(x)' = From(x)
      BY <1>5, <2>1 DEF From
    <2>4. /\ GlobalWindow.count < RequestsPerMinute
          /\ SourceWindow(s).count < RequestsPerIpMinute
      <3>1. GlobalWindow \in RateWindow /\ SourceWindow(s) \in RateWindow
        BY RefreshedFit
      <3>2. QED
        BY <1>5, <3>1 DEF EnterAdmitted, Admits, AtLimit, RateWindow
    <2>5. global' = Counted(GlobalWindow) /\ sources' = Table(s, Counted(SourceWindow(s)))
      BY <1>5 DEF EnterAdmitted
    <2>6. Fits(admitted', global', RequestsPerMinute, now')
      BY <1>0, <1>5, <2>1, <2>4, <2>5, RefreshedFit, CountedFits
    <2>7. AddressFits(s)'
      <3>1. sources'[s] = Counted(SourceWindow(s)) /\ s \in DOMAIN sources'
        BY <2>5 DEF Table
      <3>2. Fits(From(s)', sources'[s], RequestsPerIpMinute, now')
        <4>1. OfTheMinute(From(s), now)
          BY FromIs DEF HistoryInv
        <4>2. QED
          BY <1>0, <1>5, <2>1, <2>2, <2>4, <3>1, <4>1, RefreshedFit, CountedFits
      <3>3. sources'[s].until = SourceWindow(s).until
        BY <3>1, RefreshedFit DEF Counted, RateWindow
      <3>4. sources'[s].until - Minute \in attempted'[s]
        <4>1. CASE s \in Tracked
          <5>1. SourceWindow(s) = sources[s]
            BY <4>1 DEF SourceWindow
          <5>2. QED
            BY <1>1, <3>3, <4>1, <5>1, RefreshedFit
        <4>2. CASE s \notin Tracked
          BY <1>1, <3>3, <4>2, RefreshedFit
        <4>3. QED
          BY <4>1, <4>2
      <3>5. QED
        BY <3>1, <3>2, <3>4 DEF AddressFits, Fits, Before, Inside
    <2>8. ASSUME NEW x \in Sources, x # s
          PROVE  AddressFits(x)'
      <3>1. \/ /\ x \in DOMAIN sources'
               /\ sources'[x] = SourceWindow(x)
               /\ x \in Tracked \/ x = s
            \/ x \notin DOMAIN sources' /\ x \notin Tracked
        BY <2>5, <2>8 DEF Table, SourceWindow
      <3>2. QED
        BY <1>3, <2>3, <2>8, <3>1
    <2>9. QED
      BY <2>6, <2>7, <2>8 DEF WindowsFit, Fits, Before, Inside
  <1>6. QED
    BY <1>4, <1>5, EnterHolds

LEMMA TickKeepsHistory ==
  ASSUME HistoryInv, HistoryTick
  PROVE  HistoryInv'
  <1> USE AdmissionAssumption
  <1>0. /\ TypeOK /\ now \in Nat /\ OfTheMinute(admitted, now) /\ global \in RateWindow
        /\ attempted \in [Sources -> SUBSET Nat]
    BY DEF HistoryInv, HistoryTypeOK, TypeOK
  <1>1. now' = now + 1 /\ now' \in Nat /\ global' = global /\ sources' = sources
    BY <1>0 DEF HistoryTick, Tick
  <1>2. /\ attempted' = [s \in Sources |-> {t \in attempted[s] : t > now' - Minute}]
        /\ admitted' = {a \in admitted : a.time > now' - Minute}
    BY DEF HistoryTick
  <1>3. TypeOK'
    BY <1>0, TypeStep DEF HistoryTick, Next
  <1>4. OfTheMinute(admitted', now')
    <2>1. admitted' \subseteq admitted
      BY <1>2
    <2>2. IsFiniteSet(admitted')
      BY <1>0, <2>1, FS_Subset DEF OfTheMinute
    <2>3. \A a \in admitted : a.time \in Nat
      BY <1>0 DEF OfTheMinute, Admissions
    <2>4. \A a \in admitted' : a.time > now' - Minute /\ a.time <= now'
      BY <1>0, <1>1, <1>2, <2>1, <2>3 DEF OfTheMinute
    <2>5. QED
      BY <1>0, <2>1, <2>2, <2>4 DEF OfTheMinute
  <1>5. /\ attempted' \in [Sources -> SUBSET Nat]
        /\ \A s \in Sources : \A t \in attempted'[s] : t > now' - Minute /\ t <= now'
    BY <1>0, <1>1, <1>2 DEF HistoryInv, HistoryTypeOK
  <1>6. IsFiniteSet(Callers')
    <2>1. Callers' \subseteq Callers
      BY <1>2 DEF Callers
    <2>2. QED
      BY <2>1, FS_Subset DEF HistoryInv, HistoryTypeOK
  <1>7. Numbered'
    <2>1. ASSUME NEW a \in admitted'
          PROVE  a.nth < Cardinality(At(a.source, a.time)')
      <3>1. a \in admitted /\ a.time > now' - Minute
        BY <1>2, <2>1
      <3>2. At(a.source, a.time)' = At(a.source, a.time)
        BY <1>2, <3>1 DEF At
      <3>3. QED
        BY <3>1, <3>2 DEF HistoryInv, Numbered
    <2>2. QED
      BY <2>1 DEF Numbered, At
  <1>8. Fits(admitted', global', RequestsPerMinute, now')
    <2>1. Fits(admitted, global, RequestsPerMinute, now)
      BY DEF HistoryInv, WindowsFit
    <2>2. QED
      BY <1>0, <1>1, <1>2, <2>1, TickFits
  <1>9. ASSUME NEW s \in Sources
        PROVE  AddressFits(s)'
    <2>1. From(s)' = {a \in From(s) : a.time > now' - Minute}
      BY <1>2 DEF From
    <2>2. OfTheMinute(From(s), now) /\ AddressFits(s)
      BY <1>9, FromIs DEF HistoryInv, WindowsFit
    <2>3. CASE s \in DOMAIN sources
      <3>1. sources[s] \in RateWindow
        BY <1>0, <2>3 DEF TypeOK
      <3>2. Fits(From(s)', sources'[s], RequestsPerIpMinute, now')
        BY <1>0, <1>1, <2>1, <2>2, <2>3, <3>1, TickFits DEF AddressFits
      <3>3. sources[s].until > now' => sources[s].until - Minute \in attempted'[s]
        BY <1>0, <1>1, <1>2, <2>2, <2>3, <3>1 DEF AddressFits, RateWindow
      <3>4. QED
        BY <1>1, <2>3, <3>2, <3>3 DEF AddressFits, Fits, Before, Inside
    <2>4. CASE s \notin DOMAIN sources
      <3>1. Past(From(s), RequestsPerIpMinute, now)
        BY <2>2, <2>4 DEF AddressFits
      <3>2. From(s)' \subseteq From(s) /\ \A a \in From(s) : a.time \in Nat
        BY <2>1, <2>2 DEF OfTheMinute, Admissions
      <3>3. Cardinality(From(s)') <= Cardinality(From(s))
        BY <2>2, <3>2, FS_Subset DEF OfTheMinute
      <3>4. Cardinality(From(s)') \in Nat /\ Cardinality(From(s)) \in Nat
        BY <2>2, <3>2, FS_Subset, FS_CardinalityType DEF OfTheMinute
      <3>5. Past(From(s)', RequestsPerIpMinute, now')
        BY <1>0, <1>1, <3>1, <3>2, <3>3, <3>4 DEF Past
      <3>6. QED
        BY <1>1, <2>4, <3>5 DEF AddressFits, Past
    <2>5. QED
      BY <2>3, <2>4
  <1>10. QED
    BY <1>3, <1>4, <1>5, <1>6, <1>7, <1>8, <1>9
       DEF HistoryInv, HistoryTypeOK, WindowsFit, OfTheMinute, Fits, Before, Inside

LEMMA HistoryInvStep == HistoryInv /\ [HistoryNext]_historyVars => HistoryInv'
  <1> SUFFICES ASSUME HistoryInv, [HistoryNext]_historyVars
               PROVE  HistoryInv'
    OBVIOUS
  <1>1. ASSUME NEW r \in Requests, NEW s \in Sources, HistoryEnter(r, s)
        PROVE  HistoryInv'
    BY <1>1, EnterHolds, EnterFits DEF HistoryInv
  <1>2. ASSUME UNCHANGED <<now, global, sources, admitted, attempted>>, TypeOK'
        PROVE  HistoryInv'
    BY <1>2 DEF HistoryInv, HistoryTypeOK, OfTheMinute, Callers, Numbered, At,
                WindowsFit, AddressFits, From, Fits, Past, Before, Inside
  <1>3. ASSUME NEW r \in Requests, Finish(r) \/ Close(r), UNCHANGED <<admitted, attempted>>
        PROVE  HistoryInv'
    <2>1. TypeOK'
      BY <1>3, TypeStep DEF Next, HistoryInv, HistoryTypeOK
    <2>2. QED
      BY <1>2, <1>3, <2>1 DEF Finish, Close
  <1>4. CASE HistoryTick
    BY <1>4, TickKeepsHistory
  <1>5. CASE UNCHANGED historyVars
    <2>1. TypeOK'
      BY <1>5, TypeStep DEF historyVars, admissionVars, HistoryInv, HistoryTypeOK
    <2>2. QED
      BY <1>2, <1>5, <2>1 DEF historyVars
  <1>6. QED
    BY <1>1, <1>3, <1>4, <1>5 DEF HistoryNext

-----------------------------------------------------------------------------
THEOREM HistoryCorrect == HistorySpec => []HistoryInv
  BY HistoryInvInit, HistoryInvStep, PTL DEF HistorySpec

\* However calls, refusals and expiries follow each other, no minute admits
\* more than two windows of a fixed-window limiter would: a window expires
\* only when the admissions it counted are a minute old (limits.ts:44-63).
THEOREM RateIsBounded == HistorySpec => []AtMostTwoWindowsAMinute
  <1>1. HistoryInv => AtMostTwoWindowsAMinute
    <2> SUFFICES ASSUME HistoryInv
                 PROVE  AtMostTwoWindowsAMinute
      OBVIOUS
    <2> USE AdmissionAssumption
    <2>0. /\ now \in Nat /\ OfTheMinute(admitted, now)
          /\ Fits(admitted, GlobalWindow, RequestsPerMinute, now) /\ GlobalWindow \in RateWindow
      BY RefreshedFit DEF HistoryInv, HistoryTypeOK, TypeOK
    <2>1. Cardinality(admitted) <= 2 * RequestsPerMinute
      BY <2>0, TwoWindows
    <2>2. ASSUME NEW s \in Sources
          PROVE  Cardinality(From(s)) <= 2 * RequestsPerIpMinute
      <3>1. OfTheMinute(From(s), now)
        BY FromIs DEF HistoryInv
      <3>2. QED
        BY <2>0, <3>1, RefreshedFit, TwoWindows
    <2>3. QED
      BY <2>1, <2>2 DEF AtMostTwoWindowsAMinute
  <1>2. QED
    BY <1>1, HistoryCorrect, PTL

\* Nobody is refused for what is more than a minute old: an address that a
\* limiter counting the last minute exactly would let in is let in, whatever
\* filled the table or was refused before (limits.ts:44-60).
THEOREM RefusalsAreFresh == HistorySpec => []NoStaleRefusal
  <1>1. HistoryInv => NoStaleRefusal
    <2> SUFFICES ASSUME HistoryInv, NEW s \in Sources,
                        active < ConcurrentRequests,
                        Cardinality(admitted) < RequestsPerMinute,
                        Cardinality(From(s)) < RequestsPerIpMinute,
                        Cardinality(Callers \ {s}) < SourceEntries
                 PROVE  Admits(s)
      BY DEF NoStaleRefusal
    <2> USE AdmissionAssumption
    <2>0. /\ TypeOK /\ now \in Nat /\ active \in Int /\ OfTheMinute(admitted, now)
          /\ OfTheMinute(From(s), now)
      BY FromIs DEF HistoryInv, HistoryTypeOK, TypeOK
    <2>1. GlobalWindow.count < RequestsPerMinute
      <3>1. Fits(admitted, GlobalWindow, RequestsPerMinute, now) /\ GlobalWindow \in RateWindow
            /\ now < GlobalWindow.until
        BY RefreshedFit
      <3>2. Cardinality(Inside(admitted, GlobalWindow)) = GlobalWindow.count
        BY <3>1 DEF Fits
      <3>3. QED
        BY <2>0, <3>1, <3>2, SplitIs
    <2>2. SourceWindow(s).count < RequestsPerIpMinute
      <3>1. Fits(From(s), SourceWindow(s), RequestsPerIpMinute, now) /\ SourceWindow(s) \in RateWindow
            /\ now < SourceWindow(s).until
        BY RefreshedFit
      <3>2. Cardinality(Inside(From(s), SourceWindow(s))) = SourceWindow(s).count
        BY <3>1 DEF Fits
      <3>3. QED
        BY <2>0, <3>1, <3>2, SplitIs
    <2>3. HasEntry(s)
      <3>1. SUFFICES ASSUME s \notin Tracked
                     PROVE  Cardinality(Tracked) < SourceEntries
        BY DEF HasEntry
      <3>2. Tracked \subseteq Callers \ {s}
        <4>1. \A x \in Tracked : x \in Sources /\ attempted[x] # {}
          BY <2>0, RefreshedFit, WindowTypes
        <4>2. QED
          BY <3>1, <4>1 DEF Callers
      <3>3. IsFiniteSet(Callers \ {s})
        BY FS_RemoveElement DEF HistoryInv, HistoryTypeOK
      <3>4. /\ Cardinality(Tracked) <= Cardinality(Callers \ {s})
            /\ Cardinality(Tracked) \in Nat /\ Cardinality(Callers \ {s}) \in Nat
        BY <3>2, <3>3, FS_Subset, FS_CardinalityType
      <3>5. QED
        BY <3>4
    <2>4. ~AtLimit(s)
      <3>1. GlobalWindow \in RateWindow /\ SourceWindow(s) \in RateWindow
        BY RefreshedFit
      <3>2. QED
        BY <2>0, <2>1, <2>2, <3>1 DEF AtLimit, RateWindow
    <2>5. QED
      BY <2>3, <2>4 DEF Admits
  <1>2. QED
    BY <1>1, HistoryCorrect, PTL

-----------------------------------------------------------------------------
(* Service: every step is a step of Admission, or leaves it alone.         *)

LEMMA ServiceStepAdmits == [ServiceNext]_serviceVars => [Next]_admissionVars
  BY DEF ServiceNext, serviceVars, admissionVars, Next, Arrive, Body, LookupEnds, Deadline,
         Sent, Gone, SocketClosed, Clock

\* The service keeps to its admission control: whatever the handlers, deadlines and
\* lost clients do, what is proved of Admission holds of it.
THEOREM ServiceAdmits == ServiceSpec => Spec
  BY ServiceStepAdmits, PTL DEF ServiceSpec, ServiceInit, Spec

-----------------------------------------------------------------------------
(* The inductive invariant                                                 *)

Handlers == {"none", "receiving", "running", "done"}

ServiceTypeOK ==
  /\ handler \in [Requests -> Handlers]
  /\ types \in [Requests -> Nat]
  /\ lookups \in [Requests -> Seq(Outcomes)]
  /\ expired \in [Requests -> BOOLEAN]
  /\ reply \in [Requests -> Replies \cup {"none"}]
  /\ closing \in Nat

\* What answer a says of n types with outcomes os, in time or too late.
Truthful(n, os, late, a) ==
  /\ Len(os) = n
  /\ a = "INVALID_INPUT" <=> n = 0
  /\ n > 0 /\ (\E i \in DOMAIN os : os[i] \notin Failures) =>
       \/ a = "LIMIT_EXCEEDED"
       \/ ~late /\ (\A i \in DOMAIN os : os[i] = "answer") /\ a = "result"
       \/ (late \/ \E i \in DOMAIN os : os[i] # "answer") /\ a = "partial"
  /\ n > 0 /\ (\A i \in DOMAIN os : os[i] \in Failures) =>
       a = IF late THEN "TIMEOUT" ELSE os[1]

\* How far the request has come, by its response, its handler and its reply.
Progress(r) ==
  /\ handler[r] = "none" <=> response[r] = "none"
  /\ handler[r] \in {"none", "receiving"} => types[r] = 0 /\ lookups[r] = <<>>
  /\ handler[r] \in {"receiving", "running"} => response[r] = "open"
  /\ handler[r] = "running" => Len(lookups[r]) < types[r]
  /\ handler[r] = "done" => reply[r] # "none" /\ Truthful(types[r], lookups[r], expired[r], reply[r])
  /\ handler[r] # "done" => reply[r] = "none" /\ ~expired[r]

ServiceInv ==
  /\ TypeOK /\ SlotInv /\ ServiceTypeOK
  /\ \A r \in Requests : Progress(r)
  /\ OutboundWithinCap

-----------------------------------------------------------------------------
LEMMA RestIs ==
  ASSUME NEW n \in Nat, NEW os \in Seq(Outcomes), Len(os) <= n, NEW aborted \in BOOLEAN
  PROVE  /\ Rest(n, os, aborted) \in Seq(Outcomes)
         /\ Len(Rest(n, os, aborted)) = n
         /\ \A i \in 1..Len(os) : Rest(n, os, aborted)[i] = os[i]
  <1> DEFINE more == [i \in 1..(n - Len(os)) |-> IF aborted THEN "TIMEOUT" ELSE "RATE_LIMITED"]
  <1>1. n - Len(os) \in Nat /\ Len(os) \in Nat
    OBVIOUS
  <1>2. more \in [1..(n - Len(os)) -> Outcomes]
    BY DEF Outcomes, Failures
  <1>3. more \in Seq(Outcomes) /\ Len(more) = n - Len(os)
    BY <1>1, <1>2
  <1> HIDE DEF more
  <1>4. /\ os \o more \in Seq(Outcomes)
        /\ Len(os \o more) = n
        /\ \A i \in 1..Len(os) : (os \o more)[i] = os[i]
    BY <1>1, <1>3
  <1>5. QED
    BY <1>4 DEF Rest, more

\* A report speaks the truth of the outcomes it is made of.
LEMMA ReportIsTruthful ==
  ASSUME NEW n \in Nat \ {0}, NEW os \in Seq(Outcomes), Len(os) = n,
         NEW aborted \in BOOLEAN, aborted => \E i \in DOMAIN os : os[i] = "TIMEOUT",
         NEW answer \in Report(os, aborted)
  PROVE  answer \in Replies /\ Truthful(n, os, aborted, answer)
  <1>1. 1 \in DOMAIN os /\ \A i \in DOMAIN os : os[i] \in Outcomes
    OBVIOUS
  <1>2. CASE \E i \in DOMAIN os : os[i] \notin Failures
    BY <1>1, <1>2 DEF Report, Truthful, Replies, Errors, Failures
  <1>3. CASE \A i \in DOMAIN os : os[i] \in Failures
    BY <1>1, <1>3 DEF Report, Truthful, Replies, Errors, Failures
  <1>4. QED
    BY <1>2, <1>3

\* What the tail of a turn of the handler leaves: another lookup under way and a
\* connection taken, or a reply that tells the truth.
LEMMA ProceedLeads ==
  ASSUME ServiceTypeOK, NEW r \in Requests, NEW n \in Nat \ {0},
         NEW os \in Seq(Outcomes), Len(os) <= n, NEW aborted \in BOOLEAN,
         aborted => \E i \in 1..Len(os) : os[i] = "TIMEOUT",
         Proceed(r, n, os, aborted)
  PROVE  /\ handler' \in [Requests -> Handlers]
         /\ lookups' \in [Requests -> Seq(Outcomes)]
         /\ reply' \in [Requests -> Replies \cup {"none"}]
         /\ \A q \in Requests \ {r} : /\ handler'[q] = handler[q]
                                     /\ lookups'[q] = lookups[q]
                                     /\ reply'[q] = reply[q]
         /\ \/ /\ handler'[r] = "running" /\ reply'[r] = reply[r]
               /\ Len(lookups'[r]) < n /\ ~aborted
               /\ InUse < OutboundConnections
            \/ /\ handler'[r] = "done" /\ reply'[r] # "none"
               /\ Truthful(n, lookups'[r], aborted, reply'[r])
  <1>1. CASE Len(os) < n /\ ~aborted /\ InUse < OutboundConnections
    <2>1. /\ handler' = [handler EXCEPT ![r] = "running"]
          /\ lookups' = [lookups EXCEPT ![r] = os]
          /\ reply' = reply
      BY <1>1 DEF Proceed
    <2>2. QED
      BY <1>1, <2>1 DEF ServiceTypeOK, Handlers
  <1>2. CASE ~(Len(os) < n /\ ~aborted /\ InUse < OutboundConnections)
    <2> DEFINE all == Rest(n, os, aborted)
    <2>1. PICK answer \in Report(all, aborted) :
             /\ handler' = [handler EXCEPT ![r] = "done"]
             /\ lookups' = [lookups EXCEPT ![r] = all]
             /\ reply' = [reply EXCEPT ![r] = answer]
      BY <1>2 DEF Proceed
    <2>2. /\ all \in Seq(Outcomes) /\ Len(all) = n
          /\ \A i \in 1..Len(os) : all[i] = os[i]
      BY RestIs
    <2> HIDE DEF all
    <2>3. aborted => \E i \in DOMAIN all : all[i] = "TIMEOUT"
      BY <2>2
    <2>4. answer \in Replies /\ Truthful(n, all, aborted, answer)
      BY <2>1, <2>2, <2>3, ReportIsTruthful
    <2>5. "none" \notin Replies
      BY DEF Replies, Errors, Failures
    <2>6. QED
      BY <2>1, <2>2, <2>4, <2>5 DEF ServiceTypeOK, Handlers
  <1>3. QED
    BY <1>1, <1>2

-----------------------------------------------------------------------------
\* Only requests that hold a slot run, so that they can be counted.
LEMMA RunningHold ==
  ASSUME SlotInv, \A r \in Requests : Progress(r)
  PROVE  /\ Running \subseteq Holding
         /\ IsFiniteSet(Running) /\ Cardinality(Running) \in Nat
  <1>1. Running \subseteq Holding
    BY DEF Running, Progress, SlotInv, SlotsAreOpenResponses
  <1>2. QED
    BY <1>1, FS_Subset, FS_CardinalityType DEF SlotInv

One(b) == IF b THEN 1 ELSE 0

\* When the handler of one request moves, the count follows.
LEMMA RunningMoves ==
  ASSUME IsFiniteSet(Running), Cardinality(Running) \in Nat,
         NEW r \in Requests, \A q \in Requests \ {r} : handler'[q] = handler[q]
  PROVE  /\ Cardinality(Running') \in Nat
         /\ Cardinality(Running') =
              Cardinality(Running) - One(handler[r] = "running") + One(handler'[r] = "running")
  <1>1. CASE handler[r] = "running" /\ handler'[r] # "running"
    <2>1. r \in Running /\ Running' = Running \ {r}
      BY <1>1 DEF Running
    <2>2. IsFiniteSet(Running') /\ Cardinality(Running') = Cardinality(Running) - 1
      BY <2>1, FS_RemoveElement
    <2>3. QED
      BY <1>1, <2>2, FS_CardinalityType DEF One
  <1>2. CASE handler[r] # "running" /\ handler'[r] = "running"
    <2>1. r \notin Running /\ Running' = Running \cup {r}
      BY <1>2 DEF Running
    <2>2. Cardinality(Running') = Cardinality(Running) + 1
      BY <2>1, FS_AddElement
    <2>3. QED
      BY <1>2, <2>2 DEF One
  <1>3. CASE handler[r] = "running" <=> handler'[r] = "running"
    <2>1. Running' = Running
      BY <1>3 DEF Running
    <2>2. QED
      BY <1>3, <2>1 DEF One
  <1>4. QED
    BY <1>1, <1>2, <1>3

\* A request that a step does not touch is as far as it was.
LEMMA ProgressFrame ==
  ASSUME NEW q \in Requests, Progress(q), handler'[q] = handler[q], response'[q] = response[q],
         types'[q] = types[q], lookups'[q] = lookups[q], expired'[q] = expired[q], reply'[q] = reply[q]
  PROVE  Progress(q)'
  BY DEF Progress

\* The parts of the invariant that speak of admission.
LEMMA AdmissionPart ==
  ASSUME ServiceInv, [ServiceNext]_serviceVars
  PROVE  TypeOK' /\ SlotInv'
  BY ServiceStepAdmits, TypeStep, SlotStep DEF ServiceInv

-----------------------------------------------------------------------------
(* One lemma for each group of actions: the rest of the invariant.         *)

Kept ==
  /\ ServiceTypeOK'
  /\ \A r \in Requests : Progress(r)'
  /\ OutboundWithinCap'

LEMMA ArriveKeeps ==
  ASSUME ServiceInv, NEW r \in Requests, NEW s \in Sources, NEW acceptable \in BOOLEAN,
         Arrive(r, s, acceptable)
  PROVE  Kept
  <1> USE DEF ServiceInv
  <1>1. CASE UNCHANGED <<response, handler, reply>>
    BY <1>1, ProgressFrame
       DEF Arrive, Kept, ServiceTypeOK, OutboundWithinCap, InUse, Running
  <1>2. CASE EnterAdmitted(r, s)
    <2>1. /\ response[r] = "none" /\ response' = [response EXCEPT ![r] = "open"]
          /\ response' \in [Requests -> {"none", "open", "finished"}]
          /\ response'[r] # response[r]
      BY <1>2 DEF EnterAdmitted, TypeOK
    <2>2. /\ handler' = [handler EXCEPT ![r] = IF acceptable THEN "receiving" ELSE "done"]
          /\ reply' = [reply EXCEPT ![r] = IF acceptable THEN "none" ELSE "INVALID_INPUT"]
          /\ UNCHANGED <<types, lookups, expired, closing>>
      BY <2>1 DEF Arrive
    <2>3. ServiceTypeOK'
      BY <2>2 DEF ServiceTypeOK, Handlers, Replies, Errors
    <2>4. Progress(r)'
      BY <2>1, <2>2 DEF ServiceTypeOK, Progress, Truthful, TypeOK, Failures
    <2>5. ASSUME NEW q \in Requests \ {r}  PROVE Progress(q)'
      BY <2>1, <2>2, ProgressFrame DEF ServiceTypeOK, TypeOK
    <2>6. Running' = Running
      BY <2>1, <2>2 DEF Running, ServiceTypeOK, Progress
    <2>7. OutboundWithinCap'
      BY <2>2, <2>6 DEF OutboundWithinCap, InUse
    <2>8. QED
      BY <2>3, <2>4, <2>5, <2>7 DEF Kept
  <1>3. QED
    <2>1. Enter(r, s)
      BY DEF Arrive
    <2>2. CASE EnterTableFull(s) \/ EnterAtLimit(s)
      <3>1. UNCHANGED response
        BY <2>2 DEF EnterTableFull, EnterAtLimit
      <3>2. UNCHANGED <<handler, reply>>
        BY <3>1 DEF Arrive
      <3>3. QED
        BY <1>1, <3>1, <3>2
    <2>3. QED
      BY <1>2, <2>1, <2>2 DEF Enter

LEMMA BodyKeeps ==
  ASSUME ServiceInv, NEW r \in Requests, NEW n \in 0..MaxTypes, Body(r, n)
  PROVE  Kept
  <1> USE DEF ServiceInv
  <1>1. /\ handler[r] = "receiving" /\ response[r] = "open" /\ reply[r] = "none"
        /\ lookups[r] = <<>>
        /\ types' = [types EXCEPT ![r] = n] /\ UNCHANGED <<response, expired, closing>>
    BY DEF Body, Progress, admissionVars
  <1>2. n \in Nat
    BY ServiceAssumption
  <1>3. CASE n = 0
    <2>1. /\ handler' = [handler EXCEPT ![r] = "done"]
          /\ reply' = [reply EXCEPT ![r] = "INVALID_INPUT"]
          /\ UNCHANGED lookups
      BY <1>3 DEF Body
    <2>2. ServiceTypeOK'
      BY <1>1, <1>2, <2>1 DEF ServiceTypeOK, Handlers, Replies, Errors
    <2>3. Progress(r)'
      BY <1>1, <1>3, <2>1 DEF ServiceTypeOK, Progress, Truthful, Failures
    <2>4. ASSUME NEW q \in Requests \ {r}  PROVE Progress(q)'
      BY <1>1, <2>1, ProgressFrame DEF ServiceTypeOK
    <2>5. Running' = Running
      BY <1>1, <2>1 DEF Running, ServiceTypeOK
    <2>6. QED
      BY <1>1, <2>2, <2>3, <2>4, <2>5 DEF Kept, OutboundWithinCap, InUse
  <1>4. CASE n # 0
    <2> DEFINE os == <<>>
    <2>a. Proceed(r, n, os, FALSE)
      BY <1>4, Zenon DEF Body
    <2>b. os \in Seq(Outcomes) /\ Len(os) <= n /\ n \in Nat \ {0}
      BY <1>2, <1>4
    <2> HIDE DEF os
    <2>2. /\ handler' \in [Requests -> Handlers]
          /\ lookups' \in [Requests -> Seq(Outcomes)]
          /\ reply' \in [Requests -> Replies \cup {"none"}]
          /\ \A q \in Requests \ {r} : /\ handler'[q] = handler[q]
                                      /\ lookups'[q] = lookups[q]
                                      /\ reply'[q] = reply[q]
          /\ \/ /\ handler'[r] = "running" /\ reply'[r] = reply[r]
                /\ Len(lookups'[r]) < n
                /\ InUse < OutboundConnections
             \/ /\ handler'[r] = "done" /\ reply'[r] # "none"
                /\ Truthful(n, lookups'[r], FALSE, reply'[r])
      BY <2>a, <2>b, ProceedLeads
    <2>3. ServiceTypeOK'
      BY <1>1, <1>2, <2>2 DEF ServiceTypeOK
    <2>4. Progress(r)'
      BY <1>1, <2>2 DEF ServiceTypeOK, Progress
    <2>5. ASSUME NEW q \in Requests \ {r}  PROVE Progress(q)'
      BY <1>1, <2>2, ProgressFrame DEF ServiceTypeOK
    <2>6. /\ Cardinality(Running) \in Nat /\ Cardinality(Running') \in Nat
          /\ Cardinality(Running') = Cardinality(Running) + One(handler'[r] = "running")
      <3>1. IsFiniteSet(Running) /\ Cardinality(Running) \in Nat
        BY RunningHold
      <3>2. /\ Cardinality(Running') \in Nat
            /\ Cardinality(Running') =
                 Cardinality(Running) - One(handler[r] = "running") + One(handler'[r] = "running")
        BY <2>2, <3>1, RunningMoves
      <3>3. One(handler[r] = "running") = 0
        BY <1>1 DEF One
      <3>4. One(handler'[r] = "running") \in {0, 1}
        BY DEF One
      <3>5. QED
        BY <3>1, <3>2, <3>3, <3>4
    <2>7. OutboundWithinCap'
      <3>1. closing' = closing /\ closing \in Nat
        BY <1>1 DEF ServiceTypeOK
      <3>2. CASE handler'[r] = "running" /\ InUse < OutboundConnections
        BY <2>6, <3>1, <3>2, ServiceAssumption DEF OutboundWithinCap, InUse, One
      <3>3. CASE handler'[r] = "done"
        BY <2>6, <3>1, <3>3, ServiceAssumption DEF OutboundWithinCap, InUse, One
      <3>4. QED
        BY <2>2, <3>2, <3>3
    <2>8. QED
      BY <2>3, <2>4, <2>5, <2>7 DEF Kept
  <1>5. QED
    BY <1>3, <1>4

\* An exchange settles, by itself or by the deadline: its connection is now one
\* that closes.
LEMMA SettledKeeps ==
  ASSUME ServiceInv, NEW r \in Requests, NEW outcome \in Outcomes, NEW aborted \in BOOLEAN,
         aborted => outcome = "TIMEOUT",
         handler[r] = "running",
         Proceed(r, types[r], Append(lookups[r], outcome), aborted),
         closing' = closing + 1, UNCHANGED <<response, types>>,
         expired' = [expired EXCEPT ![r] = aborted]
  PROVE  Kept
  <1> USE DEF ServiceInv
  <1> DEFINE os == Append(lookups[r], outcome)
  <1>1. /\ types[r] \in Nat \ {0} /\ lookups[r] \in Seq(Outcomes)
        /\ Len(lookups[r]) < types[r] /\ response[r] = "open" /\ reply[r] = "none"
    BY DEF ServiceTypeOK, Progress
  <1>2. /\ os \in Seq(Outcomes) /\ Len(os) = Len(lookups[r]) + 1 /\ os[Len(os)] = outcome
    BY <1>1
  <1>3. Len(os) <= types[r] /\ (aborted => \E i \in 1..Len(os) : os[i] = "TIMEOUT")
    BY <1>1, <1>2
  <1>4. Proceed(r, types[r], os, aborted)
    OBVIOUS
  <1> HIDE DEF os
  <1>5. /\ handler' \in [Requests -> Handlers]
        /\ lookups' \in [Requests -> Seq(Outcomes)]
        /\ reply' \in [Requests -> Replies \cup {"none"}]
        /\ \A q \in Requests \ {r} : /\ handler'[q] = handler[q]
                                    /\ lookups'[q] = lookups[q]
                                    /\ reply'[q] = reply[q]
        /\ \/ /\ handler'[r] = "running" /\ reply'[r] = reply[r]
              /\ Len(lookups'[r]) < types[r] /\ ~aborted
              /\ InUse < OutboundConnections
           \/ /\ handler'[r] = "done" /\ reply'[r] # "none"
              /\ Truthful(types[r], lookups'[r], aborted, reply'[r])
    BY <1>1, <1>2, <1>3, <1>4, ProceedLeads
  <1>a. /\ expired' \in [Requests -> BOOLEAN] /\ expired'[r] = aborted
        /\ \A q \in Requests \ {r} : expired'[q] = expired[q]
    BY DEF ServiceTypeOK
  <1>b. closing \in Nat /\ closing' \in Nat /\ types' \in [Requests -> Nat]
    BY DEF ServiceTypeOK
  <1>6. ServiceTypeOK'
    BY <1>5, <1>a, <1>b DEF ServiceTypeOK
  <1>c. types'[r] = types[r] /\ response'[r] = response[r]
    OBVIOUS
  <1>7. Progress(r)'
    BY <1>1, <1>5, <1>a, <1>c DEF Progress
  <1>8. ASSUME NEW q \in Requests \ {r}  PROVE Progress(q)'
    BY <1>5, <1>a, ProgressFrame
  <1>9. /\ Cardinality(Running) \in Nat /\ Cardinality(Running') \in Nat
        /\ Cardinality(Running') = Cardinality(Running) - 1 + One(handler'[r] = "running")
    BY <1>5, RunningHold, RunningMoves DEF One
  <1>10. OutboundWithinCap'
    BY <1>5, <1>9, ServiceAssumption DEF OutboundWithinCap, InUse, One, ServiceTypeOK
  <1>11. QED
    BY <1>6, <1>7, <1>8, <1>10 DEF Kept

LEMMA SentKeeps ==
  ASSUME ServiceInv, NEW r \in Requests, Sent(r)
  PROVE  Kept
  <1> USE DEF ServiceInv
  <1>1. /\ handler[r] = "done" /\ response' = [response EXCEPT ![r] = "finished"]
        /\ UNCHANGED <<handler, types, lookups, expired, reply, closing>>
    BY DEF Sent, Finish, Progress, ServiceTypeOK, Handlers
  <1>2. Progress(r)'
    BY <1>1 DEF Progress, TypeOK
  <1>3. ASSUME NEW q \in Requests \ {r}  PROVE Progress(q)'
    BY <1>1, ProgressFrame DEF TypeOK
  <1>4. QED
    BY <1>1, <1>2, <1>3 DEF Kept, ServiceTypeOK, OutboundWithinCap, InUse, Running

LEMMA GoneKeeps ==
  ASSUME ServiceInv, NEW r \in Requests, Gone(r)
  PROVE  Kept
  <1> USE DEF ServiceInv
  <1>1. /\ response' = [response EXCEPT ![r] = "none"]
        /\ closing' = closing + One(handler[r] = "running")
        /\ handler' = [handler EXCEPT ![r] = "none"]
        /\ types' = [types EXCEPT ![r] = 0]
        /\ lookups' = [lookups EXCEPT ![r] = <<>>]
        /\ expired' = [expired EXCEPT ![r] = FALSE]
        /\ reply' = [reply EXCEPT ![r] = "none"]
    BY DEF Gone, Close, One, ServiceTypeOK
  <1>2. ServiceTypeOK'
    BY <1>1 DEF ServiceTypeOK, Handlers, One
  <1>3. Progress(r)'
    BY <1>1 DEF Progress, ServiceTypeOK, TypeOK
  <1>4. ASSUME NEW q \in Requests \ {r}  PROVE Progress(q)'
    BY <1>1, ProgressFrame DEF TypeOK, ServiceTypeOK
  <1>5. /\ Cardinality(Running) \in Nat /\ Cardinality(Running') \in Nat
        /\ Cardinality(Running') = Cardinality(Running) - One(handler[r] = "running")
    BY <1>1, RunningHold, RunningMoves DEF One, ServiceTypeOK
  <1>6. OutboundWithinCap'
    BY <1>1, <1>5, ServiceAssumption DEF OutboundWithinCap, InUse, One, ServiceTypeOK
  <1>7. QED
    BY <1>2, <1>3, <1>4, <1>6 DEF Kept

-----------------------------------------------------------------------------
LEMMA ServiceInvInit == ServiceInit => ServiceInv
  <1> SUFFICES ASSUME ServiceInit  PROVE ServiceInv
    OBVIOUS
  <1>1. TypeOK /\ SlotInv
    BY TypeInit, SlotInit DEF ServiceInit
  <1>2. ServiceTypeOK
    BY DEF ServiceInit, ServiceTypeOK, Handlers
  <1>3. \A r \in Requests : Progress(r)
    BY DEF ServiceInit, Init, Progress
  <1>4. Running = {}
    BY DEF ServiceInit, Running
  <1>5. OutboundWithinCap
    BY <1>4, FS_EmptySet, ServiceAssumption DEF ServiceInit, OutboundWithinCap, InUse
  <1>6. QED
    BY <1>1, <1>2, <1>3, <1>5 DEF ServiceInv

LEMMA ServiceInvStep == ServiceInv /\ [ServiceNext]_serviceVars => ServiceInv'
  <1> SUFFICES ASSUME ServiceInv, [ServiceNext]_serviceVars  PROVE ServiceInv'
    OBVIOUS
  <1>1. ASSUME NEW r \in Requests, NEW s \in Sources, NEW acceptable \in BOOLEAN,
               Arrive(r, s, acceptable)
        PROVE  Kept
    BY <1>1, ArriveKeeps
  <1>2. ASSUME NEW r \in Requests, NEW n \in 0..MaxTypes, Body(r, n)
        PROVE  Kept
    BY <1>2, BodyKeeps
  <1>3. ASSUME NEW r \in Requests, NEW outcome \in Outcomes, LookupEnds(r, outcome)
        PROVE  Kept
    <2>1. ~expired[r] /\ expired = [expired EXCEPT ![r] = FALSE]
      BY <1>3 DEF LookupEnds, ServiceInv, ServiceTypeOK, Progress
    <2>2. QED
      BY <1>3, <2>1, SettledKeeps DEF LookupEnds, admissionVars
  <1>4. ASSUME NEW r \in Requests, Deadline(r)
        PROVE  Kept
    <2>1. "TIMEOUT" \in Outcomes
      BY DEF Outcomes, Failures
    <2>2. QED
      BY <1>4, <2>1, SettledKeeps DEF Deadline, admissionVars
  <1>5. ASSUME NEW r \in Requests, Sent(r)
        PROVE  Kept
    BY <1>5, SentKeeps
  <1>6. ASSUME NEW r \in Requests, Gone(r)
        PROVE  Kept
    BY <1>6, GoneKeeps
  <1>7. ASSUME UNCHANGED <<response, handler, types, lookups, expired, reply>>,
               closing' = closing \/ (closing > 0 /\ closing' = closing - 1)
        PROVE  Kept
    <2>1. \A r \in Requests : Progress(r)'
      BY <1>7, ProgressFrame DEF ServiceInv
    <2>2. Running' = Running /\ Cardinality(Running) \in Nat
      BY <1>7, RunningHold DEF Running, ServiceInv
    <2>3. OutboundWithinCap'
      BY <1>7, <2>2, ServiceAssumption DEF OutboundWithinCap, InUse, ServiceInv, ServiceTypeOK
    <2>4. QED
      BY <1>7, <2>1, <2>3 DEF Kept, ServiceInv, ServiceTypeOK
  <1>8. ASSUME SocketClosed \/ Clock \/ UNCHANGED serviceVars
        PROVE  Kept
    BY <1>7, <1>8 DEF SocketClosed, Clock, Tick, serviceVars, admissionVars
  <1>9. Kept
    BY <1>1, <1>2, <1>3, <1>4, <1>5, <1>6, <1>8 DEF ServiceNext
  <1>10. QED
    BY <1>9, AdmissionPart DEF Kept, ServiceInv

\* Progress of every request, and connections within the cap, together are kept by
\* every callback of the service.
THEOREM ServiceCorrect == ServiceSpec => []ServiceInv
  BY ServiceInvInit, ServiceInvStep, PTL DEF ServiceSpec

\* No inspection outlives its slot, although 'close' gives the slot back while the
\* handler still waits.
THEOREM SlotsOutliveHandlers == ServiceSpec => []HandlersHoldSlots
  <1>1. ServiceInv => HandlersHoldSlots
    BY DEF ServiceInv, Progress, SlotInv, SlotsAreOpenResponses, HandlersHoldSlots
  <1>2. QED
    BY <1>1, ServiceCorrect, PTL

\* Exchanges under way and sockets still closing keep to the cap together.
THEOREM OutboundBounded == ServiceSpec => []OutboundWithinCap
  <1>1. ServiceInv => OutboundWithinCap
    BY DEF ServiceInv
  <1>2. QED
    BY <1>1, ServiceCorrect, PTL

\* A reply says what the lookups brought, of every type asked for, whatever a full
\* limiter did to some of them; of lookups that all failed it says what the first
\* failed of, and TIMEOUT exactly if the deadline passed or that was the failure.
THEOREM RepliesTruthful == ServiceSpec => []RepliesAreTruthful
  <1>1. ASSUME ServiceInv, NEW r \in Requests, reply[r] # "none"
        PROVE  Truthful(types[r], lookups[r], expired[r], reply[r])
    BY <1>1 DEF ServiceInv, Progress
  <1>2. ServiceInv => RepliesAreTruthful
    BY <1>1 DEF RepliesAreTruthful, Truthful, Range, ServiceInv, ServiceTypeOK, Failures
  <1>3. QED
    BY <1>2, ServiceCorrect, PTL

\* Every open response has its reply or a handler at work on it.
THEOREM EverybodyRemembered == ServiceSpec => []NobodyForgotten
  <1>1. ServiceInv => NobodyForgotten
    BY DEF ServiceInv, Progress, NobodyForgotten, ServiceTypeOK, Handlers
  <1>2. QED
    BY <1>1, ServiceCorrect, PTL
=============================================================================
