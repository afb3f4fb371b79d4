--------------------------- MODULE Backend_proofs ---------------------------
(***************************************************************************)
(* What backend/shared's circuit breaker, bulkhead and orchestrator        *)
(* guarantee whatever their parameters: for any set of callers, thresholds *)
(* and order of results; for any number of permits and places in the queue *)
(* and any order of cancellations; for any plan.                           *)
(***************************************************************************)
EXTENDS CircuitBreaker, Bulkhead, PlanDispatch, FiniteSetTheorems, SequenceTheorems,
        WellFoundedInduction, TLAPS

-----------------------------------------------------------------------------
(* The circuit breaker                                                     *)

\* The types hold.
THEOREM BreakerTypeCorrect == Spec => []TypeOK
<1>1. Init => TypeOK
  <2>1. Init => recovered \in BOOLEAN
    BY Zenon DEF Init
  <2> QED
    BY <2>1 DEF Init, TypeOK
<1>2. TypeOK /\ [Next]_vars => TypeOK'
  <2> SUFFICES ASSUME TypeOK, [Next]_vars PROVE TypeOK'
    OBVIOUS
  <2> USE DEF TypeOK
  <2>1. Retired \in [Call -> {"none", "call", "probe"}]
    BY DEF Retired
  <2>2. CASE TimeoutPasses
    BY <2>2 DEF TimeoutPasses
  <2>3. ASSUME NEW c \in Call, AdmitClosed(c) \/ AdmitRecovered(c) \/ AdmitProbe(c)
        PROVE  TypeOK'
    BY <2>3 DEF AdmitClosed, AdmitRecovered, AdmitProbe, FirstProbe
  <2>4. ASSUME NEW c \in Call, Fail(c)
        PROVE  TypeOK'
    <3>1. AfterFailure \in {"CLOSED", "OPEN", "HALF_OPEN"}
      BY DEF AfterFailure
    <3>2. (IF AfterFailure # state THEN Retired ELSE call)
            \in [Call -> {"none", "call", "probe"}]
      BY <2>1
    <3>3. recovered' \in BOOLEAN
      BY <2>4, Zenon DEF Fail
    <3> QED
      BY <2>4, <3>1, <3>2, <3>3 DEF Fail
  <2>5. ASSUME NEW c \in Call, Succeed(c)
        PROVE  TypeOK'
    <3>1. AfterSuccess \in {"CLOSED", "OPEN", "HALF_OPEN"}
      BY DEF AfterSuccess
    <3>2. (IF AfterSuccess # state THEN Retired ELSE call)
            \in [Call -> {"none", "call", "probe"}]
      BY <2>1
    <3> QED
      BY <2>5, <3>1, <3>2 DEF Succeed, CountAfterSuccess
  <2>6. ASSUME NEW c \in Call, Cancel(c)
        PROVE  TypeOK'
    BY <2>6 DEF Cancel
  <2>7. CASE UNCHANGED vars
    BY <2>7 DEF vars
  <2> QED
    BY <2>2, <2>3, <2>4, <2>5, <2>6, <2>7 DEF Next
<1> QED
  BY <1>1, <1>2, PTL DEF Spec

\* The breaker is CLOSED exactly while the failure count is below the
\* threshold, whatever results arrive when.
THEOREM CountAlwaysMatchesState == Spec => []CountMatchesState
<1>1. Init => CountMatchesState
  BY BreakerAssumption DEF Init, CountMatchesState
<1>2. TypeOK /\ CountMatchesState /\ [Next]_vars => CountMatchesState'
  BY BreakerAssumption
  DEF TypeOK, CountMatchesState, Next, vars, TimeoutPasses, AdmitClosed,
      AdmitRecovered, AdmitProbe, Fail, AfterFailure, Succeed, AfterSuccess,
      CountAfterSuccess, Cancel
<1> QED
  BY <1>1, <1>2, BreakerTypeCorrect, PTL DEF Spec

-----------------------------------------------------------------------------
\* The number of probes when one call starts or stops being one.
LEMMA ProbeCount ==
  ASSUME TypeOK, NEW c \in Call
  PROVE  /\ IsFiniteSet(Probes) /\ Cardinality(Probes) \in Nat
         /\ call[c] # "probe" => Cardinality(Probes \cup {c}) = Cardinality(Probes) + 1
         /\ call[c] = "probe" => Cardinality(Probes \ {c}) = Cardinality(Probes) - 1
<1>1. IsFiniteSet(Probes)
  BY BreakerAssumption, FS_Subset DEF Probes
<1>2. (c \in Probes) <=> (call[c] = "probe")
  BY DEF Probes
<1> QED
  BY <1>1, <1>2, FS_AddElement, FS_RemoveElement, FS_CardinalityType

\* HALF_OPEN slots in use are probes in flight or cancelled probes, and never
\* more than half_open_max_calls.
THEOREM SlotsAlwaysAccounted == Spec => []SlotsAccounted
<1>1. Init => SlotsAccounted
  BY DEF Init, SlotsAccounted, Probes
<1>2. TypeOK /\ SlotsAccounted /\ [Next]_vars => SlotsAccounted'
  <2> SUFFICES ASSUME TypeOK, SlotsAccounted, [Next]_vars PROVE SlotsAccounted'
    OBVIOUS
  <2>1. CASE TimeoutPasses \/ UNCHANGED vars
    BY <2>1 DEF TimeoutPasses, vars, SlotsAccounted, Probes
  <2>2. ASSUME NEW c \in Call, AdmitClosed(c)
        PROVE  SlotsAccounted'
    <3>1. Probes = {} /\ state' = "CLOSED"
      BY <2>2 DEF AdmitClosed, SlotsAccounted
    <3>2. Probes' = {}
      BY <2>2, <3>1 DEF AdmitClosed, Probes, TypeOK
    <3> QED
      BY <3>1, <3>2 DEF SlotsAccounted
  <2>3. ASSUME NEW c \in Call, AdmitRecovered(c)
        PROVE  SlotsAccounted'
    <3>1. Probes = {} /\ call[c] = "none"
      BY <2>3 DEF AdmitRecovered, SlotsAccounted
    <3>2. Probes' = {c}
      BY <2>3, <3>1 DEF AdmitRecovered, Probes, TypeOK
    <3>3. Cardinality(Probes') = 1
      BY <3>2, FS_Singleton
    <3> QED
      BY <2>3, <3>3, BreakerAssumption DEF AdmitRecovered, FirstProbe, SlotsAccounted
  <2>4. ASSUME NEW c \in Call, AdmitProbe(c)
        PROVE  SlotsAccounted'
    <3>1. Probes' = Probes \cup {c}
      BY <2>4 DEF AdmitProbe, Probes, TypeOK
    <3>2. Cardinality(Probes') = Cardinality(Probes) + 1 /\ Cardinality(Probes) \in Nat
      BY <2>4, <3>1, ProbeCount DEF AdmitProbe
    <3> QED
      BY <2>4, <3>2, BreakerAssumption DEF AdmitProbe, SlotsAccounted, TypeOK
\* A result either ends HALF_OPEN, and no probe is left, or comes outside it.
  <2>5. ASSUME NEW c \in Call, Fail(c) \/ Succeed(c)
        PROVE  SlotsAccounted'
    <3>1. state' # "HALF_OPEN"
      BY <2>5 DEF Fail, AfterFailure, Succeed, AfterSuccess, TypeOK
    <3>2. \A d \in Call : call'[d] # "probe"
      <4>1. CASE state = "HALF_OPEN"
        BY <2>5, <4>1
        DEF Fail, AfterFailure, Succeed, AfterSuccess, Retired, TypeOK
      <4>2. CASE state # "HALF_OPEN"
        <5>1. \A d \in Call : call[d] # "probe"
          BY <4>2 DEF SlotsAccounted, Probes
        <5> QED
          BY <2>5, <5>1 DEF Fail, Succeed, Retired, TypeOK
      <4> QED
        BY <4>1, <4>2
    <3> QED
      BY <3>1, <3>2 DEF SlotsAccounted, Probes
  <2>6. ASSUME NEW c \in Call, Cancel(c)
        PROVE  SlotsAccounted'
    <3>1. CASE call[c] = "probe"
      <4>1. Probes' = Probes \ {c}
        BY <2>6 DEF Cancel, Probes, TypeOK
      <4>2. Cardinality(Probes') = Cardinality(Probes) - 1 /\ Cardinality(Probes) \in Nat
        BY <3>1, <4>1, ProbeCount
      <4> QED
        BY <2>6, <3>1, <4>1, <4>2 DEF Cancel, SlotsAccounted, TypeOK
    <3>2. CASE call[c] # "probe"
      <4>1. Probes' = Probes
        BY <2>6, <3>2 DEF Cancel, Probes, TypeOK
      <4> QED
        BY <2>6, <3>2, <4>1 DEF Cancel, SlotsAccounted
    <3> QED
      BY <3>1, <3>2
  <2> QED
    BY <2>1, <2>2, <2>3, <2>4, <2>5, <2>6 DEF Next
<1> QED
  BY <1>1, <1>2, BreakerTypeCorrect, PTL DEF Spec

-----------------------------------------------------------------------------
(* The bulkhead                                                            *)

\* How many waiters Wake hands a permit to.
LEMMA HandedOut ==
  ASSUME NEW k \in Nat, NEW value \in Nat, NEW len \in Nat, k <= value
  PROVE  LET n == Min({k, value, len})
         IN  n \in Nat /\ n <= value /\ n <= len /\ n <= k /\ (n = k \/ n = len)
<1> DEFINE m == IF k <= len THEN k ELSE len
<1>1. m \in {k, value, len} /\ \A y \in {k, value, len} : m <= y
  OBVIOUS
<1>2. Min({k, value, len}) \in {k, value, len} /\ \A y \in {k, value, len} : Min({k, value, len}) <= y
  BY <1>1 DEF Min
<1> QED
  BY <1>2

\* The elements m to n of a sequence.
LEMMA Slice ==
  ASSUME NEW ws \in Seq(Caller), NEW m \in Nat, NEW n \in Nat,
         1 <= m, m <= n + 1, n <= Len(ws)
  PROVE  /\ SubSeq(ws, m, n) \in Seq(Caller)
         /\ Len(SubSeq(ws, m, n)) = n - m + 1
         /\ \A i \in 1..(n - m + 1) : SubSeq(ws, m, n)[i] = ws[m + i - 1]
<1> DEFINE part == SubSeq(ws, m, n)
<1>1. \A i \in m..n : ws[i] \in Caller
  OBVIOUS
<1>2. /\ part \in Seq(Caller)
      /\ Len(part) = IF m <= n THEN n - m + 1 ELSE 0
      /\ \A i \in 1..(n - m + 1) : part[i] = ws[m + i - 1]
  BY <1>1, SubSeqProperties
<1> HIDE DEF part
<1>3. Len(part) = n - m + 1
  <2>1. CASE m <= n
    BY <2>1, <1>2
  <2>2. CASE ~(m <= n)
    <3>1. n - m + 1 = 0
      BY <2>2
    <3> QED
      BY <2>2, <3>1, <1>2
  <2> QED
    BY <2>1, <2>2
<1> QED
  BY <1>2, <1>3 DEF part

\* The first n elements of a sequence without repetitions, as a set.
LEMMA FirstElements ==
  ASSUME NEW ws \in Seq(Caller), IsInjective(ws), NEW n \in 0..Len(ws)
  PROVE  LET first == ToSet(SubSeq(ws, 1, n))
             rest  == SubSeq(ws, n + 1, Len(ws))
         IN  /\ IsFiniteSet(first) /\ Cardinality(first) = n
             /\ first \subseteq Caller /\ (n > 0 => first # {})
             /\ rest \in Seq(Caller) /\ IsInjective(rest)
             /\ first \cap ToSet(rest) = {} /\ first \cup ToSet(rest) = ToSet(ws)
             /\ (n = Len(ws) => rest = <<>>)
<1> DEFINE first == ToSet(SubSeq(ws, 1, n))
           rest  == SubSeq(ws, n + 1, Len(ws))
<1>1. /\ DOMAIN ws = 1..Len(ws) /\ Len(ws) \in Nat /\ \A i \in 1..Len(ws) : ws[i] \in Caller
      /\ n \in Nat /\ n <= Len(ws)
  OBVIOUS
<1>13. n \in Nat /\ Len(ws) \in Nat /\ n <= Len(ws)
  BY <1>1
<1>2. /\ SubSeq(ws, 1, n) \in Seq(Caller) /\ Len(SubSeq(ws, 1, n)) = n
      /\ \A i \in 1..n : SubSeq(ws, 1, n)[i] = ws[i]
  BY <1>1, SubSeqProperties
<1>3. /\ rest \in Seq(Caller) /\ Len(rest) = Len(ws) - n
      /\ \A i \in 1..(Len(ws) - n) : rest[i] = ws[n + i]
  <2>1. /\ rest \in Seq(Caller) /\ Len(rest) = Len(ws) - (n + 1) + 1
        /\ \A i \in 1..(Len(ws) - (n + 1) + 1) : rest[i] = ws[(n + 1) + i - 1]
    BY <1>13, Slice
  <2>2. Len(ws) - (n + 1) + 1 = Len(ws) - n
    BY <1>13
  <2>3. \A i \in 1..(Len(ws) - n) : (n + 1) + i - 1 = n + i
    BY <1>13
  <2> QED
    BY <2>1, <2>2, <2>3
<1> HIDE DEF rest
<1>4. first = {ws[i] : i \in 1..n}
  <2>1. DOMAIN SubSeq(ws, 1, n) = 1..n
    BY <1>2
  <2> QED
    BY <1>2, <2>1 DEF ToSet
<1>5. ToSet(rest) = {ws[i] : i \in (n + 1)..Len(ws)}
  <2>1. ToSet(rest) = {ws[n + i] : i \in 1..(Len(ws) - n)}
    <3>1. DOMAIN rest = 1..(Len(ws) - n)
      BY <1>3
    <3> QED
      BY <1>3, <3>1 DEF ToSet
  <2>2. \A i \in (n + 1)..Len(ws) : i - n \in 1..(Len(ws) - n) /\ ws[i] = ws[n + (i - n)]
    BY <1>1
  <2>3. \A i \in 1..(Len(ws) - n) : n + i \in (n + 1)..Len(ws)
    BY <1>1
  <2> QED
    BY <2>1, <2>2, <2>3
<1>6. \A i, j \in 1..Len(ws) : ws[i] = ws[j] => i = j
  BY <1>1 DEF IsInjective
<1>7. IsFiniteSet(first) /\ Cardinality(first) = n
  <2> DEFINE f == [i \in 1..n |-> ws[i]]
  <2>1. f \in Bijection(1..n, first)
    BY <1>1, <1>4, <1>6 DEF Bijection, Injection, Surjection, IsInjective
  <2>2. ExistsBijection(1..n, first)
    BY <2>1 DEF ExistsBijection
  <2>3. IsFiniteSet(1..n) /\ Cardinality(1..n) = n
    BY <1>1, FS_Interval
  <2> QED
    BY <2>2, <2>3, FS_Bijection
<1>8. first \subseteq Caller /\ (n > 0 => first # {})
  <2>1. \A i \in 1..n : i \in 1..Len(ws)
    BY <1>13
  <2>2. first \subseteq Caller
    BY <2>1, <1>1, <1>4
  <2>3. n > 0 => 1 \in 1..n
    BY <1>13
  <2> QED
    BY <2>2, <2>3, <1>4
<1>9. IsInjective(rest)
  <2> SUFFICES ASSUME NEW a \in 1..(Len(ws) - n), NEW b \in 1..(Len(ws) - n), rest[a] = rest[b]
               PROVE  a = b
    BY <1>3 DEF IsInjective
  <2>1. n + a \in 1..Len(ws) /\ n + b \in 1..Len(ws)
    BY <1>1
  <2>2. n + a = n + b
    BY <2>1, <1>3, <1>6
  <2> QED
    BY <2>2, <1>1
<1>10. first \cap ToSet(rest) = {}
  <2> SUFFICES ASSUME NEW i \in 1..n, NEW j \in (n + 1)..Len(ws), ws[i] = ws[j]
               PROVE  FALSE
    BY <1>4, <1>5
  <2> QED
    BY <1>1, <1>6
<1>11. first \cup ToSet(rest) = ToSet(ws)
  <2>1. ToSet(ws) = {ws[i] : i \in 1..Len(ws)}
    BY <1>1 DEF ToSet
  <2>2. 1..Len(ws) = 1..n \cup (n + 1)..Len(ws)
    BY <1>1
  <2> QED
    BY <2>1, <2>2, <1>4, <1>5
<1>12. n = Len(ws) => rest = <<>>
  BY <1>3, <1>1
<1> QED
  BY <1>3, <1>7, <1>8, <1>9, <1>10, <1>11, <1>12 DEF rest

\* Permits that Wake hands out move from the semaphore to the waiters, in
\* order, and it stops only when all are handed out or nobody waits.
LEMMA WakeConserves ==
  ASSUME NEW ws \in Seq(Caller), IsInjective(ws),
         NEW gs \in SUBSET Caller, IsFiniteSet(gs), gs \cap ToSet(ws) = {},
         NEW k \in Nat, NEW value \in Nat, k = value \/ (k = 1 /\ value >= 1),
         Wake(k, value, ws, gs)
  PROVE  /\ permits' \in Nat
         /\ waiters' \in Seq(Caller) /\ IsInjective(waiters')
         /\ granted' \subseteq Caller /\ IsFiniteSet(granted')
         /\ granted' \cap ToSet(waiters') = {}
         /\ granted' \cup ToSet(waiters') = gs \cup ToSet(ws)
         /\ permits' + Cardinality(granted') = value + Cardinality(gs)
         /\ (waiters' # <<>> /\ permits' > 0 => granted' # {})
<1> DEFINE n == Min({k, value, Len(ws)})
           first == ToSet(SubSeq(ws, 1, n))
           rest == SubSeq(ws, n + 1, Len(ws))
<1>1. n \in Nat /\ n <= value /\ n <= Len(ws) /\ (n = k \/ n = Len(ws))
  BY HandedOut
<1>2. n \in 0..Len(ws)
  BY <1>1
<1>3. /\ permits' = value - n
      /\ waiters' = rest
      /\ granted' = gs \cup first
  BY DEF Wake
<1> HIDE DEF n
<1>4. /\ IsFiniteSet(first) /\ Cardinality(first) = n
      /\ first \subseteq Caller /\ (n > 0 => first # {})
      /\ rest \in Seq(Caller) /\ IsInjective(rest)
      /\ first \cap ToSet(rest) = {} /\ first \cup ToSet(rest) = ToSet(ws)
      /\ (n = Len(ws) => rest = <<>>)
  BY <1>2, FirstElements
<1> HIDE DEF first, rest
<1>5. IsFiniteSet(granted') /\ Cardinality(granted') = Cardinality(gs) + n
  <2>1. gs \cap first = {}
    BY <1>4
  <2>2. Cardinality(gs) \in Nat /\ Cardinality(gs \cap first) = 0
    BY <2>1, FS_CardinalityType, FS_EmptySet
  <2>3. /\ IsFiniteSet(gs \cup first)
        /\ Cardinality(gs \cup first) = Cardinality(gs) + Cardinality(first) - Cardinality(gs \cap first)
    BY <1>4, FS_Union
  <2> QED
    BY <2>2, <2>3, <1>1, <1>3, <1>4
<1>6. permits' + Cardinality(granted') = value + Cardinality(gs)
  <2>1. Cardinality(gs) \in Nat
    BY FS_CardinalityType
  <2> QED
    BY <2>1, <1>1, <1>3, <1>5
<1>7. waiters' # <<>> /\ permits' > 0 => granted' # {}
  BY <1>1, <1>3, <1>4
<1>8. granted' \cap ToSet(waiters') = {}
  BY <1>3, <1>4
<1>9. granted' \cup ToSet(waiters') = gs \cup ToSet(ws)
  BY <1>3, <1>4
<1> QED
  BY <1>1, <1>3, <1>4, <1>5, <1>6, <1>7, <1>8, <1>9
\* Without its element i, a sequence without repetitions stays one, and only
\* that element is gone.
LEMMA RemovedAt ==
  ASSUME NEW ws \in Seq(Caller), IsInjective(ws), NEW i \in DOMAIN ws
  PROVE  /\ RemoveAt(ws, i) \in Seq(Caller) /\ IsInjective(RemoveAt(ws, i))
         /\ ToSet(RemoveAt(ws, i)) = ToSet(ws) \ {ws[i]}
<1> DEFINE before == SubSeq(ws, 1, i - 1)
           after  == SubSeq(ws, i + 1, Len(ws))
           left   == before \o after
           Old(j) == IF j < i THEN j ELSE j + 1
<1>1. i \in Nat /\ Len(ws) \in Nat /\ 1 <= i /\ i <= Len(ws) /\ DOMAIN ws = 1..Len(ws)
  OBVIOUS
<1>2. /\ before \in Seq(Caller) /\ Len(before) = i - 1
      /\ \A j \in 1..(i - 1) : before[j] = ws[j]
  BY <1>1, Slice
<1>3. /\ after \in Seq(Caller) /\ Len(after) = Len(ws) - i
      /\ \A j \in 1..(Len(ws) - i) : after[j] = ws[i + j]
  <2>1. /\ after \in Seq(Caller) /\ Len(after) = Len(ws) - (i + 1) + 1
        /\ \A j \in 1..(Len(ws) - (i + 1) + 1) : after[j] = ws[(i + 1) + j - 1]
    BY <1>1, Slice
  <2>2. Len(ws) - (i + 1) + 1 = Len(ws) - i
    BY <1>1
  <2>3. \A j \in 1..(Len(ws) - i) : (i + 1) + j - 1 = i + j
    BY <1>1
  <2> QED
    BY <2>1, <2>2, <2>3
<1> HIDE DEF before, after
<1>4. left \in Seq(Caller) /\ Len(left) = Len(ws) - 1
  <2>1. left \in Seq(Caller) /\ Len(left) = Len(before) + Len(after)
    BY <1>2, <1>3, ConcatProperties
  <2> QED
    BY <2>1, <1>1, <1>2, <1>3
<1>5. ASSUME NEW j \in 1..(Len(ws) - 1)
      PROVE  left[j] = ws[Old(j)] /\ Old(j) \in 1..Len(ws) /\ Old(j) # i
  <2>1. CASE j < i
    <3>1. j \in 1..(i - 1)
      BY <2>1, <1>1
    <3>2. left[j] = before[j]
      BY <3>1, <1>1, <1>2, <1>3
    <3> QED
      BY <2>1, <3>1, <3>2, <1>1, <1>2
  <2>2. CASE ~(j < i)
    <3>1. j - (i - 1) \in 1..(Len(ws) - i) /\ i + (j - (i - 1)) = j + 1
      BY <2>2, <1>1
    <3>2. left[j] = after[j - (i - 1)]
      <4>1. j \in 1..(Len(before) + Len(after)) /\ ~(j <= Len(before)) /\ Len(before) = i - 1
        BY <2>2, <1>1, <1>2, <1>3
      <4>2. left[j] = IF j <= Len(before) THEN before[j] ELSE after[j - Len(before)]
        BY <4>1, <1>2, <1>3, ConcatProperties
      <4> QED
        BY <4>1, <4>2
    <3>3. left[j] = ws[j + 1]
      BY <3>1, <3>2, <1>3
    <3>4. Old(j) = j + 1 /\ j + 1 \in 1..Len(ws) /\ j + 1 # i
      BY <2>2, <1>1
    <3> QED
      BY <3>3, <3>4
  <2> QED
    BY <2>1, <2>2
<1>6. DOMAIN left = 1..(Len(ws) - 1)
  <2>1. DOMAIN left = 1..Len(left)
    <3> HIDE DEF left
    <3> QED
      BY <1>4
  <2> QED
    BY <2>1, <1>4
<1> HIDE DEF left
<1>7. \A j, l \in 1..Len(ws) : ws[j] = ws[l] => j = l
  BY <1>1 DEF IsInjective
<1>8. IsInjective(left)
  <2> SUFFICES ASSUME NEW a \in 1..(Len(ws) - 1), NEW b \in 1..(Len(ws) - 1), left[a] = left[b]
               PROVE  a = b
    BY <1>6 DEF IsInjective
  <2>1. Old(a) = Old(b)
    <3> HIDE DEF Old
    <3> QED
      BY <1>5, <1>7
  <2> QED
    BY <2>1, <1>1
<1>9. ToSet(left) = ToSet(ws) \ {ws[i]}
  <2>1. \A j \in 1..(Len(ws) - 1) : left[j] \in ToSet(ws) \ {ws[i]}
    <3> HIDE DEF Old
    <3> QED
      BY <1>1, <1>5, <1>7 DEF ToSet
  <2>2. ASSUME NEW l \in 1..Len(ws), l # i
        PROVE  \E j \in 1..(Len(ws) - 1) : left[j] = ws[l]
    <3>1. CASE l < i
      <4>1. l \in 1..(Len(ws) - 1) /\ Old(l) = l
        BY <3>1, <1>1
      <4> QED
        BY <4>1, <1>5
    <3>2. CASE ~(l < i)
      <4>1. l - 1 \in 1..(Len(ws) - 1) /\ Old(l - 1) = l
        BY <2>2, <3>2, <1>1
      <4> QED
        BY <4>1, <1>5
    <3> QED
      BY <3>1, <3>2
  <2> QED
    <3>1. /\ ToSet(left) = {left[j] : j \in 1..(Len(ws) - 1)}
          /\ ToSet(ws) = {ws[l] : l \in 1..Len(ws)}
      BY <1>1, <1>6 DEF ToSet
    <3>2. ToSet(left) \subseteq ToSet(ws) \ {ws[i]}
      BY <2>1, <3>1
    <3>3. ToSet(ws) \ {ws[i]} \subseteq ToSet(left)
      BY <2>2, <3>1
    <3> QED
      BY <3>2, <3>3
<1> QED
  BY <1>4, <1>8, <1>9 DEF RemoveAt, left, before, after

-----------------------------------------------------------------------------
(* The inductive invariant: a call is in one place only, so that the       *)
(* cardinalities of the properties move together.                          *)

Separate ==
  /\ granted \cap ToSet(waiters) = {}
  /\ running \cap Waiting = {}

BulkheadInv ==
  /\ BulkheadTypeOK /\ Separate
  /\ PermitsConserved /\ QueueAccounted /\ NoLostWakeup

\* Every set of callers is finite, the waiting ones included.
LEMMA FiniteCallers ==
  ASSUME BulkheadTypeOK
  PROVE  /\ ToSet(waiters) \subseteq Caller
         /\ \A S \in SUBSET Caller : IsFiniteSet(S) /\ Cardinality(S) \in Nat
<1>1. ToSet(waiters) \subseteq Caller
  BY DEF BulkheadTypeOK, ToSet
<1>2. \A S \in SUBSET Caller : IsFiniteSet(S)
  BY BulkheadAssumption, FS_Subset
<1> QED
  BY <1>1, <1>2, FS_CardinalityType

\* The empty sequence holds nobody.
LEMMA EmptyQueue ==
  /\ <<>> \in Seq(Caller) /\ IsInjective(<<>>) /\ ToSet(<<>>) = {}
  BY DEF IsInjective, ToSet

LEMMA InitBulkhead == BulkheadInit => BulkheadInv
<1> SUFFICES ASSUME BulkheadInit PROVE BulkheadInv
  OBVIOUS
<1> USE DEF BulkheadInit
<1>1. BulkheadTypeOK
  BY EmptyQueue, BulkheadAssumption DEF BulkheadTypeOK
<1>2. Separate
  BY EmptyQueue DEF Separate, Waiting
<1>3. Cardinality({}) = 0 /\ Waiting = {}
  BY EmptyQueue, FS_EmptySet DEF Waiting
<1>4. PermitsConserved
  BY <1>3, BulkheadAssumption DEF PermitsConserved
<1>5. QueueAccounted
  BY <1>3, BulkheadAssumption DEF QueueAccounted
<1>6. NoLostWakeup
  BY DEF NoLostWakeup
<1> QED
  BY <1>1, <1>2, <1>4, <1>5, <1>6 DEF BulkheadInv

LEMMA EnterAtOnceKeeps ==
  ASSUME BulkheadInv, NEW c \in Caller, EnterAtOnce(c)
  PROVE  BulkheadInv'
<1> USE DEF EnterAtOnce, BulkheadInv, CountedIn, CountedOut
<1>1. waiters = <<>> /\ permits \in Nat /\ permits > 0 /\ granted = {} /\ queueCount' = queueCount
  BY DEF Unlocked, BulkheadTypeOK
<1>2. Waiting' = Waiting
  BY DEF Waiting
<1>3. BulkheadTypeOK'
  BY <1>1 DEF BulkheadTypeOK
<1>4. Separate'
  BY <1>2 DEF Separate, Busy
<1>5. PermitsConserved'
  <2>1. running \subseteq Caller /\ c \notin running /\ Cardinality(granted) \in Nat
    BY FiniteCallers DEF BulkheadTypeOK, Busy
  <2>2. Cardinality(running') = Cardinality(running) + 1 /\ Cardinality(running) \in Nat
    BY <2>1, FiniteCallers, FS_AddElement
  <2> QED
    BY <1>1, <2>1, <2>2 DEF PermitsConserved, BulkheadTypeOK
<1>6. QueueAccounted'
  BY <1>1, <1>2 DEF QueueAccounted
<1>7. NoLostWakeup'
  BY <1>1 DEF NoLostWakeup
<1> QED
  BY <1>3, <1>4, <1>5, <1>6, <1>7

LEMMA EnterQueueKeeps ==
  ASSUME BulkheadInv, NEW c \in Caller, EnterQueue(c)
  PROVE  BulkheadInv'
<1> USE DEF EnterQueue, BulkheadInv, CountedIn
<1>1. /\ waiters \in Seq(Caller) /\ IsInjective(waiters)
      /\ c \notin ToSet(waiters) /\ c \notin granted /\ c \notin running
  BY DEF BulkheadTypeOK, Busy, Waiting
<1>2. /\ waiters' \in Seq(Caller) /\ Len(waiters') = Len(waiters) + 1
      /\ DOMAIN waiters = 1..Len(waiters) /\ DOMAIN waiters' = 1..(Len(waiters) + 1)
      /\ Len(waiters) \in Nat
      /\ \A i \in 1..(Len(waiters) + 1) :
           waiters'[i] = IF i <= Len(waiters) THEN waiters[i] ELSE c
  BY <1>1
<1>3. /\ \A i \in 1..Len(waiters) : i \in 1..(Len(waiters) + 1) /\ i <= Len(waiters)
      /\ Len(waiters) + 1 \in 1..(Len(waiters) + 1) /\ ~(Len(waiters) + 1 <= Len(waiters))
      /\ \A i \in 1..(Len(waiters) + 1) : i <= Len(waiters) => i \in 1..Len(waiters)
      /\ \A i \in 1..(Len(waiters) + 1) : ~(i <= Len(waiters)) => i = Len(waiters) + 1
  BY <1>2
<1>4. ToSet(waiters') = ToSet(waiters) \cup {c}
  <2>1. ToSet(waiters') = {waiters'[i] : i \in 1..(Len(waiters) + 1)}
    BY <1>2 DEF ToSet
  <2>2. ToSet(waiters) = {waiters[i] : i \in 1..Len(waiters)}
    BY <1>2 DEF ToSet
  <2>3. ToSet(waiters') \subseteq ToSet(waiters) \cup {c}
    BY <2>1, <2>2, <1>2, <1>3
  <2>4. ToSet(waiters) \cup {c} \subseteq ToSet(waiters')
    BY <2>1, <2>2, <1>2, <1>3
  <2> QED
    BY <2>3, <2>4
<1>5. IsInjective(waiters')
  <2>1. \A i \in 1..Len(waiters) : waiters[i] # c
    BY <1>1, <1>2 DEF ToSet
  <2> QED
    BY <2>1, <1>1, <1>2, <1>3 DEF IsInjective
<1>6. Waiting' = Waiting \cup {c} /\ c \notin Waiting /\ Waiting \subseteq Caller
  BY <1>1, <1>4, FiniteCallers DEF Waiting, BulkheadTypeOK
<1>7. Separate'
  BY <1>1, <1>4, <1>6 DEF Separate
<1>8. BulkheadTypeOK'
  BY <1>2, <1>5 DEF BulkheadTypeOK
<1>9. PermitsConserved'
  BY DEF PermitsConserved
<1>10. QueueAccounted'
  <2>1. Cardinality(Waiting') = Cardinality(Waiting) + 1 /\ Cardinality(Waiting) \in Nat
    BY <1>6, FiniteCallers, FS_AddElement
  <2> QED
    BY <2>1, BulkheadAssumption DEF QueueAccounted, BulkheadTypeOK
<1>11. NoLostWakeup'
  BY DEF NoLostWakeup, Unlocked, BulkheadTypeOK
<1> QED
  BY <1>7, <1>8, <1>9, <1>10, <1>11

LEMMA ResumeKeeps ==
  ASSUME BulkheadInv, NEW c \in Caller, Resume(c)
  PROVE  BulkheadInv'
<1> USE DEF Resume, BulkheadInv, CountedOut
<1>1. /\ waiters \in Seq(Caller) /\ IsInjective(waiters) /\ permits \in Nat
      /\ granted \subseteq Caller /\ running \subseteq Caller
      /\ c \in granted /\ c \notin running /\ c \notin ToSet(waiters)
  BY DEF BulkheadTypeOK, Separate, Waiting
<1>2. /\ granted \ {c} \in SUBSET Caller /\ IsFiniteSet(granted \ {c})
      /\ (granted \ {c}) \cap ToSet(waiters) = {}
  BY <1>1, FiniteCallers DEF Separate
<1>3. /\ permits' \in Nat
      /\ waiters' \in Seq(Caller) /\ IsInjective(waiters')
      /\ granted' \subseteq Caller
      /\ granted' \cap ToSet(waiters') = {}
      /\ granted' \cup ToSet(waiters') = (granted \ {c}) \cup ToSet(waiters)
      /\ permits' + Cardinality(granted') = permits + Cardinality(granted \ {c})
      /\ (waiters' # <<>> /\ permits' > 0 => granted' # {})
  BY <1>1, <1>2, WakeConserves
<1>4. Waiting' = Waiting \ {c} /\ c \in Waiting /\ Waiting \subseteq Caller
  BY <1>1, <1>3, FiniteCallers DEF Waiting
<1>5. Separate'
  BY <1>1, <1>3, <1>4 DEF Separate
<1>6. PermitsConserved'
  <2>1. Cardinality(granted \ {c}) = Cardinality(granted) - 1 /\ Cardinality(granted) \in Nat
    BY <1>1, FiniteCallers, FS_RemoveElement
  <2>2. Cardinality(running') = Cardinality(running) + 1 /\ Cardinality(running) \in Nat
    BY <1>1, FiniteCallers, FS_AddElement
  <2>3. Cardinality(granted') \in Nat
    BY <1>3, FiniteCallers
  <2>4. permits' + Cardinality(granted') = permits + Cardinality(granted) - 1
    BY <1>1, <1>3, <2>1
  <2>5. permits + Cardinality(granted) + Cardinality(running) = MaxConcurrent
    BY DEF PermitsConserved
  <2>6. permits' + Cardinality(granted') + Cardinality(running') = MaxConcurrent
    BY <1>1, <1>3, <2>1, <2>2, <2>3, <2>4, <2>5
  <2>7. Cardinality(running') = inFlight'
    BY <2>2 DEF PermitsConserved
  <2> QED
    BY <2>6, <2>7 DEF PermitsConserved
<1>7. QueueAccounted' /\ queueCount' \in Nat
  <2>1. /\ Cardinality(Waiting') = Cardinality(Waiting) - 1
        /\ Cardinality(Waiting) \in Nat /\ Cardinality(Waiting') \in Nat
    BY <1>4, FiniteCallers, FS_RemoveElement
  <2> QED
    BY <2>1, BulkheadAssumption DEF QueueAccounted, BulkheadTypeOK
<1>8. BulkheadTypeOK'
  BY <1>1, <1>3, <1>7 DEF BulkheadTypeOK
<1>9. NoLostWakeup'
  BY <1>3 DEF NoLostWakeup
<1> QED
  BY <1>5, <1>6, <1>7, <1>8, <1>9

LEMMA FinishKeeps ==
  ASSUME BulkheadInv, NEW c \in Caller, Finish(c)
  PROVE  BulkheadInv'
<1> USE DEF Finish, BulkheadInv
<1>1. /\ waiters \in Seq(Caller) /\ IsInjective(waiters) /\ permits \in Nat
      /\ granted \in SUBSET Caller /\ running \subseteq Caller /\ c \in running
      /\ IsFiniteSet(granted) /\ granted \cap ToSet(waiters) = {}
  BY FiniteCallers DEF BulkheadTypeOK, Separate
<1>2. Wake(1, permits + 1, waiters, granted)
  BY DEF ReleasePermit
<1>3. /\ permits' \in Nat
      /\ waiters' \in Seq(Caller) /\ IsInjective(waiters')
      /\ granted' \subseteq Caller
      /\ granted' \cap ToSet(waiters') = {}
      /\ granted' \cup ToSet(waiters') = granted \cup ToSet(waiters)
      /\ permits' + Cardinality(granted') = permits + 1 + Cardinality(granted)
      /\ (waiters' # <<>> /\ permits' > 0 => granted' # {})
  <2>1. permits + 1 \in Nat /\ permits + 1 >= 1 /\ 1 \in Nat
    BY <1>1
  <2> QED
    BY <2>1, <1>1, <1>2, WakeConserves
<1>4. Waiting' = Waiting
  BY <1>3 DEF Waiting
<1>5. Separate'
  BY <1>3, <1>4 DEF Separate
<1>6. PermitsConserved' /\ inFlight' \in Nat
  <2>1. /\ Cardinality(running') = Cardinality(running) - 1
        /\ Cardinality(running) \in Nat /\ Cardinality(running') \in Nat
    BY <1>1, FiniteCallers, FS_RemoveElement
  <2>2. Cardinality(granted) \in Nat /\ Cardinality(granted') \in Nat
    BY <1>1, <1>3, FiniteCallers
  <2> QED
    BY <1>1, <1>3, <2>1, <2>2, BulkheadAssumption DEF PermitsConserved, BulkheadTypeOK
<1>7. QueueAccounted'
  BY <1>4 DEF QueueAccounted
<1>8. BulkheadTypeOK'
  BY <1>1, <1>3, <1>6 DEF BulkheadTypeOK
<1>9. NoLostWakeup'
  BY <1>3 DEF NoLostWakeup
<1> QED
  BY <1>5, <1>6, <1>7, <1>8, <1>9

LEMMA CancelWaitingKeeps ==
  ASSUME BulkheadInv, NEW c \in Caller, CancelWaiting(c)
  PROVE  BulkheadInv'
<1> USE DEF CancelWaiting, BulkheadInv
<1>1. /\ waiters \in Seq(Caller) /\ IsInjective(waiters) /\ permits \in Nat
      /\ granted \in SUBSET Caller /\ running \subseteq Caller
      /\ IsFiniteSet(granted) /\ granted \cap ToSet(waiters) = {}
  BY FiniteCallers DEF BulkheadTypeOK, Separate
<1>2. /\ c \in Waiting
      /\ permits' \in Nat
      /\ waiters' \in Seq(Caller) /\ IsInjective(waiters')
      /\ granted' \subseteq Caller
      /\ granted' \cap ToSet(waiters') = {}
      /\ granted' \cup ToSet(waiters') = Waiting \ {c}
      /\ permits' + Cardinality(granted') = permits + Cardinality(granted)
      /\ (waiters' # <<>> /\ permits' > 0 => granted' # {})
  <2>1. CASE c \in granted /\ Wake(permits + 1, permits + 1, waiters, granted \ {c})
    <3>1. /\ granted \ {c} \in SUBSET Caller /\ IsFiniteSet(granted \ {c})
          /\ (granted \ {c}) \cap ToSet(waiters) = {} /\ permits + 1 \in Nat
      BY <1>1, FiniteCallers
    <3>2. /\ permits' \in Nat
          /\ waiters' \in Seq(Caller) /\ IsInjective(waiters')
          /\ granted' \subseteq Caller
          /\ granted' \cap ToSet(waiters') = {}
          /\ granted' \cup ToSet(waiters') = (granted \ {c}) \cup ToSet(waiters)
          /\ permits' + Cardinality(granted') = permits + 1 + Cardinality(granted \ {c})
          /\ (waiters' # <<>> /\ permits' > 0 => granted' # {})
      BY <1>1, <2>1, <3>1, WakeConserves
    <3>3. Cardinality(granted \ {c}) = Cardinality(granted) - 1 /\ Cardinality(granted) \in Nat
      BY <1>1, <2>1, FS_RemoveElement, FS_CardinalityType
    <3>4. permits + 1 + Cardinality(granted \ {c}) = permits + Cardinality(granted)
      BY <1>1, <3>3
    <3>5. c \in Waiting /\ (granted \ {c}) \cup ToSet(waiters) = Waiting \ {c}
      BY <1>1, <2>1 DEF Waiting
    <3> QED
      BY <3>2, <3>4, <3>5
  <2>2. CASE \E i \in DOMAIN waiters :
               waiters[i] = c /\ Wake(permits, permits, RemoveAt(waiters, i), granted)
    <3>1. PICK i \in DOMAIN waiters :
            waiters[i] = c /\ Wake(permits, permits, RemoveAt(waiters, i), granted)
      BY <2>2
    <3>2. /\ RemoveAt(waiters, i) \in Seq(Caller) /\ IsInjective(RemoveAt(waiters, i))
          /\ ToSet(RemoveAt(waiters, i)) = ToSet(waiters) \ {c}
      BY <1>1, <3>1, RemovedAt
    <3>3. granted \cap ToSet(RemoveAt(waiters, i)) = {}
      BY <1>1, <3>2
    <3>4. /\ permits' \in Nat
          /\ waiters' \in Seq(Caller) /\ IsInjective(waiters')
          /\ granted' \subseteq Caller
          /\ granted' \cap ToSet(waiters') = {}
          /\ granted' \cup ToSet(waiters') = granted \cup ToSet(RemoveAt(waiters, i))
          /\ permits' + Cardinality(granted') = permits + Cardinality(granted)
          /\ (waiters' # <<>> /\ permits' > 0 => granted' # {})
      BY <1>1, <3>1, <3>2, <3>3, WakeConserves
    <3>5. c \in ToSet(waiters)
      BY <3>1 DEF ToSet
    <3>6. c \in Waiting /\ granted \cup (ToSet(waiters) \ {c}) = Waiting \ {c}
      BY <1>1, <3>5 DEF Waiting
    <3> QED
      BY <3>2, <3>4, <3>6
  <2> QED
    BY <2>1, <2>2
<1>3. Waiting' = Waiting \ {c} /\ Waiting \subseteq Caller
  BY <1>1, <1>2, FiniteCallers DEF Waiting
<1>4. Separate'
  BY <1>2, <1>3 DEF Separate
<1>5. PermitsConserved'
  <2>1. Cardinality(granted) \in Nat /\ Cardinality(granted') \in Nat /\ Cardinality(running) \in Nat
    BY <1>1, <1>2, FiniteCallers
  <2> QED
    BY <1>1, <1>2, <2>1 DEF PermitsConserved
<1>6. QueueAccounted'
  <2>1. Cardinality(Waiting') = Cardinality(Waiting) - 1 /\ Cardinality(Waiting) \in Nat
    BY <1>2, <1>3, FiniteCallers, FS_RemoveElement
  <2> QED
    BY <2>1 DEF QueueAccounted, BulkheadTypeOK
<1>7. BulkheadTypeOK'
  BY <1>1, <1>2 DEF BulkheadTypeOK
<1>8. NoLostWakeup'
  BY <1>2 DEF NoLostWakeup
<1> QED
  BY <1>4, <1>5, <1>6, <1>7, <1>8

LEMMA StepBulkhead == BulkheadInv /\ [BulkheadNext]_bulkheadVars => BulkheadInv'
<1> SUFFICES ASSUME BulkheadInv, [BulkheadNext]_bulkheadVars PROVE BulkheadInv'
  OBVIOUS
<1>1. CASE UNCHANGED bulkheadVars
  BY <1>1 DEF bulkheadVars, BulkheadInv, BulkheadTypeOK, Separate, Waiting, PermitsConserved,
              QueueAccounted, NoLostWakeup
<1>2. ASSUME NEW c \in Caller,
             \/ EnterAtOnce(c) \/ EnterQueue(c)
             \/ Resume(c) \/ Finish(c) \/ CancelWaiting(c)
      PROVE  BulkheadInv'
  BY <1>2, EnterAtOnceKeeps, EnterQueueKeeps, ResumeKeeps, FinishKeeps, CancelWaitingKeeps
<1> QED
  BY <1>1, <1>2 DEF BulkheadNext

LEMMA BulkheadInvariant == BulkheadSpec => []BulkheadInv
  BY InitBulkhead, StepBulkhead, PTL DEF BulkheadSpec

-----------------------------------------------------------------------------

\* However calls are cancelled, wherever they are suspended, no permit of the
\* bulkhead's semaphore is lost or made up: at most max_concurrent protected
\* coroutines run, and in_flight says how many.
THEOREM PermitsAlwaysConserved == BulkheadSpec => []PermitsConserved
  BY BulkheadInvariant, PTL DEF BulkheadInv

\* A waiter is never left asleep next to a free permit with nobody on the way
\* to wake it: a cancelled waiter passes its permit on, and one that resumes
\* wakes as many others as there are permits.
THEOREM NoWakeupEverLost == BulkheadSpec => []NoLostWakeup
  BY BulkheadInvariant, PTL DEF BulkheadInv

\* queue_depth stays within max_queue and is too high by exactly the number
\* of calls that were cancelled while they waited: run() never takes them out.
THEOREM QueueAlwaysAccounted == BulkheadSpec => []QueueAccounted
  BY BulkheadInvariant, PTL DEF BulkheadInv

-----------------------------------------------------------------------------
(* The orchestrator                                                        *)

\* A set of naturals has a least element.
LEMMA LeastOf ==
  ASSUME NEW T, T \subseteq Nat, T # {}
  PROVE  \E x \in T : \A y \in T : x <= y
<1>1. IsWellFoundedOn(OpToRel(<, Nat), Nat)
  BY NatLessThanWellFounded, Zenon
<1>2. PICK x \in T : \A y \in T : ~(<<y, x>> \in OpToRel(<, Nat))
  BY <1>1, WFMin, Zenon
<1>3. \A y \in T : ~(y < x)
  BY <1>2 DEF OpToRel
<1> QED
  BY <1>3

LEMMA LeastIsIn ==
  ASSUME NEW T, T \subseteq Nat, T # {}
  PROVE  Min(T) \in T
BY LeastOf DEF Min

Increasing(s) == \A m, k \in DOMAIN s : m < k => s[m] < s[k]

\* The steps of a plan can be put in order: else there is a shortest plan for
\* which they cannot, and its last step can be put at the end.
LEMMA OrderExists ==
  ASSUME NEW N \in Nat, NEW Z \in SUBSET (1..N)
  PROVE  \E s \in [1..Cardinality(Z) -> Z] : Increasing(s)
<1> DEFINE Sorts(S) == \E s \in [1..Cardinality(S) -> S] : Increasing(s)
           Bad == {n \in Nat : \E S \in SUBSET (1..n) : ~Sorts(S)}
<1>1. SUFFICES ASSUME Bad # {}
               PROVE  FALSE
  OBVIOUS
<1>2. PICK n \in Bad : \A k \in Bad : n <= k
  BY <1>1, LeastOf
<1>3. PICK S \in SUBSET (1..n) : ~Sorts(S)
  BY <1>2
<1>4. n \in Nat /\ IsFiniteSet(S) /\ Cardinality(S) \in Nat
  <2>1. n \in Nat /\ IsFiniteSet(1..n)
    BY FS_Interval
  <2> QED
    BY <2>1, FS_Subset, FS_CardinalityType
<1>5. S # {}
  <2> SUFFICES ASSUME S = {}
               PROVE  FALSE
    OBVIOUS
  <2>1. Cardinality(S) = 0
    BY FS_EmptySet
  <2>2. <<>> \in [1..0 -> S] /\ Increasing(<<>>)
    BY DEF Increasing
  <2> QED
    BY <1>3, <2>1, <2>2
<1>6. n # 0 /\ n - 1 \in Nat /\ n - 1 \notin Bad
  <2>1. n # 0
    <3>1. PICK x \in S : TRUE
      BY <1>5
    <3>2. x \in 1..n
      BY <3>1
    <3> QED
      BY <1>4, <3>2
  <2>2. \A k \in Nat : k < n => k \notin Bad
    <3> HIDE DEF Bad
    <3> QED
      BY <1>2, <1>4
  <2>3. n - 1 \in Nat /\ n - 1 < n
    BY <1>4, <2>1
  <2> QED
    BY <2>1, <2>2, <2>3
<1>7. n \in S
  <2> SUFFICES ASSUME n \notin S
               PROVE  FALSE
    OBVIOUS
  <2>1. S \in SUBSET (1..(n - 1))
    BY <1>4
  <2> QED
    BY <1>3, <1>6, <2>1
<1> DEFINE R == S \ {n}
           c == Cardinality(R)
<1>8. R \in SUBSET (1..(n - 1))
  BY <1>4
<1>9. c \in Nat /\ Cardinality(S) = c + 1
  <2>1. IsFiniteSet(R) /\ c = Cardinality(S) - 1
    BY <1>4, <1>7, FS_RemoveElement
  <2>2. c \in Nat
    BY <2>1, FS_CardinalityType
  <2> QED
    BY <1>4, <2>1, <2>2
<1>10. PICK t \in [1..c -> R] : Increasing(t)
  BY <1>6, <1>8
<1> HIDE DEF c
<1> DEFINE s == [k \in 1..(c + 1) |-> IF k = c + 1 THEN n ELSE t[k]]
<1>11. \A k \in 1..c : t[k] \in R /\ t[k] < n
  <2>1. \A x \in R : x < n
    BY <1>4, <1>8
  <2> QED
    BY <1>10, <2>1
<1>12. s \in [1..(c + 1) -> S]
  BY <1>7, <1>9, <1>11
<1>13. Increasing(s)
  BY <1>9, <1>10, <1>11 DEF Increasing
<1> QED
  BY <1>3, <1>9, <1>12, <1>13

\* InOrder(S) has every element of S once.
LEMMA InOrderIsOrder ==
  ASSUME NEW N \in Nat, NEW S \in SUBSET (1..N)
  PROVE  /\ IsFiniteSet(S) /\ Cardinality(S) \in Nat
         /\ InOrder(S) \in Seq(S) /\ Len(InOrder(S)) = Cardinality(S)
         /\ ToSet(InOrder(S)) = S /\ IsInjective(InOrder(S))
<1> DEFINE c == Cardinality(S)
           o == InOrder(S)
<1>1. IsFiniteSet(S) /\ c \in Nat /\ c = Cardinality(S)
  <2>1. IsFiniteSet(1..N)
    BY FS_Interval
  <2> QED
    BY <2>1, FS_Subset, FS_CardinalityType
<1>2. o \in [1..c -> S] /\ Increasing(o)
  BY OrderExists DEF InOrder, Increasing
<1> HIDE DEF o, c
<1>3. \A x \in S : x \in Int
  OBVIOUS
<1>4. IsInjective(o)
  <2> SUFFICES ASSUME NEW a \in 1..c, NEW b \in 1..c, o[a] = o[b]
               PROVE  a = b
    BY <1>2 DEF IsInjective
  <2>1. o[a] \in Int /\ o[b] \in Int /\ a \in Int /\ b \in Int
    <3>1. o[a] \in S /\ o[b] \in S
      BY <1>2
    <3>2. o[a] \in Int /\ o[b] \in Int
      BY <1>3, <3>1
    <3>3. a \in Int /\ b \in Int
      BY <1>1
    <3> QED
      BY <3>2, <3>3
  <2>2. ~(a < b) /\ ~(b < a)
    BY <1>2, <2>1 DEF Increasing
  <2> QED
    BY <2>1, <2>2
<1>5. o \in Surjection(1..c, S)
  <2>1. IsFiniteSet(1..c) /\ Cardinality(1..c) = c
    BY <1>1, FS_Interval
  <2>2. o \in Injection(1..c, S)
    BY <1>2, <1>4 DEF Injection
  <2> QED
    BY <1>1, <2>1, <2>2, FS_Injection
<1>6. ToSet(o) = S
  BY <1>2, <1>5 DEF ToSet, Surjection
<1>7. o \in Seq(S) /\ Len(o) = c
  BY <1>1, <1>2, SeqDef, LenProperties
<1> QED
  BY <1>1, <1>4, <1>6, <1>7 DEF o, c

-----------------------------------------------------------------------------
Returned == phase \in {"reflect", "again", "answered", "failed"}
IdsOf(S) == {plan[i].id : i \in S}
Running == {i \in Position : attempt[i] > 0}

\* What the variables hold, and that the plan leaves room for its gaps.
DispatchTypes ==
  /\ phase \in {"idle", "first", "second", "reflect", "again", "answered", "failed"}
  /\ plan \in Seq(ToSet(plan)) /\ Len(plan) <= MaxSteps
  /\ phase \in {"idle", "first", "reflect"} => Len(plan) + MaxGaps <= MaxSteps
  /\ phase = "idle" => plan = <<>> /\ outputs = <<>>
  /\ outputs \in Seq(Position) /\ earlier \in 0..Len(outputs)
  /\ attempt \in [Position -> Nat]

\* Every step of the plan is in one place, and the results are in an order that
\* the dependencies allow.
StepsPlaced ==
  /\ DOMAIN plan = pending \cup batch \cup ToSet(Results)
  /\ pending \cap batch = {}
  /\ (pending \cup batch) \cap ToSet(Results) = {}
  /\ IsInjective(Results)
  /\ \A n \in DOMAIN Results : \A id \in plan[Results[n]].deps :
       \E m \in 1..(n - 1) : plan[Results[m]].id = id

\* The batch is what the loop may run, and what runs or has ended is of it.
BatchSound ==
  /\ completed = IdsOf(ToSet(Results))
  /\ \A i \in batch : Unblocked(i)
  /\ ~Dispatching => batch = {}
  /\ ended \subseteq batch /\ Sequential(ended) = {}
  /\ Running \subseteq batch \ ended

\* What dispatch() leaves when it returns.
LeftBlocked == Returned => rounds = MaxRounds \/ Ready = {}

DInv == DispatchTypes /\ StepsPlaced /\ BatchSound /\ LeftBlocked

\* The contexts under the nodes of the steps in progress are the execution's.
TracerSound ==
  /\ stack \in Seq({"execution"} \cup Position)
  /\ Dispatching =>
       /\ Len(stack) = 2 + Cardinality(Running)
       /\ stack[1] = "execution" /\ stack[2] = "execution"
  /\ phase \in {"reflect", "again"} => stack = <<"execution">>
  /\ \A i \in DOMAIN plan :
       plan[i].mode = "sequential" => parent[i] \in {"none", "execution"}
  /\ \A i \in Position \ DOMAIN plan : parent[i] = "none"

-----------------------------------------------------------------------------
\* What follows the first e elements.
LEMMA RestOf ==
  ASSUME NEW T, NEW s \in Seq(T), NEW e \in 0..Len(s)
  PROVE  LET r == SubSeq(s, e + 1, Len(s)) IN
         /\ r \in Seq(T) /\ Len(r) = Len(s) - e /\ DOMAIN r = 1..(Len(s) - e)
         /\ \A n \in 1..(Len(s) - e) : r[n] = s[n + e]
<1> DEFINE m == e + 1
           l == Len(s)
           r == SubSeq(s, m, l)
<1>1. m \in Int /\ l \in Int /\ l \in Nat /\ \A n \in m..l : s[n] \in T
  BY LenProperties
<1>2. l - e \in Nat /\ l - m + 1 = l - e /\ (IF m <= l THEN l - m + 1 ELSE 0) = l - e
  BY <1>1
<1>3. \A n \in 1..(l - e) : m + n - 1 = n + e
  BY <1>1
<1> HIDE DEF m, l
<1>4. r \in Seq(T) /\ Len(r) = l - e /\ \A n \in 1..(l - e) : r[n] = s[m + n - 1]
  BY <1>1, <1>2, SubSeqProperties
<1>5. DOMAIN r = 1..(l - e)
  BY <1>4, LenProperties
<1>6. \A n \in 1..(l - e) : r[n] = s[n + e]
  BY <1>3, <1>4
<1> QED
  BY <1>4, <1>5, <1>6 DEF m, l

\* The results are what outputs holds after the first dispatch's, and new
\* outputs are new results.
LEMMA ResultsAre ==
  ASSUME DispatchTypes
  PROVE  /\ Results \in Seq(Position) /\ Len(Results) = Len(outputs) - earlier
         /\ DOMAIN Results = 1..Len(Results)
         /\ \A n \in 1..Len(Results) : Results[n] = outputs[n + earlier]
<1>1. outputs \in Seq(Position) /\ earlier \in 0..Len(outputs)
  BY DEF DispatchTypes
<1> QED
  BY <1>1, RestOf, Zenon DEF Results

LEMMA ResultsGrow ==
  ASSUME DispatchTypes, NEW o \in Seq(Position), outputs' = outputs \o o, earlier' = earlier
  PROVE  /\ Results' = Results \o o
         /\ outputs' \in Seq(Position) /\ earlier' \in 0..Len(outputs')
<1>1. outputs \in Seq(Position) /\ Len(outputs) \in Nat /\ earlier \in 0..Len(outputs)
      /\ Len(o) \in Nat
  BY DEF DispatchTypes
<1>2. /\ outputs' \in Seq(Position)
      /\ Len(outputs') = Len(outputs) + Len(o)
      /\ \A i \in 1..(Len(outputs) + Len(o)) :
           outputs'[i] = IF i <= Len(outputs) THEN outputs[i] ELSE o[i - Len(outputs)]
  BY <1>1, ConcatProperties
<1>3. earlier' \in 0..Len(outputs')
  BY <1>1, <1>2
<1>4. /\ Results' \in Seq(Position)
      /\ Len(Results') = Len(outputs') - earlier
      /\ \A n \in 1..Len(Results') : Results'[n] = outputs'[n + earlier]
  <2> DEFINE r == SubSeq(outputs', earlier' + 1, Len(outputs'))
  <2>1. Results' = r
    BY DEF Results
  <2>2. /\ r \in Seq(Position) /\ Len(r) = Len(outputs') - earlier'
        /\ \A n \in 1..(Len(outputs') - earlier') : r[n] = outputs'[n + earlier']
    BY <1>2, <1>3, RestOf, Zenon
  <2> HIDE DEF r
  <2> QED
    BY <2>1, <2>2
<1>5. /\ Results \in Seq(Position) /\ Len(Results) = Len(outputs) - earlier
      /\ \A n \in 1..Len(Results) : Results[n] = outputs[n + earlier]
  BY ResultsAre
<1>6. /\ Results \o o \in Seq(Position)
      /\ Len(Results \o o) = Len(Results) + Len(o)
      /\ \A i \in 1..(Len(Results) + Len(o)) :
           (Results \o o)[i] = IF i <= Len(Results) THEN Results[i] ELSE o[i - Len(Results)]
  BY <1>5, ConcatProperties
<1> DEFINE l == Len(outputs)
           c == Len(o)
           old == Len(Results)
           new == Len(Results')
<1>7. l \in Nat /\ c \in Nat /\ earlier \in 0..l /\ old = l - earlier /\ new = l + c - earlier
  BY <1>1, <1>2, <1>4, <1>5
<1>8. new = Len(Results \o o)
  BY <1>6, <1>7
<1>9. \A i \in 1..new : Results'[i] = (Results \o o)[i]
  <2> HIDE DEF l, c, old, new
  <2> SUFFICES ASSUME NEW i \in 1..new
               PROVE  Results'[i] = (Results \o o)[i]
    OBVIOUS
  <2>1. i \in Int /\ i + earlier \in 1..(l + c) /\ i \in 1..(old + c)
        /\ (i <= old <=> i + earlier <= l) /\ (i + earlier) - l = i - old
    BY <1>7
  <2>2. Results'[i] = IF i + earlier <= l THEN outputs[i + earlier] ELSE o[(i + earlier) - l]
    <3>1. outputs'[i + earlier] = IF i + earlier <= l THEN outputs[i + earlier]
                                  ELSE o[(i + earlier) - l]
      BY <1>2, <2>1 DEF l, c
    <3> QED
      BY <1>4, <3>1 DEF new
  <2>3. (Results \o o)[i] = IF i <= old THEN Results[i] ELSE o[i - old]
    BY <1>6, <2>1 DEF c, old
  <2>4. i <= old => Results[i] = outputs[i + earlier]
    <3> SUFFICES ASSUME i <= old
                 PROVE  Results[i] = outputs[i + earlier]
      OBVIOUS
    <3>1. i \in 1..old
      BY <1>7, <2>1
    <3> QED
      BY <1>5, <3>1 DEF old
  <2> QED
    BY <2>1, <2>2, <2>3, <2>4
<1>10. Results' = Results \o o
  BY <1>4, <1>6, <1>8, <1>9, SeqEqual
<1> QED
  BY <1>2, <1>3, <1>10

\* What two sequences are, one after the other.
LEMMA Joined ==
  ASSUME NEW T, NEW s \in Seq(T), NEW t \in Seq(T)
  PROVE  /\ DOMAIN (s \o t) = 1..(Len(s) + Len(t))
         /\ ToSet(s \o t) = ToSet(s) \cup ToSet(t)
         /\ \A n \in 1..Len(s) : (s \o t)[n] = s[n] /\ s[n] \in ToSet(s)
         /\ \A n \in (Len(s) + 1)..(Len(s) + Len(t)) : (s \o t)[n] \in ToSet(t)
         /\ (IsInjective(s) /\ IsInjective(t) /\ ToSet(s) \cap ToSet(t) = {}
               => IsInjective(s \o t))
<1> DEFINE a == Len(s)
           b == Len(t)
           j == s \o t
<1>1. a \in Nat /\ b \in Nat /\ DOMAIN s = 1..a /\ DOMAIN t = 1..b
  BY LenProperties
<1>2. DOMAIN j = 1..(a + b)
      /\ \A n \in 1..(a + b) : j[n] = IF n <= a THEN s[n] ELSE t[n - a]
  <2>1. j \in Seq(T) /\ Len(j) = a + b
        /\ \A n \in 1..(a + b) : j[n] = IF n <= a THEN s[n] ELSE t[n - a]
    BY ConcatProperties
  <2> QED
    BY <2>1, LenProperties
<1> HIDE DEF a, b, j
<1>3. \A n \in 1..a : n \in 1..(a + b) /\ j[n] = s[n] /\ s[n] \in ToSet(s)
  BY <1>1, <1>2 DEF ToSet
<1>4. \A n \in 1..b : a + n \in 1..(a + b) /\ j[a + n] = t[n] /\ t[n] \in ToSet(t)
  <2> SUFFICES ASSUME NEW n \in 1..b
               PROVE  a + n \in 1..(a + b) /\ j[a + n] = t[n] /\ t[n] \in ToSet(t)
    OBVIOUS
  <2>1. a + n \in 1..(a + b) /\ ~(a + n <= a) /\ (a + n) - a = n
    BY <1>1
  <2>2. t[n] \in ToSet(t)
    BY <1>1 DEF ToSet
  <2>3. j[a + n] = t[(a + n) - a]
    BY <1>2, <2>1
  <2> QED
    BY <2>1, <2>2, <2>3
<1>5. \A n \in 1..(a + b) : n \in 1..a \/ \E m \in 1..b : n = a + m
  <2> SUFFICES ASSUME NEW n \in 1..(a + b), n \notin 1..a
               PROVE  \E m \in 1..b : n = a + m
    OBVIOUS
  <2>1. n - a \in 1..b /\ n = a + (n - a)
    BY <1>1
  <2> QED
    BY <2>1
<1>6. ToSet(j) = ToSet(s) \cup ToSet(t)
  <2>1. \A n \in 1..(a + b) : j[n] \in ToSet(s) \cup ToSet(t)
    BY <1>3, <1>4, <1>5
  <2>2. \A n \in 1..a : s[n] \in ToSet(j)
    BY <1>2, <1>3 DEF ToSet
  <2>3. \A n \in 1..b : t[n] \in ToSet(j)
    BY <1>2, <1>4 DEF ToSet
  <2> QED
    BY <1>1, <1>2, <2>1, <2>2, <2>3 DEF ToSet
<1>7. \A n \in (a + 1)..(a + b) : j[n] \in ToSet(t)
  <2> SUFFICES ASSUME NEW n \in (a + 1)..(a + b)
               PROVE  j[n] \in ToSet(t)
    OBVIOUS
  <2>1. n \in 1..(a + b) /\ n \notin 1..a
    BY <1>1
  <2> QED
    BY <1>4, <1>5, <2>1
<1>8. ASSUME IsInjective(s), IsInjective(t), ToSet(s) \cap ToSet(t) = {}
      PROVE  IsInjective(j)
  <2> SUFFICES ASSUME NEW m \in 1..(a + b), NEW n \in 1..(a + b), j[m] = j[n]
               PROVE  m = n
    BY <1>2 DEF IsInjective
  <2>1. CASE m \in 1..a /\ n \in 1..a
    BY <1>1, <1>3, <1>8, <2>1 DEF IsInjective
  <2>2. CASE m \in 1..a /\ n \notin 1..a
    BY <1>3, <1>4, <1>5, <1>8, <2>2
  <2>3. CASE m \notin 1..a /\ n \in 1..a
    BY <1>3, <1>4, <1>5, <1>8, <2>3
  <2>4. CASE m \notin 1..a /\ n \notin 1..a
    <3>1. PICK x \in 1..b : m = a + x
      BY <1>5, <2>4
    <3>2. PICK y \in 1..b : n = a + y
      BY <1>5, <2>4
    <3>3. t[x] = t[y]
      BY <1>4, <3>1, <3>2
    <3>4. x = y
      BY <1>1, <1>8, <3>3 DEF IsInjective
    <3> QED
      BY <3>1, <3>2, <3>4
  <2> QED
    BY <2>1, <2>2, <2>3, <2>4
<1> QED
  BY <1>2, <1>3, <1>6, <1>7, <1>8 DEF a, b, j

\* A sequence is one of its elements.
LEMMA OfItsElements ==
  ASSUME NEW T, NEW s \in Seq(T)
  PROVE  s \in Seq(ToSet(s))
<1>1. s \in [1..Len(s) -> ToSet(s)] /\ Len(s) \in Nat
  BY LenProperties DEF ToSet
<1> QED
  BY <1>1, SeqDef

-----------------------------------------------------------------------------
LEMMA InitDispatch == DispatchInit => DInv
<1> SUFFICES ASSUME DispatchInit
             PROVE  DInv
  OBVIOUS
<1> USE DEF DispatchInit
<1>1. <<>> \in Seq(Position) /\ <<>> \in Seq(ToSet(<<>>)) /\ Len(<<>>) = 0 /\ DOMAIN <<>> = {}
  OBVIOUS
<1>2. Results = <<>> /\ ToSet(<<>>) = {}
  BY <1>1, SubSeqEmpty DEF Results, ToSet
<1>3. MaxSteps \in Nat /\ MaxGaps \in Nat /\ Len(Fallback) + MaxGaps <= MaxSteps
      /\ Len(Fallback) = 3
  BY DispatchAssumption DEF Fallback
<1>4. DispatchTypes
  BY <1>1, <1>3 DEF DispatchTypes
<1>5. StepsPlaced
  BY <1>1, <1>2 DEF StepsPlaced, IsInjective
<1>6. BatchSound
  BY <1>2 DEF BatchSound, IdsOf, Dispatching, Sequential, Running
<1>7. LeftBlocked
  BY DEF LeftBlocked, Returned
<1> QED
  BY <1>4, <1>5, <1>6, <1>7 DEF DInv

\* dispatch() begins with every step of the plan, and with no result.
LEMMA EnterKeeps ==
  ASSUME DInv, batch = {}, NEW p, p \in Seq(ToSet(p)), Len(p) <= MaxSteps,
         plan' = p, Enter(p), outputs' = outputs, earlier' = Len(outputs),
         phase' \in {"first", "second"},
         phase' = "first" => Len(p) + MaxGaps <= MaxSteps
  PROVE  DInv'
<1> USE DEF Enter
<1>1. outputs \in Seq(Position) /\ Len(outputs) \in Nat /\ earlier' \in 0..Len(outputs')
  BY DEF DInv, DispatchTypes
<1>2. Results' = <<>> /\ ToSet(<<>>) = {} /\ DOMAIN <<>> = {}
  <2>1. SubSeq(outputs, Len(outputs) + 1, Len(outputs)) = <<>>
    <3> DEFINE l == Len(outputs)
    <3>1. l \in Int /\ l + 1 \in Int /\ l < l + 1
      BY <1>1
    <3> HIDE DEF l
    <3>2. SubSeq(outputs, l + 1, l) = <<>>
      BY <3>1, SubSeqEmpty
    <3> QED
      BY <3>2 DEF l
  <2> QED
    BY <2>1 DEF Results, ToSet
<1>3. DispatchTypes'
  BY <1>1 DEF DInv, DispatchTypes
<1>4. StepsPlaced'
  BY <1>2 DEF StepsPlaced, IsInjective
<1>5. ended = {} /\ Running = {}
  BY DEF DInv, BatchSound
<1>6. BatchSound'
  BY <1>2, <1>5 DEF BatchSound, IdsOf, Dispatching, Sequential, Running
<1>7. LeftBlocked'
  BY DEF LeftBlocked, Returned
<1> QED
  BY <1>3, <1>4, <1>6, <1>7 DEF DInv

LEMMA AskKeeps == DInv /\ Ask => DInv'
<1> SUFFICES ASSUME DInv, Ask
             PROVE  DInv'
  OBVIOUS
<1>1. PICK p \in Plans \cup {Fallback} : plan' = p /\ Enter(p)
  BY DEF Ask
<1>2. phase = "idle" /\ phase' = "first" /\ earlier' = earlier /\ outputs' = outputs
  BY DEF Ask
<1>3. batch = {} /\ outputs = <<>> /\ earlier = 0
  BY <1>2 DEF DInv, DispatchTypes, BatchSound, Dispatching
<1>4. p \in Seq(ToSet(p)) /\ Len(p) \in Nat
  <2>1. Fallback \in Seq({Fallback[1], Fallback[2], Fallback[3]})
    BY DEF Fallback
  <2>2. Fallback \in Seq(ToSet(Fallback))
    BY <2>1, OfItsElements
  <2>3. p \in Seq(ToSet(p))
    BY <2>2, DispatchAssumption
  <2> QED
    BY <2>3, LenProperties
<1>5. MaxSteps \in Nat /\ MaxGaps \in Nat /\ Len(p) + MaxGaps <= MaxSteps
  BY DispatchAssumption
<1>6. Len(p) <= MaxSteps
  BY <1>4, <1>5
<1>7. earlier' = Len(outputs)
  BY <1>2, <1>3
<1> QED
  BY <1>1, <1>2, <1>3, <1>4, <1>5, <1>6, <1>7, EnterKeeps

\* An expanded plan has the gaps' steps after its own.
LEMMA ExpandedIs ==
  ASSUME NEW p, p \in Seq(ToSet(p)), NEW n \in Nat
  PROVE  /\ Expanded(p, n) \in Seq(ToSet(Expanded(p, n)))
         /\ Len(Expanded(p, n)) = Len(p) + n
         /\ DOMAIN Expanded(p, n) = 1..(Len(p) + n)
         /\ \A i \in DOMAIN p : i \in DOMAIN Expanded(p, n) /\ Expanded(p, n)[i] = p[i]
<1> DEFINE g == [k \in 1..n |-> PlanStep(GapId[k], "research", StepIds(p), "sequential")]
           T == ToSet(p) \cup {g[k] : k \in 1..n}
<1>1. g \in Seq(T) /\ Len(g) = n
  <2>1. g \in [1..n -> T]
    OBVIOUS
  <2> HIDE DEF g, T
  <2>2. g \in Seq(T)
    BY <2>1, SeqDef
  <2> QED
    BY <2>1, <2>2, LenProperties
<1>2. p \in Seq(T) /\ DOMAIN p = 1..Len(p) /\ Len(p) \in Nat
  BY SeqMonotonic, LenProperties
<1>3. Expanded(p, n) = p \o g
  BY DEF Expanded
<1> HIDE DEF g, T
<1>4. p \o g \in Seq(T) /\ Len(p \o g) = Len(p) + n
      /\ DOMAIN (p \o g) = 1..(Len(p) + n) /\ \A i \in 1..Len(p) : (p \o g)[i] = p[i]
  BY <1>1, <1>2, Joined, ConcatProperties
<1>5. p \o g \in Seq(ToSet(p \o g))
  BY <1>4, OfItsElements
<1>6. \A i \in 1..Len(p) : i \in 1..(Len(p) + n)
  BY <1>2
<1> QED
  BY <1>2, <1>3, <1>4, <1>5, <1>6

LEMMA ExpandKeeps == DInv /\ Expand => DInv'
<1> SUFFICES ASSUME DInv, Expand
             PROVE  DInv'
  OBVIOUS
<1>1. PICK n \in 0..MaxGaps : plan' = Expanded(plan, n) /\ Enter(plan')
  BY DEF Expand
<1>2. phase = "reflect" /\ phase' = "second" /\ earlier' = Len(outputs) /\ outputs' = outputs
  BY DEF Expand
<1>3. batch = {}
  BY <1>2 DEF DInv, BatchSound, Dispatching
<1>4. plan \in Seq(ToSet(plan)) /\ Len(plan) + MaxGaps <= MaxSteps /\ Len(plan) \in Nat
  <2>1. plan \in Seq(ToSet(plan)) /\ Len(plan) + MaxGaps <= MaxSteps
    BY <1>2 DEF DInv, DispatchTypes
  <2> QED
    BY <2>1, LenProperties
<1>5. MaxGaps \in Nat /\ MaxSteps \in Nat /\ n \in Nat /\ n <= MaxGaps
  BY DispatchAssumption
<1>6. plan' \in Seq(ToSet(plan')) /\ Len(plan') = Len(plan) + n
  BY <1>1, <1>4, <1>5, ExpandedIs
<1>7. Len(plan') <= MaxSteps
  BY <1>4, <1>5, <1>6
<1> DEFINE p == plan'
<1> HIDE DEF p
<1>8. p \in Seq(ToSet(p)) /\ Len(p) <= MaxSteps /\ plan' = p /\ Enter(p)
  BY <1>1, <1>6, <1>7 DEF p
<1> QED
  BY <1>2, <1>3, <1>8, EnterKeeps

\* Steps of the batch get their results: they can only depend on steps that
\* have one.
LEMMA CollectKeeps ==
  ASSUME DInv, NEW S \in SUBSET batch, Collect(S), phase' = phase, Dispatching,
         attempt' \in [Position -> Nat],
         ended' \subseteq batch \ S, Sequential(ended') = {},
         \A i \in Position : attempt'[i] > 0 => i \in (batch \ S) \ ended'
  PROVE  DInv'
<1> DEFINE o == InOrder(S)
<1>1. outputs' = outputs \o o /\ completed' = completed \cup IdsOf(S) /\ batch' = batch \ S
      /\ phase' = phase /\ plan' = plan /\ earlier' = earlier /\ pending' = pending /\ rounds' = rounds
  BY DEF Collect, planVars, IdsOf
<1>2. S \in SUBSET Position /\ MaxSteps \in Nat
  <2>1. Len(plan) \in Nat /\ Len(plan) <= MaxSteps /\ DOMAIN plan = 1..Len(plan)
    BY LenProperties DEF DInv, DispatchTypes
  <2>2. MaxSteps \in Nat
    BY DispatchAssumption
  <2>3. DOMAIN plan \subseteq Position
    BY <2>1, <2>2 DEF Position
  <2>4. batch \subseteq DOMAIN plan
    BY DEF DInv, StepsPlaced
  <2> QED
    BY <2>2, <2>3, <2>4
<1>3. o \in Seq(S) /\ ToSet(o) = S /\ IsInjective(o)
  BY <1>2, InOrderIsOrder DEF Position
<1> HIDE DEF o
<1>4. o \in Seq(Position) /\ Len(o) \in Nat
  BY <1>2, <1>3, SeqMonotonic, LenProperties
<1>5. DispatchTypes
  BY DEF DInv
<1>6. Results' = Results \o o /\ outputs' \in Seq(Position) /\ earlier' \in 0..Len(outputs')
  BY <1>1, <1>4, <1>5, ResultsGrow
<1>7. Results \in Seq(Position) /\ DOMAIN Results = 1..Len(Results) /\ Len(Results) \in Nat
  BY <1>5, ResultsAre, LenProperties
<1> DEFINE R == Results
           a == Len(Results)
           b == Len(o)
<1>8. /\ DOMAIN (R \o o) = 1..(a + b)
      /\ ToSet(R \o o) = ToSet(R) \cup ToSet(o)
      /\ \A n \in 1..a : (R \o o)[n] = R[n] /\ R[n] \in ToSet(R)
      /\ \A n \in (a + 1)..(a + b) : (R \o o)[n] \in ToSet(o)
      /\ (IsInjective(R) /\ IsInjective(o) /\ ToSet(R) \cap ToSet(o) = {}
            => IsInjective(R \o o))
  BY <1>4, <1>7, Joined, Zenon
<1>9. ToSet(Results') = ToSet(Results) \cup S
  BY <1>3, <1>6, <1>8
<1>10. DispatchTypes'
  BY <1>1, <1>6 DEF DInv, DispatchTypes, Dispatching
<1>11. StepsPlaced'
  <2>1. /\ DOMAIN plan = pending \cup batch \cup ToSet(Results)
        /\ pending \cap batch = {} /\ (pending \cup batch) \cap ToSet(Results) = {}
        /\ IsInjective(Results)
    BY DEF DInv, StepsPlaced
  <2>2. IsInjective(Results')
    BY <1>3, <1>6, <1>8, <2>1
  <2>3. ASSUME NEW n \in DOMAIN Results', NEW id \in plan[Results'[n]].deps
        PROVE  \E m \in 1..(n - 1) : plan[Results'[m]].id = id
    <3>0. n \in 1..(a + b)
      BY <1>6, <1>8
    <3>1. CASE n \in 1..a
      <4>1. Results'[n] = Results[n]
        BY <1>6, <1>8, <3>1
      <4>2. PICK m \in 1..(n - 1) : plan[Results[m]].id = id
        BY <1>7, <2>3, <3>1, <4>1 DEF DInv, StepsPlaced
      <4>3. m \in 1..a
        BY <1>7, <3>1
      <4>4. Results'[m] = Results[m]
        BY <1>6, <1>8, <4>3
      <4> QED
        BY <4>2, <4>4
    <3>2. CASE n \notin 1..a
      <4>1. n \in (a + 1)..(a + b)
        BY <1>4, <1>7, <3>0, <3>2
      <4>2. Results'[n] \in batch
        BY <1>3, <1>6, <1>8, <4>1
      <4>3. id \in completed
        BY <2>3, <4>2 DEF DInv, BatchSound, Unblocked
      <4>4. PICK i \in ToSet(Results) : plan[i].id = id
        BY <4>3 DEF DInv, BatchSound, IdsOf
      <4>5. PICK m \in 1..a : Results[m] = i
        BY <1>7, <4>4 DEF ToSet
      <4>6. m \in 1..(n - 1)
        BY <1>4, <1>7, <4>1
      <4>7. Results'[m] = i
        BY <1>6, <1>8, <4>5
      <4> QED
        BY <4>4, <4>6, <4>7
    <3> QED
      BY <3>1, <3>2
  <2>4. /\ DOMAIN plan = pending \cup (batch \ S) \cup ToSet(Results')
        /\ pending \cap (batch \ S) = {} /\ (pending \cup (batch \ S)) \cap ToSet(Results') = {}
    BY <1>9, <2>1
  <2> QED
    BY <1>1, <2>2, <2>3, <2>4 DEF StepsPlaced
<1>12. BatchSound'
  <2>1. completed' = {plan'[i].id : i \in ToSet(Results')}
    BY <1>1, <1>9 DEF DInv, BatchSound, IdsOf
  <2>2. \A i \in batch' : Unblocked(i)'
    BY <1>1 DEF DInv, BatchSound, Unblocked
  <2>3. Dispatching'
    BY <1>1 DEF Dispatching
  <2>4. ended' \subseteq batch' /\ Running' \subseteq batch' \ ended'
    BY <1>1 DEF Running
  <2>5. (Sequential(ended))' = {}
    BY <1>1 DEF Sequential
  <2> QED
    BY <2>1, <2>2, <2>3, <2>4, <2>5 DEF BatchSound, IdsOf
<1>13. LeftBlocked'
  BY <1>1 DEF Dispatching, LeftBlocked, Returned
<1> QED
  BY <1>10, <1>11, <1>12, <1>13 DEF DInv

\* Nothing is collected: the places and results of the steps stay.
LEMMA PlacesKept ==
  ASSUME DInv, UNCHANGED <<plan, earlier, outputs, pending, batch>>
  PROVE  Results' = Results /\ StepsPlaced'
<1>1. Results' = Results
  BY DEF Results
<1>2. StepsPlaced'
  BY <1>1 DEF DInv, StepsPlaced
<1> QED
  BY <1>1, <1>2

\* What only the attempts and the ended steps change.
LEMMA AttemptsKeep ==
  ASSUME DInv, UNCHANGED <<planVars, loopVars>>,
         attempt' \in [Position -> Nat],
         ended' \subseteq batch, Sequential(ended') = {},
         \A i \in Position : attempt'[i] > 0 => i \in batch \ ended'
  PROVE  DInv'
<1> USE DEF planVars, loopVars
<1>1. Results' = Results /\ StepsPlaced'
  BY PlacesKept
<1>2. DispatchTypes'
  BY DEF DInv, DispatchTypes
<1>3. BatchSound'
  <2>1. completed' = IdsOf(ToSet(Results))'
    BY <1>1 DEF DInv, BatchSound, IdsOf
  <2>2. \A i \in batch' : Unblocked(i)'
    BY DEF DInv, BatchSound, Unblocked
  <2>3. (~Dispatching => batch = {})'
    BY DEF DInv, BatchSound, Dispatching
  <2>4. ended' \subseteq batch' /\ Running' \subseteq batch' \ ended'
    BY DEF Running
  <2>5. (Sequential(ended))' = {}
    BY DEF Sequential
  <2> QED
    BY <2>1, <2>2, <2>3, <2>4, <2>5 DEF BatchSound
<1>4. LeftBlocked'
  BY DEF DInv, LeftBlocked, Returned, Ready, Unblocked
<1> QED
  BY <1>1, <1>2, <1>3, <1>4 DEF DInv

LEMMA ReflectionKeeps == DInv /\ (Answer \/ Crash) => DInv'
<1> SUFFICES ASSUME DInv, Answer \/ Crash
             PROVE  DInv'
  OBVIOUS
<1>1. /\ phase \in {"reflect", "again"} /\ phase' \in {"answered", "failed"}
      /\ UNCHANGED <<plan, earlier, pending, batch, completed, rounds, outputs, attempt, ended>>
  BY DEF Answer, Crash, loopVars
<1>2. Results' = Results /\ StepsPlaced'
  BY <1>1, PlacesKept
<1>3. DispatchTypes'
  BY <1>1 DEF DInv, DispatchTypes
<1>4. BatchSound'
  BY <1>1, <1>2 DEF DInv, BatchSound, IdsOf, Unblocked, Dispatching, Sequential, Running
<1>5. LeftBlocked'
  BY <1>1 DEF DInv, LeftBlocked, Returned, Ready, Unblocked
<1> QED
  BY <1>2, <1>3, <1>4, <1>5 DEF DInv

LEMMA NextRoundKeeps == DInv /\ NextRound => DInv'
<1> SUFFICES ASSUME DInv, NextRound
             PROVE  DInv'
  OBVIOUS
<1>1. /\ Dispatching /\ batch = {} /\ batch' = Ready /\ pending' = pending \ Ready
      /\ UNCHANGED <<phase, plan, earlier, completed, outputs, attempt, ended>>
  BY DEF NextRound, planVars
<1>2. Results' = Results /\ Ready \subseteq pending
  BY <1>1 DEF Results, Ready
<1>3. DispatchTypes'
  BY <1>1 DEF DInv, DispatchTypes
<1>4. StepsPlaced'
  BY <1>1, <1>2 DEF DInv, StepsPlaced
<1>5. BatchSound'
  <2>1. \A i \in batch' : Unblocked(i)'
    BY <1>1 DEF Ready, Unblocked
  <2>2. ended = {} /\ Running = {} /\ completed = IdsOf(ToSet(Results))
    BY <1>1 DEF DInv, BatchSound
  <2>3. ended' = {} /\ Running' = {} /\ completed' = IdsOf(ToSet(Results))'
    BY <1>1, <1>2, <2>2 DEF Running, IdsOf
  <2> QED
    BY <1>1, <2>1, <2>3 DEF BatchSound, Dispatching, Sequential
<1>6. LeftBlocked'
  BY <1>1 DEF LeftBlocked, Returned, Dispatching
<1> QED
  BY <1>3, <1>4, <1>5, <1>6 DEF DInv

\* dispatch() returns where no pending step may run.
LEMMA ReturnKeeps == DInv /\ Return => DInv'
<1> SUFFICES ASSUME DInv, Return
             PROVE  DInv'
  OBVIOUS
<1>1. /\ Dispatching /\ batch = {} /\ (rounds = MaxRounds \/ Ready = {})
      /\ phase' \in {"reflect", "again"} /\ (phase' = "reflect" => phase = "first")
      /\ UNCHANGED <<plan, earlier, pending, batch, completed, rounds, outputs, attempt, ended>>
  BY DEF Return, loopVars, NothingReady
<1>2. Results' = Results /\ StepsPlaced'
  BY <1>1, PlacesKept
<1>3. DispatchTypes'
  BY <1>1 DEF DInv, DispatchTypes
<1>4. BatchSound'
  BY <1>1, <1>2 DEF DInv, BatchSound, IdsOf, Unblocked, Dispatching, Sequential, Running
<1>5. LeftBlocked'
  BY <1>1 DEF LeftBlocked, Returned, Ready, Unblocked
<1> QED
  BY <1>2, <1>3, <1>4, <1>5 DEF DInv

\* A step in the batch is a position.
LEMMA BatchIsOfPlan ==
  ASSUME DInv
  PROVE  /\ batch \subseteq Position /\ DOMAIN plan \subseteq Position
         /\ batch \subseteq DOMAIN plan /\ MaxSteps \in Nat
<1>1. Len(plan) \in Nat /\ Len(plan) <= MaxSteps /\ DOMAIN plan = 1..Len(plan)
  BY LenProperties DEF DInv, DispatchTypes
<1>2. MaxSteps \in Nat
  BY DispatchAssumption
<1>3. DOMAIN plan \subseteq Position
  BY <1>1, <1>2 DEF Position
<1>4. batch \subseteq DOMAIN plan
  BY DEF DInv, StepsPlaced
<1> QED
  BY <1>2, <1>3, <1>4

LEMMA StartSequentialKeeps == DInv /\ StartSequential => DInv'
<1> SUFFICES ASSUME DInv, StartSequential
             PROVE  DInv'
  OBVIOUS
<1> DEFINE i == Min(Sequential(batch))
<1>1. /\ Dispatching /\ \A j \in Position : attempt[j] = 0
      /\ Sequential(batch) # {} /\ ended' = ended
      /\ IF Known(i) THEN attempt' = [attempt EXCEPT ![i] = 1] /\ UNCHANGED <<planVars, loopVars>>
                     ELSE Collect({i}) /\ UNCHANGED attempt
  BY DEF StartSequential
<1>2. batch \subseteq Position /\ Position \subseteq Nat
  BY BatchIsOfPlan DEF Position
<1>3. i \in Sequential(batch)
  <2>1. Sequential(batch) \subseteq Nat
    BY <1>2 DEF Sequential
  <2> QED
    BY <1>1, <2>1, LeastIsIn
<1>4. ended \subseteq batch /\ Sequential(ended) = {} /\ attempt \in [Position -> Nat]
  BY DEF DInv, BatchSound, DispatchTypes
<1>5. i \in batch /\ i \in Position /\ i \notin ended
  BY <1>2, <1>3, <1>4 DEF Sequential
<1> HIDE DEF i
<1>6. CASE Known(i)
  <2>1. attempt' = [attempt EXCEPT ![i] = 1] /\ UNCHANGED <<planVars, loopVars>>
    BY <1>1, <1>6
  <2>2. attempt' \in [Position -> Nat] /\ \A j \in Position : attempt'[j] > 0 => j = i
    <3>1. attempt' \in [Position -> Nat]
      BY <1>4, <2>1
    <3>2. \A j \in Position \ {i} : attempt'[j] = 0
      BY <1>1, <1>4, <2>1
    <3>3. \A j \in Position \ {i} : ~(attempt'[j] > 0)
      BY <3>2
    <3> QED
      BY <3>1, <3>3
  <2> QED
    BY <1>1, <1>4, <1>5, <2>1, <2>2, AttemptsKeep
<1>7. CASE ~Known(i)
  <2>1. Collect({i}) /\ attempt' = attempt /\ phase' = phase
    BY <1>1, <1>7 DEF Collect, planVars
  <2>2. \A j \in Position : ~(attempt'[j] > 0)
    BY <1>1, <2>1
  <2>3. {i} \in SUBSET batch /\ ended' \subseteq batch \ {i} /\ Sequential(ended') = {}
        /\ attempt' \in [Position -> Nat]
    BY <1>1, <1>4, <1>5, <2>1
  <2> QED
    BY <1>1, <2>1, <2>2, <2>3, CollectKeeps
<1> QED
  BY <1>6, <1>7

LEMMA StartParallelKeeps == DInv /\ StartParallel => DInv'
<1> SUFFICES ASSUME DInv, StartParallel
             PROVE  DInv'
  OBVIOUS
<1>1. /\ attempt' = [i \in Position |-> IF i \in batch /\ Known(i) THEN 1 ELSE 0]
      /\ ended' = {i \in batch : ~Known(i)} /\ UNCHANGED <<planVars, loopVars>>
      /\ Sequential(batch) = {}
  BY DEF StartParallel
<1>2. attempt' \in [Position -> Nat]
  BY <1>1
<1>3. ended' \subseteq batch /\ Sequential(ended') = {}
  BY <1>1 DEF Sequential
<1>4. \A i \in Position : attempt'[i] > 0 => i \in batch \ ended'
  BY <1>1
<1> QED
  BY <1>1, <1>2, <1>3, <1>4, AttemptsKeep

LEMMA GatherEndsKeeps == DInv /\ GatherEnds => DInv'
<1> SUFFICES ASSUME DInv, GatherEnds
             PROVE  DInv'
  OBVIOUS
<1>1. Dispatching /\ ended = batch /\ Collect(batch) /\ ended' = {} /\ attempt' = attempt
      /\ phase' = phase
  BY DEF GatherEnds, Collect, planVars
<1>2. attempt \in [Position -> Nat] /\ Running = {}
  BY <1>1 DEF DInv, DispatchTypes, BatchSound
<1>3. \A i \in Position : attempt'[i] > 0 => i \in (batch \ batch) \ ended'
  BY <1>1, <1>2 DEF Running
<1>4. Sequential(ended') = {}
  BY <1>1 DEF Sequential
<1> QED
  BY <1>1, <1>2, <1>3, <1>4, CollectKeeps

LEMMA LeaveKeeps ==
  ASSUME DInv, NEW i \in Position, attempt[i] > 0, Leave(i)
  PROVE  DInv'
<1>1. attempt \in [Position -> Nat] /\ ended \subseteq batch /\ Sequential(ended) = {}
      /\ i \in batch /\ i \notin ended /\ \A j \in Position : attempt[j] > 0 => j \in batch \ ended
  BY DEF DInv, DispatchTypes, BatchSound, Running
<1>2. Dispatching
  BY <1>1 DEF DInv, BatchSound
<1>3. attempt' = [attempt EXCEPT ![i] = 0] /\ attempt' \in [Position -> Nat]
  BY <1>1 DEF Leave
<1>4. \A j \in Position : attempt'[j] > 0 => j \in batch \ ended /\ j # i
  BY <1>1, <1>3
<1>5. CASE plan[i].mode = "sequential"
  <2>1. Collect({i}) /\ ended' = ended /\ phase' = phase
    BY <1>5 DEF Leave, Collect, planVars
  <2>2. {i} \in SUBSET batch /\ ended' \subseteq batch \ {i} /\ Sequential(ended') = {}
    BY <1>1, <2>1
  <2>3. \A j \in Position : attempt'[j] > 0 => j \in (batch \ {i}) \ ended'
    BY <1>4, <2>1
  <2> QED
    BY <1>2, <1>3, <2>1, <2>2, <2>3, CollectKeeps
<1>6. CASE plan[i].mode # "sequential"
  <2>1. ended' = ended \cup {i} /\ UNCHANGED <<planVars, loopVars>>
    BY <1>6 DEF Leave
  <2>2. ended' \subseteq batch /\ Sequential(ended') = {}
    BY <1>1, <1>6, <2>1 DEF Sequential
  <2>3. \A j \in Position : attempt'[j] > 0 => j \in batch \ ended'
    BY <1>4, <2>1
  <2> QED
    BY <1>3, <2>1, <2>2, <2>3, AttemptsKeep
<1> QED
  BY <1>5, <1>6

LEMMA HandleKeeps ==
  ASSUME DInv, NEW i \in Position, ReturnsResult(i) \/ GiveUp(i) \/ TryAgain(i)
  PROVE  DInv'
<1>1. attempt \in [Position -> Nat] /\ MaxRetries \in Nat
  BY DispatchAssumption DEF DInv, DispatchTypes
<1>2. CASE ReturnsResult(i)
  BY <1>2, LeaveKeeps DEF ReturnsResult
<1>3. CASE GiveUp(i)
  <2>1. attempt[i] > 0
    BY <1>1, <1>3 DEF GiveUp
  <2> QED
    BY <1>3, <2>1, LeaveKeeps DEF GiveUp
<1>4. CASE TryAgain(i)
  <2>1. attempt[i] > 0 /\ attempt' = [attempt EXCEPT ![i] = @ + 1] /\ ended' = ended
        /\ UNCHANGED <<planVars, loopVars>>
    BY <1>1, <1>4 DEF TryAgain
  <2>2. attempt' \in [Position -> Nat] /\ \A j \in Position : attempt'[j] > 0 => attempt[j] > 0
    BY <1>1, <2>1
  <2>3. ended \subseteq batch /\ Sequential(ended) = {}
        /\ \A j \in Position : attempt[j] > 0 => j \in batch \ ended
    BY DEF DInv, BatchSound, Running
  <2> QED
    BY <2>1, <2>2, <2>3, AttemptsKeep
<1> QED
  BY <1>2, <1>3, <1>4

LEMMA StepDispatch == DInv /\ [DispatchNext]_dispatchVars => DInv'
<1> SUFFICES ASSUME DInv, [DispatchNext]_dispatchVars
             PROVE  DInv'
  OBVIOUS
<1>1. CASE UNCHANGED dispatchVars
  <2>1. UNCHANGED <<planVars, loopVars>> /\ attempt' = attempt /\ ended' = ended
    BY <1>1 DEF dispatchVars
  <2>2. attempt \in [Position -> Nat] /\ ended \subseteq batch /\ Sequential(ended) = {}
        /\ \A j \in Position : attempt[j] > 0 => j \in batch \ ended
    BY DEF DInv, DispatchTypes, BatchSound, Running
  <2> QED
    BY <2>1, <2>2, AttemptsKeep
<1> QED
  BY <1>1, AskKeeps, ReflectionKeeps, ExpandKeeps, NextRoundKeeps, ReturnKeeps,
     StartSequentialKeeps, StartParallelKeeps, GatherEndsKeeps, HandleKeeps DEF DispatchNext

\* Steps run once, after the steps that they depend on, and the steps left out
\* are the blocked ones, whatever the plan.
THEOREM PlanAlwaysFollowed == DispatchSpec => []DispatchRunsPlan
<1>1. DInv => DispatchRunsPlan
  <2> SUFFICES ASSUME DInv
               PROVE  DispatchRunsPlan
    OBVIOUS
  <2>1. IsInjective(Results)
        /\ \A n \in DOMAIN Results : \A id \in plan[Results[n]].deps :
             \E m \in 1..(n - 1) : plan[Results[m]].id = id
    BY DEF DInv, StepsPlaced
  <2>2. ASSUME phase \in {"reflect", "again", "answered", "failed"},
               NEW i \in DOMAIN plan \ ToSet(Results)
        PROVE  rounds = MaxRounds \/ plan[i].deps \ {plan[j].id : j \in ToSet(Results)} # {}
    <3>1. i \in pending
      BY <2>2 DEF DInv, StepsPlaced, BatchSound, Dispatching
    <3>2. rounds = MaxRounds \/ ~Unblocked(i)
      BY <2>2, <3>1 DEF DInv, LeftBlocked, Returned, Ready
    <3>3. completed = {plan[j].id : j \in ToSet(Results)}
      BY DEF DInv, BatchSound, IdsOf
    <3> QED
      BY <3>2, <3>3 DEF Unblocked
  <2> QED
    BY <2>1, <2>2 DEF DispatchRunsPlan
<1> QED
  BY <1>1, InitDispatch, StepDispatch, PTL DEF DispatchSpec

-----------------------------------------------------------------------------
Contexts == {"execution"} \cup Position

\* Outside a dispatch and at the beginning of a round nothing runs.
LEMMA NothingRuns ==
  ASSUME DInv, batch = {}
  PROVE  Running = {} /\ Cardinality(Running) = 0
<1>1. Running = {}
  BY DEF DInv, BatchSound
<1> QED
  BY <1>1, FS_EmptySet

LEMMA RunningFinite ==
  IsFiniteSet(Running) /\ Cardinality(Running) \in Nat
<1>1. MaxSteps \in Nat
  BY DispatchAssumption
<1>2. IsFiniteSet(Position)
  BY <1>1, FS_Interval DEF Position
<1> QED
  BY <1>2, FS_Subset, FS_CardinalityType DEF Running

LEMMA InitTracer == DispatchInit => TracerSound
<1> SUFFICES ASSUME DispatchInit
             PROVE  TracerSound
  OBVIOUS
<1>1. <<>> \in Seq(Contexts) /\ DOMAIN <<>> = {}
  OBVIOUS
<1> QED
  BY <1>1 DEF DispatchInit, TracerSound, Dispatching, Contexts

\* Neither the tracer nor the attempts, the modes and the phase change.
LEMMA TracerStays ==
  ASSUME TracerSound, UNCHANGED <<stack, parent, plan, attempt>>,
         Dispatching' => Dispatching,
         phase' \in {"reflect", "again"} => phase \in {"reflect", "again"}
  PROVE  TracerSound'
<1>1. Running' = Running
  BY DEF Running
<1> QED
  BY <1>1 DEF TracerSound, Dispatching

\* The execution's node is under the step's on the stack, twice.
LEMMA EnterTraced ==
  ASSUME DInv, TracerSound, batch = {}, NEW p, plan' = p, Enter(p), Dispatching',
         \A i \in DOMAIN p : p[i].mode = "sequential" => parent[i] \in {"none", "execution"},
         \A i \in Position \ DOMAIN p : parent[i] = "none"
  PROVE  TracerSound'
<1>1. stack' = <<"execution", "execution">> /\ attempt' = attempt /\ parent' = parent
  <2>1. Append(<<"execution">>, "execution") = <<"execution", "execution">>
    <3> DEFINE s == <<"execution">>
               t == <<"execution", "execution">>
    <3>1. s \in Seq(Contexts) /\ "execution" \in Contexts /\ Len(s) = 1 /\ s[1] = "execution"
          /\ t \in Seq(Contexts) /\ Len(t) = 2 /\ t[1] = "execution" /\ t[2] = "execution"
      BY DEF Contexts
    <3> HIDE DEF s, t
    <3>2. /\ Append(s, "execution") \in Seq(Contexts)
          /\ Len(Append(s, "execution")) = Len(s) + 1
          /\ \A n \in 1..Len(s) : Append(s, "execution")[n] = s[n]
          /\ Append(s, "execution")[Len(s) + 1] = "execution"
      <4>1. s \in Seq(Contexts) /\ "execution" \in Contexts
        BY <3>1
      <4> QED
        BY <4>1, AppendProperties
    <3>3. \A n \in 1..2 : Append(s, "execution")[n] = t[n]
      BY <3>1, <3>2
    <3>4. Append(s, "execution") = t
      BY <3>1, <3>2, <3>3, SeqEqual
    <3> QED
      BY <3>4 DEF s, t
  <2> QED
    BY <2>1 DEF Enter
<1>2. stack' \in Seq(Contexts) /\ Len(stack') = 2
      /\ stack'[1] = "execution" /\ stack'[2] = "execution"
  BY <1>1 DEF Contexts
<1>3. Running' = {} /\ Cardinality(Running') = 0
  <2>1. Running' = Running
    BY <1>1 DEF Running
  <2> QED
    BY <2>1, NothingRuns
<1>4. ~(phase' \in {"reflect", "again"})
  BY DEF Dispatching
<1> QED
  BY <1>1, <1>2, <1>3, <1>4 DEF TracerSound, Contexts

LEMMA AskTraced == DInv /\ TracerSound /\ Ask => TracerSound'
<1> SUFFICES ASSUME DInv, TracerSound, Ask
             PROVE  TracerSound'
  OBVIOUS
<1>1. PICK p \in Plans \cup {Fallback} : plan' = p /\ Enter(p)
  BY DEF Ask
<1>2. phase = "idle" /\ Dispatching'
  BY DEF Ask, Dispatching
<1>3. plan = <<>> /\ batch = {}
  BY <1>2 DEF DInv, DispatchTypes, BatchSound, Dispatching
<1>4. \A i \in Position : parent[i] = "none"
  BY <1>3 DEF TracerSound
<1>5. DOMAIN p \subseteq Position
  <2>1. DInv'
    BY AskKeeps
  <2>2. plan' \in Seq(ToSet(plan')) /\ Len(plan') <= MaxSteps /\ MaxSteps \in Nat
    BY <2>1, DispatchAssumption DEF DInv, DispatchTypes
  <2>3. p \in Seq(ToSet(p)) /\ Len(p) <= MaxSteps
    BY <1>1, <2>2
  <2>4. DOMAIN p = 1..Len(p) /\ Len(p) \in Nat
    BY <2>3, LenProperties
  <2> QED
    BY <2>2, <2>3, <2>4 DEF Position
<1> QED
  BY <1>1, <1>2, <1>3, <1>4, <1>5, EnterTraced

LEMMA ExpandTraced == DInv /\ TracerSound /\ Expand => TracerSound'
<1> SUFFICES ASSUME DInv, TracerSound, Expand
             PROVE  TracerSound'
  OBVIOUS
<1>1. PICK n \in 0..MaxGaps : plan' = Expanded(plan, n) /\ Enter(plan')
  BY DEF Expand
<1>2. phase = "reflect" /\ Dispatching'
  BY DEF Expand, Dispatching
<1>3. batch = {}
  BY <1>2 DEF DInv, BatchSound, Dispatching
<1>4. plan \in Seq(ToSet(plan)) /\ n \in Nat
  BY DispatchAssumption DEF DInv, DispatchTypes
<1>5. \A i \in DOMAIN plan : i \in DOMAIN plan' /\ plan'[i] = plan[i]
  BY <1>1, <1>4, ExpandedIs
<1>6. DOMAIN plan' \subseteq Position
  <2>1. DInv'
    BY ExpandKeeps
  <2>2. plan' \in Seq(ToSet(plan')) /\ Len(plan') <= MaxSteps /\ MaxSteps \in Nat
    BY <2>1, DispatchAssumption DEF DInv, DispatchTypes
  <2>3. DOMAIN plan' = 1..Len(plan') /\ Len(plan') \in Nat
    BY <2>2, LenProperties
  <2> QED
    BY <2>2, <2>3 DEF Position
<1>7. \A i \in DOMAIN plan' : plan'[i].mode = "sequential" => parent[i] \in {"none", "execution"}
  <2> SUFFICES ASSUME NEW i \in DOMAIN plan', plan'[i].mode = "sequential"
               PROVE  parent[i] \in {"none", "execution"}
    OBVIOUS
  <2>1. CASE i \in DOMAIN plan
    BY <1>5, <2>1 DEF TracerSound
  <2>2. CASE i \notin DOMAIN plan
    BY <1>6, <2>2 DEF TracerSound
  <2> QED
    BY <2>1, <2>2
<1>8. \A i \in Position \ DOMAIN plan' : parent[i] = "none"
  BY <1>5 DEF TracerSound
<1> DEFINE p == plan'
<1> HIDE DEF p
<1>9. /\ plan' = p /\ Enter(p) /\ \A i \in Position \ DOMAIN p : parent[i] = "none"
      /\ \A i \in DOMAIN p : p[i].mode = "sequential" => parent[i] \in {"none", "execution"}
  BY <1>1, <1>7, <1>8 DEF p
<1> QED
  BY <1>2, <1>3, <1>9, EnterTraced

\* A sequence without its last element.
LEMMA FrontIs ==
  ASSUME NEW T, NEW s \in Seq(T), Len(s) >= 1
  PROVE  /\ Front(s) \in Seq(T) /\ Len(Front(s)) = Len(s) - 1
         /\ \A n \in 1..(Len(s) - 1) : Front(s)[n] = s[n]
<1> DEFINE l == Len(s) - 1
<1>1. l \in Nat /\ l \in Int /\ 1 \in Int /\ \A n \in 1..l : s[n] \in T /\ 1 + n - 1 = n
  BY LenProperties
<1>2. Front(s) = SubSeq(s, 1, l)
  BY DEF Front
<1> HIDE DEF l
<1>3. SubSeq(s, 1, l) \in Seq(T) /\ Len(SubSeq(s, 1, l)) = (IF 1 <= l THEN l - 1 + 1 ELSE 0)
      /\ \A n \in 1..(l - 1 + 1) : SubSeq(s, 1, l)[n] = s[1 + n - 1]
  BY <1>1, SubSeqProperties
<1>4. l - 1 + 1 = l /\ (IF 1 <= l THEN l - 1 + 1 ELSE 0) = l
  BY <1>1
<1> QED
  BY <1>1, <1>2, <1>3, <1>4 DEF l

\* All that dispatch() left on the stack is the execution's node.
LEMMA ReturnTraced == DInv /\ TracerSound /\ Return => TracerSound'
<1> SUFFICES ASSUME DInv, TracerSound, Return
             PROVE  TracerSound'
  OBVIOUS
<1>1. /\ Dispatching /\ batch = {} /\ stack' = Front(stack) /\ phase' \in {"reflect", "again"}
      /\ UNCHANGED <<plan, parent>>
  BY DEF Return
<1>2. Len(stack) = 2 /\ stack[1] = "execution"
  BY <1>1, NothingRuns DEF TracerSound
<1>5. stack \in Seq(Contexts) /\ Len(stack) >= 1
  BY <1>2 DEF TracerSound, Contexts
<1>3. Front(stack) = <<"execution">>
  <2> DEFINE s == <<"execution">>
  <2>1. s \in Seq(Contexts) /\ Len(s) = 1 /\ s[1] = "execution"
    BY DEF Contexts
  <2>2. Front(stack) \in Seq(Contexts) /\ Len(Front(stack)) = 1 /\ Front(stack)[1] = stack[1]
    <3>1. /\ Front(stack) \in Seq(Contexts) /\ Len(Front(stack)) = Len(stack) - 1
          /\ \A n \in 1..(Len(stack) - 1) : Front(stack)[n] = stack[n]
      BY <1>5, FrontIs, Zenon
    <3> QED
      BY <1>2, <3>1
  <2> HIDE DEF s
  <2>3. Front(stack) = s
    BY <1>2, <2>1, <2>2, SeqEqual
  <2> QED
    BY <2>3 DEF s
<1>4. stack' \in Seq(Contexts)
  BY <1>1, <1>3 DEF Contexts
<1> QED
  BY <1>1, <1>3, <1>4 DEF TracerSound, Dispatching, Contexts

\* The steps S enter when none runs: under the execution, or of a parallel batch.
LEMMA TracedKeeps ==
  ASSUME DInv, TracerSound, Dispatching, Running = {}, NEW S \in SUBSET batch, Traced(S),
         phase' = phase, plan' = plan,
         Running' = {i \in S : Known(i)},
         \A i \in S : plan[i].mode = "sequential" => S = {i}
  PROVE  TracerSound'
<1>1. batch \subseteq Position /\ S \subseteq Position /\ DOMAIN plan \subseteq Position
      /\ batch \subseteq DOMAIN plan /\ MaxSteps \in Nat
  BY BatchIsOfPlan
<1>11. stack \in Seq(Contexts)
  BY DEF TracerSound, Contexts
<1>2. Len(stack) = 2 /\ stack[1] = "execution" /\ stack[2] = "execution"
  <2>1. Cardinality(Running) = 0
    BY FS_EmptySet
  <2> QED
    BY <2>1 DEF TracerSound
<1>3. ASSUME NEW Z \in SUBSET Position
      PROVE  /\ Opened(Z) \in Seq(Contexts)
             /\ Len(Opened(Z)) = Cardinality({i \in Z : Known(i)})
             /\ Cardinality({i \in Z : Known(i)}) \in Nat
  <2> DEFINE K == {i \in Z : Known(i)}
  <2>1. K \in SUBSET (1..MaxSteps) /\ K \subseteq Contexts
    BY DEF Position, Contexts
  <2> HIDE DEF K
  <2>2. InOrder(K) \in Seq(K) /\ Len(InOrder(K)) = Cardinality(K) /\ Cardinality(K) \in Nat
    BY <1>1, <2>1, InOrderIsOrder
  <2>3. InOrder(K) \in Seq(Contexts)
    BY <2>1, <2>2, SeqMonotonic
  <2> QED
    BY <2>2, <2>3 DEF Opened, K
<1> DEFINE o == Opened(S)
<1>4. o \in Seq(Contexts) /\ Len(o) = Cardinality(Running') /\ Len(o) \in Nat /\ stack' = stack \o o
  BY <1>1, <1>3 DEF Traced
<1> HIDE DEF o
<1>5. /\ stack' \in Seq(Contexts) /\ Len(stack') = 2 + Cardinality(Running')
      /\ stack'[1] = "execution" /\ stack'[2] = "execution"
  <2>1. /\ stack \o o \in Seq(Contexts) /\ Len(stack \o o) = Len(stack) + Len(o)
        /\ \A n \in 1..(Len(stack) + Len(o)) :
             (stack \o o)[n] = IF n <= Len(stack) THEN stack[n] ELSE o[n - Len(stack)]
    <3>1. o \in Seq(Contexts)
      BY <1>4
    <3> QED
      BY <1>11, <3>1, ConcatProperties, Zenon
  <2> QED
    BY <1>2, <1>4, <2>1
<1>6. ASSUME NEW i \in S, plan[i].mode = "sequential"
      PROVE  parent'[i] = "execution"
  <2> DEFINE Z == {j \in S : j < i}
             z == Opened(Z)
  <2>1. parent'[i] = Last(stack \o z)
    BY <1>1 DEF Traced
  <2>2. Z = {}
    <3>1. S = {i} /\ i \in Nat
      BY <1>1, <1>6 DEF Position
    <3> QED
      BY <3>1
  <2>3. z \in Seq(Contexts) /\ Len(z) = Cardinality({j \in Z : Known(j)})
    BY <1>1, <1>3
  <2>4. Len(z) = 0
    <3>1. {j \in Z : Known(j)} = {}
      BY <2>2
    <3> HIDE DEF Z, z
    <3> QED
      BY <2>3, <3>1, FS_EmptySet
  <2> HIDE DEF Z, z
  <2>5. Len(stack \o z) = 2 /\ (stack \o z)[2] = "execution"
    <3>1. /\ Len(stack \o z) = Len(stack) + Len(z)
          /\ \A n \in 1..(Len(stack) + Len(z)) :
               (stack \o z)[n] = IF n <= Len(stack) THEN stack[n] ELSE z[n - Len(stack)]
      BY <1>11, <2>3, ConcatProperties, Zenon
    <3> QED
      BY <1>2, <2>4, <3>1
  <2> QED
    BY <2>1, <2>5 DEF Last
<1>7. \A i \in Position \ S : parent'[i] = parent[i]
  BY DEF Traced
<1>8. \A i \in DOMAIN plan : plan[i].mode = "sequential" => parent'[i] \in {"none", "execution"}
  BY <1>1, <1>6, <1>7 DEF TracerSound
<1>9. \A i \in Position \ DOMAIN plan : parent'[i] = "none"
  BY <1>1, <1>7 DEF TracerSound
<1>10. ~(phase' \in {"reflect", "again"})
  BY DEF Dispatching
<1> QED
  BY <1>5, <1>8, <1>9, <1>10 DEF TracerSound, Contexts

LEMMA StartSequentialTraced == DInv /\ TracerSound /\ StartSequential => TracerSound'
<1> SUFFICES ASSUME DInv, TracerSound, StartSequential
             PROVE  TracerSound'
  OBVIOUS
<1> DEFINE i == Min(Sequential(batch))
<1>1. /\ Dispatching /\ \A j \in Position : attempt[j] = 0
      /\ Sequential(batch) # {} /\ Traced({i})
      /\ IF Known(i) THEN attempt' = [attempt EXCEPT ![i] = 1] /\ UNCHANGED <<planVars, loopVars>>
                     ELSE Collect({i}) /\ UNCHANGED attempt
  BY DEF StartSequential
<1>2. Running = {}
  BY <1>1 DEF Running
<1>3. batch \subseteq Position /\ Position \subseteq Nat
  BY BatchIsOfPlan DEF Position
<1>4. i \in Sequential(batch)
  <2>1. Sequential(batch) \subseteq Nat
    BY <1>3 DEF Sequential
  <2> QED
    BY <1>1, <2>1, LeastIsIn
<1>5. i \in batch /\ i \in Position
  BY <1>3, <1>4 DEF Sequential
<1> HIDE DEF i
<1>6. phase' = phase /\ plan' = plan
  BY <1>1 DEF planVars, Collect
<1>7. Running' = {j \in {i} : Known(j)}
  <2>1. attempt \in [Position -> Nat]
    BY DEF DInv, DispatchTypes
  <2>2. CASE Known(i)
    <3>1. attempt'[i] = 1 /\ \A j \in Position \ {i} : attempt'[j] = 0
      BY <1>1, <1>5, <2>1, <2>2
    <3>2. attempt'[i] > 0 /\ \A j \in Position \ {i} : ~(attempt'[j] > 0)
      BY <3>1
    <3>3. Running' = {i}
      BY <1>5, <3>2 DEF Running
    <3> QED
      BY <2>2, <3>3
  <2>3. CASE ~Known(i)
    <3>1. Running' = {}
      BY <1>1, <2>3 DEF Running
    <3> QED
      BY <2>3, <3>1
  <2> QED
    BY <2>2, <2>3
<1>8. {i} \in SUBSET batch /\ \A j \in {i} : plan[j].mode = "sequential" => {i} = {j}
  BY <1>5
<1> QED
  BY <1>1, <1>2, <1>6, <1>7, <1>8, TracedKeeps

LEMMA StartParallelTraced == DInv /\ TracerSound /\ StartParallel => TracerSound'
<1> SUFFICES ASSUME DInv, TracerSound, StartParallel
             PROVE  TracerSound'
  OBVIOUS
<1>1. /\ \A i \in Position : attempt[i] = 0
      /\ Dispatching /\ Sequential(batch) = {}
      /\ Traced(batch) /\ phase' = phase /\ plan' = plan
      /\ attempt' = [i \in Position |-> IF i \in batch /\ Known(i) THEN 1 ELSE 0]
  BY DEF StartParallel, planVars
<1>2. Running = {}
  BY <1>1 DEF Running
<1>3. Running' = {i \in batch : Known(i)}
  <2>1. batch \subseteq Position
    BY BatchIsOfPlan
  <2>2. \A i \in Position : attempt'[i] > 0 <=> i \in batch /\ Known(i)
    BY <1>1
  <2>3. Running' = {i \in Position : i \in batch /\ Known(i)}
    BY <2>2 DEF Running
  <2> QED
    BY <2>1, <2>3
<1>4. \A i \in batch : ~(plan[i].mode = "sequential")
  BY <1>1 DEF Sequential
<1> QED
  BY <1>1, <1>2, <1>3, <1>4, TracedKeeps

\* One step less runs, and one context less is on the stack.
LEMMA LeaveTraced ==
  ASSUME DInv, TracerSound, NEW i \in Position, attempt[i] > 0, Leave(i), stack' = Popped
  PROVE  TracerSound'
<1>1. attempt \in [Position -> Nat] /\ i \in batch /\ Dispatching
  BY DEF DInv, DispatchTypes, BatchSound, Running
<1>2. attempt' = [attempt EXCEPT ![i] = 0] /\ parent' = parent /\ phase' = phase /\ plan' = plan
  BY DEF Leave, Collect, planVars
<1>3. i \in Running /\ Running' = Running \ {i}
  <2>1. attempt'[i] = 0 /\ \A j \in Position \ {i} : attempt'[j] = attempt[j]
    BY <1>1, <1>2
  <2>2. ~(attempt'[i] > 0)
    BY <2>1
  <2> QED
    BY <2>1, <2>2 DEF Running
<1>4. /\ Cardinality(Running) \in Nat /\ Cardinality(Running') = Cardinality(Running) - 1
      /\ Cardinality(Running') \in Nat
  <2>1. IsFiniteSet(Running) /\ Cardinality(Running) \in Nat
    BY RunningFinite
  <2>2. IsFiniteSet(Running \ {i}) /\ Cardinality(Running \ {i}) = Cardinality(Running) - 1
    BY <1>3, <2>1, FS_RemoveElement
  <2>3. Cardinality(Running \ {i}) \in Nat
    BY <2>2, FS_CardinalityType
  <2> QED
    BY <1>3, <2>1, <2>2, <2>3
<1>5. stack \in Seq(Contexts) /\ Len(stack) = 2 + Cardinality(Running)
      /\ stack[1] = "execution" /\ stack[2] = "execution"
  BY <1>1 DEF TracerSound, Contexts
<1>6. stack' \in Seq(Contexts) /\ Len(stack') = Len(stack) - 1
      /\ \A n \in 1..(Len(stack) - 1) : stack'[n] = stack[n]
  <2>1. Len(stack) >= 1
    BY <1>4, <1>5
  <2> QED
    BY <1>5, <2>1, FrontIs DEF Popped
<1>7. Len(stack') = 2 + Cardinality(Running') /\ stack'[1] = "execution" /\ stack'[2] = "execution"
  BY <1>4, <1>5, <1>6
<1>8. ~(phase' \in {"reflect", "again"})
  BY <1>1, <1>2 DEF Dispatching
<1> QED
  BY <1>2, <1>6, <1>7, <1>8 DEF TracerSound, Contexts

LEMMA StepTracer == DInv /\ TracerSound /\ [DispatchNext]_dispatchVars => TracerSound'
<1> SUFFICES ASSUME DInv, TracerSound, [DispatchNext]_dispatchVars
             PROVE  TracerSound'
  OBVIOUS
<1>1. CASE Answer \/ Crash
  BY <1>1, TracerStays DEF Answer, Crash, traceVars, Dispatching
<1>2. CASE NextRound
  BY <1>2, TracerStays DEF NextRound, planVars, traceVars, Dispatching
<1>3. CASE GatherEnds
  BY <1>3, TracerStays DEF GatherEnds, Collect, planVars, traceVars, Dispatching
<1>4. ASSUME NEW i \in Position, ReturnsResult(i) \/ GiveUp(i)
      PROVE  TracerSound'
  <2>1. attempt[i] > 0
    <3>1. attempt[i] \in Nat /\ MaxRetries \in Nat
      BY DispatchAssumption DEF DInv, DispatchTypes
    <3> QED
      BY <1>4, <3>1 DEF ReturnsResult, GiveUp
  <2> QED
    BY <1>4, <2>1, LeaveTraced DEF ReturnsResult, GiveUp
<1>5. ASSUME NEW i \in Position, TryAgain(i)
      PROVE  TracerSound'
  <2>1. /\ attempt' = [attempt EXCEPT ![i] = @ + 1] /\ attempt[i] \in 1..MaxRetries
        /\ phase' = phase /\ plan' = plan /\ stack' = stack /\ parent' = parent
    BY <1>5 DEF TryAgain, planVars, traceVars
  <2>2. attempt \in [Position -> Nat]
    BY DEF DInv, DispatchTypes
  <2>3. Running' = Running
    <3>1. attempt'[i] = attempt[i] + 1 /\ \A j \in Position \ {i} : attempt'[j] = attempt[j]
      BY <2>1, <2>2
    <3>2. attempt[i] > 0 /\ attempt'[i] > 0
      BY <2>1, <2>2, <3>1
    <3> QED
      BY <3>1, <3>2 DEF Running
  <2> QED
    BY <2>1, <2>3 DEF TracerSound, Dispatching
<1>6. CASE UNCHANGED dispatchVars
  BY <1>6, TracerStays DEF dispatchVars, planVars, traceVars, Dispatching
<1> QED
  BY <1>1, <1>2, <1>3, <1>4, <1>5, <1>6, AskTraced, ExpandTraced, ReturnTraced,
     StartSequentialTraced, StartParallelTraced DEF DispatchNext

\* One context per attempt in progress, sequential steps and reflections under
\* the execution.
THEOREM TraceAlwaysNests == DispatchSpec => []TraceNests
<1>1. DInv /\ TracerSound => TraceNests
  BY DEF TracerSound, TraceNests, Running
<1> QED
  BY <1>1, InitDispatch, StepDispatch, InitTracer, StepTracer, PTL DEF DispatchSpec
=============================================================================
