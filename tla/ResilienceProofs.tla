-------------------------- MODULE ResilienceProofs --------------------------
(***************************************************************************)
(* Theorems of Resilience for any requests, providers, limits, threshold,  *)
(* reset time and number of attempts.                                      *)
(***************************************************************************)
EXTENDS Resilience, FiniteSetTheorems, TLAPS

\* a request that is retried has attempts left
BackoffInv == \A q \in Requests : phase[q] = "backoff" => attempt[q] < MaxAttempts

TypeInv == TypeOK /\ BackoffInv

\* Counters and phases stay in range: the loop of resilient_request is never left at its
\* end, because only an attempt that has a successor backs off.
THEOREM TypeCorrect == Spec => []TypeOK
<1> USE ConstantsAssumption DEF TypeInv, TypeOK, BackoffInv, Phases, Ended, Never
<1>1. Init => TypeInv
  BY DEF Init
<1>2. TypeInv /\ [Next]_vars => TypeInv'
  <2> SUFFICES ASSUME TypeInv, [Next]_vars PROVE TypeInv'
    OBVIOUS
  <2>1. ASSUME NEW q \in Requests, Enter(q) PROVE TypeInv'
    <3>1. ProviderOf[q] \in Providers
      OBVIOUS
    <3>2. /\ UNCHANGED breaker \/ Close(ProviderOf[q])
          /\ \/ Goto(q, "waiting") /\ attempt' = [attempt EXCEPT ![q] = 1]
             \/ Goto(q, "refused") /\ UNCHANGED attempt
          /\ UNCHANGED <<permits, now, outcomes>>
      BY <2>1 DEF Enter
    <3>3. failures' \in [Providers -> Nat] /\ opened_at' \in [Providers -> 0..MaxTime \cup {Never}]
      <4>1. CASE UNCHANGED breaker
        BY <4>1 DEF breaker
      <4>2. CASE Close(ProviderOf[q])
        BY <4>2 DEF Close
      <4> QED
        BY <3>2, <4>1, <4>2
    <3>4. /\ phase' \in [Requests -> Phases] /\ attempt' \in [Requests -> 0..MaxAttempts]
          /\ BackoffInv'
      <4>1. CASE Goto(q, "waiting") /\ attempt' = [attempt EXCEPT ![q] = 1]
        BY <4>1 DEF Goto
      <4>2. CASE Goto(q, "refused") /\ UNCHANGED attempt
        BY <4>2 DEF Goto
      <4> QED
        BY <3>2, <4>1, <4>2
    <3> QED
      BY <3>2, <3>3, <3>4
  <2>2. ASSUME NEW q \in Requests, Call(q) PROVE TypeInv'
    BY <2>2 DEF Call, Goto, Acquire, breaker
  <2>3. ASSUME NEW q \in Requests, Succeeds(q) PROVE TypeInv'
    BY <2>3 DEF Succeeds, Goto, Release, RecordSuccess, Close, Recorded
  <2>4. ASSUME NEW q \in Requests, FailsForGood(q) PROVE TypeInv'
    <3>1. ProviderOf[q] \in Providers
      OBVIOUS
    <3>2. failures' \in [Providers -> Nat] /\ opened_at' \in [Providers -> 0..MaxTime \cup {Never}]
      BY <2>4, <3>1 DEF FailsForGood, RecordFailure
    <3>3. permits' \in [Providers -> Nat]
      BY <2>4, <3>1 DEF FailsForGood, Release
    <3>4. outcomes' \in Seq([request : Requests, provider : Providers, ok : BOOLEAN])
      BY <2>4, <3>1 DEF FailsForGood, Recorded
    <3>5. phase' \in [Requests -> Phases] /\ BackoffInv'
      BY <2>4 DEF FailsForGood, Goto
    <3> QED
      BY <2>4, <3>2, <3>3, <3>4, <3>5 DEF FailsForGood
  <2>5. ASSUME NEW q \in Requests, FailsForNow(q) PROVE TypeInv'
    BY <2>5 DEF FailsForNow, RetryLeft, Goto, Release, breaker
  <2>6. ASSUME NEW q \in Requests, Retry(q) PROVE TypeInv'
    BY <2>6 DEF Retry, Goto, breaker
  <2>7. ASSUME NEW q \in Requests, Cancelled(q) PROVE TypeInv'
    <3>1. permits' \in [Providers -> Nat]
      <4>1. Release(ProviderOf[q]) \/ UNCHANGED permits
        BY <2>7 DEF Cancelled
      <4>2. CASE Release(ProviderOf[q])
        BY <4>2 DEF Release
      <4> QED
        BY <4>1, <4>2
    <3>2. phase' \in [Requests -> Phases] /\ BackoffInv'
      BY <2>7 DEF Cancelled, Goto
    <3> QED
      BY <2>7, <3>1, <3>2 DEF Cancelled, breaker
  <2>8. CASE Tick
    BY <2>8 DEF Tick, breaker
  <2>9. CASE UNCHANGED vars
    BY <2>9 DEF vars, breaker
  <2> QED
    BY <2>1, <2>2, <2>3, <2>4, <2>5, <2>6, <2>7, <2>8, <2>9 DEF Next, Step
<1> QED
  BY <1>1, <1>2, PTL DEF Spec

-----------------------------------------------------------------------------

\* The breaker's count of failures and its opening time never disagree, in whatever order
\* requests of different runs succeed, fail, are refused or let in again.
THEOREM BreakerCorrect == Spec => []OpenIffThreshold
<1> USE ConstantsAssumption DEF TypeOK, OpenIffThreshold, Never
<1>1. Init => OpenIffThreshold
  BY DEF Init
<1>2. TypeOK /\ OpenIffThreshold /\ [Next]_vars => OpenIffThreshold'
  <2> SUFFICES ASSUME TypeOK, OpenIffThreshold, [Next]_vars PROVE OpenIffThreshold'
    OBVIOUS
  <2>1. CASE UNCHANGED breaker
    BY <2>1 DEF breaker
  <2>2. ASSUME NEW p \in Providers, Close(p) PROVE OpenIffThreshold'
    BY <2>2 DEF Close
  <2>3. ASSUME NEW p \in Providers, RecordFailure(p) PROVE OpenIffThreshold'
    BY <2>3 DEF RecordFailure
  <2>4. ASSUME NEW q \in Requests, Enter(q) PROVE OpenIffThreshold'
    BY <2>1, <2>2, <2>4 DEF Enter
  <2>5. ASSUME NEW q \in Requests, Step(q) \/ Cancelled(q) PROVE OpenIffThreshold'
    BY <2>1, <2>2, <2>3, <2>5
       DEF Step, Call, Succeeds, RecordSuccess, FailsForGood, FailsForNow, Retry, Cancelled
  <2>6. CASE Tick \/ UNCHANGED vars
    BY <2>1, <2>6 DEF Tick, vars
  <2> QED
    BY <2>4, <2>5, <2>6 DEF Next
<1> QED
  BY <1>1, <1>2, TypeCorrect, PTL DEF Spec

-----------------------------------------------------------------------------
(* Permits *)

\* One more call in progress, and one fewer.
LEMMA CallingCount ==
  ASSUME TypeOK, NEW p \in Providers
  PROVE  /\ IsFiniteSet(Calling(p)) /\ Cardinality(Calling(p)) \in Nat
         /\ \A q \in Requests : q \notin Calling(p) =>
              Cardinality(Calling(p) \cup {q}) = Cardinality(Calling(p)) + 1
         /\ \A q \in Requests : q \in Calling(p) =>
              Cardinality(Calling(p) \ {q}) = Cardinality(Calling(p)) - 1
<1>1. IsFiniteSet(Calling(p))
  BY ConstantsAssumption, FS_Subset DEF Calling
<1> QED
  BY <1>1, FS_CardinalityType, FS_AddElement, FS_RemoveElement

\* Every permit of a provider is free or held by one of its calls: successes, failures,
\* timeouts and cancellations give back exactly what the call took.
THEOREM PermitsCorrect == Spec => []PermitsConserved
<1> USE DEF PermitsConserved
<1>1. Init => PermitsConserved
  <2> SUFFICES ASSUME Init, NEW p \in Providers
               PROVE permits[p] + Cardinality(Calling(p)) = Limit[p]
    OBVIOUS
  <2>1. Calling(p) = {}
    BY DEF Init, Calling
  <2> QED
    BY <2>1, FS_EmptySet, ConstantsAssumption DEF Init
<1>2. TypeOK /\ PermitsConserved /\ [Next]_vars => PermitsConserved'
  <2> SUFFICES ASSUME TypeOK, PermitsConserved, [Next]_vars, NEW p \in Providers
               PROVE  permits'[p] + Cardinality(Calling(p)') = Limit[p]
    OBVIOUS
  <2>0. /\ permits[p] \in Nat /\ Cardinality(Calling(p)) \in Nat /\ Limit[p] \in Nat
        /\ permits[p] + Cardinality(Calling(p)) = Limit[p]
    BY CallingCount, ConstantsAssumption DEF TypeOK
  <2>1. CASE Calling(p)' = Calling(p) /\ permits'[p] = permits[p]
    BY <2>0, <2>1
  <2>2. ASSUME NEW q \in Requests, Call(q) PROVE permits'[p] + Cardinality(Calling(p)') = Limit[p]
    <3>1. CASE ProviderOf[q] = p
      <4>1. q \notin Calling(p) /\ Calling(p)' = Calling(p) \cup {q}
        BY <2>2, <3>1 DEF Call, Goto, Calling, TypeOK
      <4>2. permits'[p] = permits[p] - 1
        BY <2>2, <3>1 DEF Call, Acquire, TypeOK
      <4> QED
        BY <2>0, <4>1, <4>2, CallingCount
    <3>2. CASE ProviderOf[q] # p
      <4>1. Calling(p)' = Calling(p) /\ permits'[p] = permits[p]
        BY <2>2, <3>2 DEF Call, Goto, Acquire, Calling, TypeOK
      <4> QED
        BY <2>1, <4>1
    <3> QED
      BY <3>1, <3>2
  <2>3. ASSUME NEW q \in Requests, phase[q] = "calling", Release(ProviderOf[q]),
               NEW e \in Phases \ {"calling"}, Goto(q, e)
        PROVE  permits'[p] + Cardinality(Calling(p)') = Limit[p]
    <3>1. CASE ProviderOf[q] = p
      <4>1. q \in Calling(p) /\ Calling(p)' = Calling(p) \ {q}
        BY <2>3, <3>1 DEF Goto, Calling, TypeOK
      <4>2. permits'[p] = permits[p] + 1
        BY <2>3, <3>1 DEF Release, TypeOK
      <4> QED
        BY <2>0, <4>1, <4>2, CallingCount
    <3>2. CASE ProviderOf[q] # p
      <4>1. Calling(p)' = Calling(p) /\ permits'[p] = permits[p]
        BY <2>3, <3>2 DEF Goto, Release, Calling, TypeOK
      <4> QED
        BY <2>1, <4>1
    <3> QED
      BY <3>1, <3>2
  <2>4. ASSUME NEW q \in Requests, phase[q] # "calling", UNCHANGED permits,
               NEW e \in Phases \ {"calling"}, Goto(q, e)
        PROVE  permits'[p] + Cardinality(Calling(p)') = Limit[p]
    <3>1. Calling(p)' = Calling(p)
      BY <2>4 DEF Goto, Calling, TypeOK
    <3> QED
      BY <2>1, <2>4, <3>1
  <2> USE DEF Phases, Ended
  <2>5. ASSUME NEW q \in Requests, Enter(q) PROVE permits'[p] + Cardinality(Calling(p)') = Limit[p]
    BY <2>4, <2>5 DEF Enter
  <2>6. ASSUME NEW q \in Requests, Succeeds(q) PROVE permits'[p] + Cardinality(Calling(p)') = Limit[p]
    BY <2>3, <2>6 DEF Succeeds
  <2>7. ASSUME NEW q \in Requests, FailsForGood(q) \/ FailsForNow(q)
        PROVE  permits'[p] + Cardinality(Calling(p)') = Limit[p]
    BY <2>3, <2>7 DEF FailsForGood, FailsForNow
  <2>8. ASSUME NEW q \in Requests, Retry(q) PROVE permits'[p] + Cardinality(Calling(p)') = Limit[p]
    BY <2>4, <2>8 DEF Retry
  <2>9. ASSUME NEW q \in Requests, Cancelled(q) PROVE permits'[p] + Cardinality(Calling(p)') = Limit[p]
    BY <2>3, <2>4, <2>9 DEF Cancelled
  <2>10. CASE Tick \/ UNCHANGED vars
    BY <2>1, <2>10 DEF Tick, vars, Calling
  <2> QED
    BY <2>2, <2>5, <2>6, <2>7, <2>8, <2>9, <2>10 DEF Next, Step
<1> QED
  BY <1>1, <1>2, TypeCorrect, PTL DEF Spec

-----------------------------------------------------------------------------
(* Outcomes *)

\* where the outcomes of a request are
RecordedBy(q) == {i \in 1..Len(outcomes) : outcomes[i].request = q}

\* A recorded outcome is one more of its request, and of no other.
LEMMA RecordedCount ==
  ASSUME TypeOK, NEW q \in Requests, NEW ok \in BOOLEAN, Recorded(q, ok)
  PROVE  /\ Cardinality(RecordedBy(q)') = Cardinality(RecordedBy(q)) + 1
         /\ \A r \in Requests \ {q} : RecordedBy(r)' = RecordedBy(r)
<1> DEFINE n == Len(outcomes)
           o == [request |-> q, provider |-> ProviderOf[q], ok |-> ok]
<1>1. outcomes \in Seq([request : Requests, provider : Providers, ok : BOOLEAN]) /\ n \in Nat
  BY DEF TypeOK
<1>2. o \in [request : Requests, provider : Providers, ok : BOOLEAN] /\ o.request = q
  BY ConstantsAssumption
<1>3. /\ outcomes' = Append(outcomes, o) /\ Len(outcomes') = n + 1
      /\ \A i \in 1..n : outcomes'[i] = outcomes[i]
      /\ outcomes'[n + 1] = o
  BY <1>1, <1>2 DEF Recorded
<1>4. 1..(n + 1) = (1..n) \cup {n + 1} /\ n + 1 \notin 1..n
  BY <1>1
<1> HIDE DEF n, o
<1>5. RecordedBy(q)' = RecordedBy(q) \cup {n + 1} /\ n + 1 \notin RecordedBy(q)
  BY <1>2, <1>3, <1>4 DEF RecordedBy, n
<1>6. \A r \in Requests \ {q} : RecordedBy(r)' = RecordedBy(r)
  BY <1>2, <1>3, <1>4 DEF RecordedBy, n
<1>7. IsFiniteSet(RecordedBy(q))
  <2>1. IsFiniteSet(1..n) /\ RecordedBy(q) \subseteq 1..n
    BY <1>1, FS_Interval DEF RecordedBy, n
  <2> QED
    BY <2>1, FS_Subset
<1> QED
  BY <1>5, <1>6, <1>7, FS_AddElement

\* The breaker hears of a request once, when it returns or fails, however often it was
\* retried, and never of one that was refused or cancelled (resilient_request).
THEOREM OneOutcomeCorrect == Spec => []OneOutcomePerRequest
<1> DEFINE Counted(q) == Cardinality(RecordedBy(q)) = IF phase[q] \in {"returned", "failed"} THEN 1 ELSE 0
           Inv == \A q \in Requests : Counted(q)
<1>1. Init => Inv
  <2> SUFFICES ASSUME Init, NEW q \in Requests PROVE Counted(q)
    OBVIOUS
  <2>1. RecordedBy(q) = {}
    BY DEF Init, RecordedBy
  <2> QED
    BY <2>1, FS_EmptySet DEF Init
<1>2. TypeOK /\ Inv /\ [Next]_vars => Inv'
  <2> SUFFICES ASSUME TypeOK, Inv, [Next]_vars PROVE Inv'
    OBVIOUS
  <2>1. ASSUME NEW q \in Requests, UNCHANGED outcomes,
               phase[q] \notin {"returned", "failed"},
               NEW e \in Phases \ {"returned", "failed"}, Goto(q, e)
        PROVE  Inv'
    <3>1. \A r \in Requests : RecordedBy(r)' = RecordedBy(r)
      BY <2>1 DEF RecordedBy
    <3>2. \A r \in Requests : phase'[r] = IF r = q THEN e ELSE phase[r]
      BY <2>1 DEF Goto, TypeOK
    <3> QED
      BY <2>1, <3>1, <3>2
  <2>2. ASSUME NEW q \in Requests, phase[q] = "calling", NEW ok \in BOOLEAN, Recorded(q, ok),
               NEW e \in {"returned", "failed"}, Goto(q, e)
        PROVE  Inv'
    <3>1. /\ Cardinality(RecordedBy(q)') = Cardinality(RecordedBy(q)) + 1
          /\ \A r \in Requests \ {q} : RecordedBy(r)' = RecordedBy(r)
      BY <2>2, RecordedCount
    <3>2. \A r \in Requests : phase'[r] = IF r = q THEN e ELSE phase[r]
      BY <2>2 DEF Goto, TypeOK
    <3>3. Cardinality(RecordedBy(q)) = 0
      BY <2>2
    <3> QED
      BY <2>2, <3>1, <3>2, <3>3
  <2>3. CASE UNCHANGED <<phase, outcomes>>
    BY <2>3 DEF RecordedBy
  <2> HIDE DEF Inv
  <2>4. ASSUME NEW q \in Requests, Enter(q) \/ Step(q) \/ Cancelled(q) PROVE Inv'
    <3>1. CASE Enter(q)
      BY <2>1, <3>1 DEF Enter, Phases, Ended
    <3>2. CASE Cancelled(q)
      BY <2>1, <3>2 DEF Cancelled, Phases, Ended
    <3>3. CASE Call(q) \/ FailsForNow(q) \/ Retry(q)
      BY <2>1, <3>3 DEF Call, FailsForNow, Retry, Phases, Ended
    <3>4. CASE Succeeds(q) \/ FailsForGood(q)
      BY <2>2, <3>4 DEF Succeeds, FailsForGood
    <3> QED
      BY <2>4, <3>1, <3>2, <3>3, <3>4 DEF Step
  <2>5. CASE Tick \/ UNCHANGED vars
    BY <2>3, <2>5 DEF Tick, vars
  <2> QED
    BY <2>4, <2>5 DEF Next
<1>3. Inv => OneOutcomePerRequest
  BY DEF OneOutcomePerRequest, RecordedBy
<1> QED
  BY <1>1, <1>2, <1>3, TypeCorrect, PTL DEF Spec

-----------------------------------------------------------------------------
(* The breaker *)

\* Failures in a row are positions of the history: they can be counted.
LEMMA FailuresFinite ==
  ASSUME TypeOK, NEW p \in Providers
  PROVE  IsFiniteSet(FailuresInARow(p)) /\ Cardinality(FailuresInARow(p)) \in Nat
<1>1. Len(outcomes) \in Nat
  BY DEF TypeOK
<1>2. IsFiniteSet(1..Len(outcomes)) /\ FailuresInARow(p) \subseteq 1..Len(outcomes)
  BY <1>1, FS_Interval DEF FailuresInARow
<1> QED
  BY <1>2, FS_Subset, FS_CardinalityType

\* A recorded failure makes its provider's row of failures longer by one; whatever is
\* recorded, it touches no other provider's row.
LEMMA RecordedRow ==
  ASSUME TypeOK, NEW q \in Requests, NEW ok \in BOOLEAN, Recorded(q, ok)
  PROVE  /\ ~ok => Cardinality(FailuresInARow(ProviderOf[q])')
                     = Cardinality(FailuresInARow(ProviderOf[q])) + 1
         /\ \A p \in Providers \ {ProviderOf[q]} : FailuresInARow(p)' = FailuresInARow(p)
<1> DEFINE n == Len(outcomes)
           o == [request |-> q, provider |-> ProviderOf[q], ok |-> ok]
<1>1. outcomes \in Seq([request : Requests, provider : Providers, ok : BOOLEAN]) /\ n \in Nat
  BY DEF TypeOK
<1>2. /\ o \in [request : Requests, provider : Providers, ok : BOOLEAN]
      /\ o.provider = ProviderOf[q] /\ o.ok = ok
  BY ConstantsAssumption
<1>3. /\ outcomes' = Append(outcomes, o) /\ Len(outcomes') = n + 1
      /\ \A i \in 1..n : outcomes'[i] = outcomes[i]
      /\ outcomes'[n + 1] = o
  BY <1>1, <1>2 DEF Recorded
<1>4. /\ 1..(n + 1) = (1..n) \cup {n + 1} /\ n + 1 \notin 1..n
      /\ \A i \in 1..n : i..(n + 1) = (i..n) \cup {n + 1} /\ i..n \subseteq 1..n
      /\ (n + 1)..(n + 1) = {n + 1}
  BY <1>1
<1> HIDE DEF n, o
<1>5. \A p \in Providers \ {ProviderOf[q]} : FailuresInARow(p)' = FailuresInARow(p)
  BY <1>2, <1>3, <1>4 DEF FailuresInARow, n
<1>6. ASSUME ~ok
      PROVE  /\ FailuresInARow(ProviderOf[q])' = FailuresInARow(ProviderOf[q]) \cup {n + 1}
             /\ n + 1 \notin FailuresInARow(ProviderOf[q])
  BY <1>2, <1>3, <1>4, <1>6 DEF FailuresInARow, n
<1>7. ProviderOf[q] \in Providers
  BY ConstantsAssumption
<1> QED
  BY <1>5, <1>6, <1>7, FailuresFinite, FS_AddElement

\* The count the breaker keeps is never more than the failures its provider had in a row:
\* a success, and the end of the reset time, set it to zero.
CountIsEarned == \A p \in Providers : failures[p] <= Cardinality(FailuresInARow(p))

\* A circuit that is open has seen Threshold requests of its provider fail one after the
\* other, whatever the order in which requests of different runs entered, ended, were
\* cancelled or found the reset time elapsed (record_failure, record_success, allow).
THEOREM OpenCorrect == Spec => []OpenMeansRepeatedFailures
<1>1. Init => CountIsEarned
  <2> SUFFICES ASSUME Init, NEW p \in Providers PROVE failures[p] <= Cardinality(FailuresInARow(p))
    BY DEF CountIsEarned
  <2>1. FailuresInARow(p) = {}
    BY DEF Init, FailuresInARow
  <2> QED
    BY <2>1, FS_EmptySet DEF Init
<1>2. TypeOK /\ CountIsEarned /\ [Next]_vars => CountIsEarned'
  <2> SUFFICES ASSUME TypeOK, CountIsEarned, [Next]_vars PROVE CountIsEarned'
    OBVIOUS
  <2>0. \A p \in Providers : /\ failures[p] \in Nat /\ Cardinality(FailuresInARow(p)) \in Nat
                             /\ failures[p] <= Cardinality(FailuresInARow(p))
    BY FailuresFinite DEF TypeOK, CountIsEarned
  <2>1. CASE UNCHANGED <<failures, outcomes>>
    BY <2>1 DEF CountIsEarned, FailuresInARow
  <2>2. ASSUME NEW r \in Providers, Close(r), UNCHANGED outcomes PROVE CountIsEarned'
    <3>1. \A p \in Providers : FailuresInARow(p)' = FailuresInARow(p)
      BY <2>2 DEF FailuresInARow
    <3>2. \A p \in Providers : failures'[p] = IF p = r THEN 0 ELSE failures[p]
      BY <2>2 DEF Close, TypeOK
    <3> QED
      BY <2>0, <3>1, <3>2 DEF CountIsEarned
  <2>3. ASSUME NEW q \in Requests, Succeeds(q) PROVE CountIsEarned'
    <3>1. Recorded(q, TRUE) /\ ProviderOf[q] \in Providers
      BY <2>3, ConstantsAssumption DEF Succeeds
    <3>2. \A p \in Providers : failures'[p] = IF p = ProviderOf[q] THEN 0 ELSE failures[p]
      BY <2>3 DEF Succeeds, RecordSuccess, Close, TypeOK
    <3>3. \A p \in Providers \ {ProviderOf[q]} : FailuresInARow(p)' = FailuresInARow(p)
      BY <3>1, RecordedRow
    <3>4. Cardinality(FailuresInARow(ProviderOf[q])') \in Nat
      <4>1. /\ IsFiniteSet((1..Len(outcomes))')
            /\ FailuresInARow(ProviderOf[q])' \subseteq (1..Len(outcomes))'
        <5>1. Len(outcomes') \in Nat
          BY <3>1, ConstantsAssumption DEF Recorded, TypeOK
        <5> QED
          BY <5>1, FS_Interval DEF FailuresInARow
      <4> QED
        BY <4>1, FS_Subset, FS_CardinalityType
    <3>5. ASSUME NEW p \in Providers PROVE failures'[p] <= Cardinality(FailuresInARow(p)')
      <4>1. CASE p = ProviderOf[q]
        BY <3>2, <3>4, <4>1
      <4>2. CASE p # ProviderOf[q]
        BY <2>0, <3>2, <3>3, <4>2
      <4> QED
        BY <4>1, <4>2
    <3> QED
      BY <3>5 DEF CountIsEarned
  <2>4. ASSUME NEW q \in Requests, FailsForGood(q) PROVE CountIsEarned'
    <3>1. Recorded(q, FALSE) /\ ProviderOf[q] \in Providers
      BY <2>4, ConstantsAssumption DEF FailsForGood
    <3>2. \A p \in Providers : failures'[p] = IF p = ProviderOf[q] THEN failures[p] + 1 ELSE failures[p]
      BY <2>4 DEF FailsForGood, RecordFailure, TypeOK
    <3>3. /\ Cardinality(FailuresInARow(ProviderOf[q])') = Cardinality(FailuresInARow(ProviderOf[q])) + 1
          /\ \A p \in Providers \ {ProviderOf[q]} : FailuresInARow(p)' = FailuresInARow(p)
      BY <3>1, RecordedRow
    <3>4. ASSUME NEW p \in Providers PROVE failures'[p] <= Cardinality(FailuresInARow(p)')
      <4>1. CASE p = ProviderOf[q]
        BY <2>0, <3>2, <3>3, <4>1
      <4>2. CASE p # ProviderOf[q]
        BY <2>0, <3>2, <3>3, <4>2
      <4> QED
        BY <4>1, <4>2
    <3> QED
      BY <3>4 DEF CountIsEarned
  <2>5. ASSUME NEW q \in Requests, Enter(q) PROVE CountIsEarned'
    BY <2>1, <2>2, <2>5, ConstantsAssumption DEF Enter, breaker
  <2>6. ASSUME NEW q \in Requests, Call(q) \/ FailsForNow(q) \/ Retry(q) \/ Cancelled(q)
        PROVE  CountIsEarned'
    BY <2>1, <2>6 DEF Call, FailsForNow, Retry, Cancelled, breaker
  <2>7. CASE Tick \/ UNCHANGED vars
    BY <2>1, <2>7 DEF Tick, vars, breaker
  <2> QED
    BY <2>3, <2>4, <2>5, <2>6, <2>7 DEF Next, Step
<1>3. TypeOK /\ CountIsEarned /\ OpenIffThreshold => OpenMeansRepeatedFailures
  <2> SUFFICES ASSUME TypeOK, CountIsEarned, OpenIffThreshold,
                      NEW p \in Providers, opened_at[p] # Never
               PROVE  Cardinality(FailuresInARow(p)) >= Threshold
    BY DEF OpenMeansRepeatedFailures
  <2>1. /\ failures[p] >= Threshold /\ failures[p] <= Cardinality(FailuresInARow(p))
        /\ failures[p] \in Nat /\ Threshold \in Nat /\ Cardinality(FailuresInARow(p)) \in Nat
    BY FailuresFinite, ConstantsAssumption DEF TypeOK, CountIsEarned, OpenIffThreshold
  <2> QED
    BY <2>1
<1> QED
  BY <1>1, <1>2, <1>3, TypeCorrect, BreakerCorrect, PTL DEF Spec

=============================================================================
