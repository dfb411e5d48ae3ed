-------------------------- MODULE KnowledgeProofs --------------------------
(***************************************************************************)
(* Theorems of Knowledge for any runs, queries, similarities and           *)
(* scenarios.                                                              *)
(*                                                                         *)
(* A cached answer stays the nearest of what was there, because the cache  *)
(* only grows at its end (CacheInv).  The archive keeps one row per run,   *)
(* because an execution that has found no row writes before any other of   *)
(* its run does, unless two of them archived at once (RowsInv).            *)
(* What a run reads is the nearest of the chunks that were there, because  *)
(* chunks are only added at the end, too, and the order of two chunks in a *)
(* search does not depend on the others (NearestInv).                      *)
(***************************************************************************)
EXTENDS Knowledge, ChunkingProofs, FiniteSetTheorems, TLAPS

USE DEF filings, tasks, reads, reports

-----------------------------------------------------------------------------
(* The cache *)

\* the part of the types that the cache needs
CacheTypes ==
  /\ store \in Stores /\ scenario \in Scenarios
  /\ cache \in Seq([query : Queries, run : Runs])
  /\ status \in [Runs -> Statuses]
  /\ hit \in [Runs -> Nat] /\ entries \in [Runs -> Nat]

\* the runs that a lookup has not answered have no hit, and a lookup saw rows that exist
CacheInv ==
  /\ CacheTypes
  /\ \A r \in Runs : status[r] = "absent" => hit[r] = 0
  /\ \A r \in Runs : entries[r] <= Len(cache)
  /\ HitIsNearest

\* Every step but a lookup keeps the answers, and the cache at most grows at its end.
LEMMA OthersKeepAnswers ==
  ASSUME CacheTypes, [Next]_vars, \A r \in Runs : ~Start(r)
  PROVE  /\ UNCHANGED <<store, scenario, hit, entries>>
         /\ \/ cache' = cache
            \/ \E q \in Queries, r \in Runs : cache' = Append(cache, [query |-> q, run |-> r])
         /\ status' \in [Runs -> Statuses]
         /\ \A r \in Runs : status'[r] = "absent" => status[r] = "absent"
<1> DEFINE Keeps ==
      /\ UNCHANGED <<store, scenario, hit, entries>>
      /\ \/ cache' = cache
         \/ \E q \in Queries, r \in Runs : cache' = Append(cache, [query |-> q, run |-> r])
      /\ status' \in [Runs -> Statuses]
      /\ \A r \in Runs : status'[r] = "absent" => status[r] = "absent"
<1> USE DEF CacheTypes
<1>1. CASE Ingest \/ AddOne \/ AddAll
  BY <1>1 DEF Ingest, AddOne, AddAll
<1>2. ASSUME NEW r \in Runs, Resume(r) PROVE Keeps
  BY <1>2 DEF Resume, SetStatus, Goto, Statuses
<1>3. ASSUME NEW r \in Runs, NEW k \in Execs, Execute(r, k) PROVE Keeps
  <2>1. CASE NodeUpdate(r, k)
    BY <2>1 DEF NodeUpdate
  <2>2. CASE GraphStops(r, k)
    <3>1. UNCHANGED <<store, scenario, hit, entries, cache>>
      BY <2>2 DEF GraphStops
    <3>2. \E s \in {"awaiting_approval", "completed"} : status' = [status EXCEPT ![r] = s]
      BY <2>2 DEF GraphStops, SetStatus
    <3> QED
      BY <3>1, <3>2 DEF Statuses
  <2>3. CASE SelectReport(r, k) \/ WriteReport(r, k) \/ AppendReport(r, k)
    BY <2>3 DEF SelectReport, WriteReport, AppendReport
  <2>4. CASE SaveCache(r, k)
    <3>1. scenario.asked[r] \in Queries /\ EmptyQuery \in Queries
      BY KnowledgeAssumption
    <3> QED
      BY <2>4, <3>1 DEF SaveCache
  <2> QED
    BY <1>3, <2>1, <2>2, <2>3, <2>4 DEF Execute
<1>4. CASE UNCHANGED vars
  BY <1>4 DEF vars
<1> QED
  BY <1>1, <1>2, <1>3, <1>4 DEF Next

\* Similarities are numbers from 0 to 100.
LEMMA ScoreRange ==
  ASSUME CacheTypes, NEW q \in Queries, NEW e \in 1..Len(cache)
  PROVE  Score(q, e) \in 0..100
<1> DEFINE Entry == [query : Queries, run : Runs]
<1>1. cache \in Seq(Entry)
  BY DEF CacheTypes
<1>2. cache[e] \in Entry
  <2> HIDE DEF Entry
  <2> QED
    BY <1>1
<1>3. cache[e].query \in Queries
  BY <1>2
<1>4. Similarity[<<q, cache[e].query>>] \in 0..100
  BY <1>3, KnowledgeAssumption
<1>5. CASE IsZero(q, e)
  BY <1>5 DEF Score
<1>6. CASE ~IsZero(q, e)
  BY <1>4, <1>6 DEF Score
<1> QED
  BY <1>5, <1>6

\* What either store answers is nearest, and above the threshold if a distance is a number.
LEMMA LookupIsNearest ==
  ASSUME CacheTypes, NEW q \in Queries, NEW h \in Lookup(q)
  PROVE  /\ h \in 1..Len(cache)
         /\ \A e \in 1..Len(cache) : Score(q, e) <= Score(q, h)
         /\ \/ Score(q, h) > CosineThreshold
            \/ store = "postgres" /\ \A e \in 1..Len(cache) : IsZero(q, e)
<1> DEFINE rows == 1..Len(cache)
           numbers == {e \in rows : ~IsZero(q, e)}
<1>1. CASE store = "memory"
  BY <1>1 DEF Lookup, HitsInMemory, Best
<1>2. CASE store # "memory"
  <2>1. h \in NearestRows(q) /\ ~Missed(q, h)
    BY <1>2 DEF Lookup
  <2>2. CASE numbers = {}
    <3>1. \A e \in rows : IsZero(q, e) /\ Score(q, e) = 0
      BY <2>2 DEF Score
    <3>2. h \in rows
      BY <2>1, <2>2 DEF NearestRows
    <3>3. store = "postgres"
      BY <1>2, KnowledgeAssumption DEF CacheTypes
    <3> QED
      BY <3>1, <3>2, <3>3
  <2>3. CASE numbers # {}
    <3>1. h \in numbers /\ \A d \in numbers : Score(q, d) <= Score(q, h)
      BY <2>1, <2>3 DEF NearestRows
    <3>2. h \in rows /\ ~IsZero(q, h)
      BY <3>1, Zenon
    <3>3. Score(q, h) \in 0..100
      BY <3>2, ScoreRange
    <3>4. ASSUME NEW e \in rows PROVE Score(q, e) <= Score(q, h)
      <4>1. CASE IsZero(q, e)
        <5>1. Score(q, e) = 0
          BY <4>1 DEF Score
        <5>2. \A n \in 0..100 : 0 <= n
          OBVIOUS
        <5> QED
          BY <3>3, <5>1, <5>2, Zenon
      <4>2. CASE ~IsZero(q, e)
        <5>1. e \in numbers
          BY <4>2, Zenon
        <5> QED
          BY <3>1, <5>1
      <4> QED
        BY <4>1, <4>2
    <3>5. Score(q, h) > CosineThreshold
      <4>1. ~(Score(q, h) <= CosineThreshold)
        BY <2>1, <3>2, Zenon DEF Missed
      <4> QED
        BY <3>3, <4>1 DEF CosineThreshold
    <3> QED
      BY <3>2, <3>4, <3>5
  <2> QED
    BY <2>2, <2>3
<1> QED
  BY <1>1, <1>2

\* A cached answer is the nearest that was there, and only Postgres may answer with one that
\* is not near, if no distance is a number (SemanticCacheStore.lookup).
THEOREM HitsAreNearest == Spec => []HitIsNearest
<1>1. Init => CacheInv
  <2> SUFFICES ASSUME Init PROVE CacheInv
    OBVIOUS
  <2>1. cache = <<>> /\ cache \in Seq([query : Queries, run : Runs]) /\ Len(cache) = 0
    BY DEF Init
  <2>2. CacheTypes
    BY <2>1 DEF Init, CacheTypes, Statuses
  <2>3. \A r \in Runs : hit[r] = 0 /\ entries[r] = 0
    BY DEF Init
  <2> QED
    BY <2>1, <2>2, <2>3 DEF CacheInv, HitIsNearest
<1>2. CacheInv /\ [Next]_vars => CacheInv'
  <2> SUFFICES ASSUME CacheInv, [Next]_vars PROVE CacheInv'
    OBVIOUS
  <2>1. CacheTypes /\ Len(cache) \in Nat
    BY DEF CacheInv, CacheTypes
  <2>2. ASSUME NEW r \in Runs, Start(r) PROVE CacheInv'
    <3> DEFINE q == scenario.asked[r]
    <3>1. q \in Queries
      BY <2>1, KnowledgeAssumption DEF CacheTypes
    <3>2. /\ UNCHANGED <<store, scenario, cache>>
          /\ entries' = [entries EXCEPT ![r] = Len(cache)]
          /\ \E s \in {"running", "completed"} : status' = [status EXCEPT ![r] = s]
          /\ \/ hit' = hit
             \/ \E e \in Lookup(q) : hit' = [hit EXCEPT ![r] = e]
      BY <2>2 DEF Start, SetStatus
    <3>3. hit[r] = 0
      BY <2>2 DEF Start, CacheInv
    <3> HIDE DEF q
    <3>4. /\ hit'[r] = 0 \/ hit'[r] \in Lookup(q)
          /\ \A s \in Runs \ {r} : hit'[s] = hit[s]
          /\ hit' \in [Runs -> Nat]
      <4>1. \A e \in Lookup(q) : e \in Nat
        BY <2>1, <3>1, LookupIsNearest
      <4> QED
        BY <2>1, <3>2, <3>3, <4>1 DEF CacheTypes
    <3>5. entries'[r] = Len(cache) /\ \A s \in Runs \ {r} : entries'[s] = entries[s]
      BY <2>1, <3>2 DEF CacheTypes
    <3>6. CacheTypes'
      BY <2>1, <3>2, <3>4 DEF CacheTypes, Statuses
    <3>7. \A s \in Runs : status'[s] = "absent" => hit'[s] = 0
      <4>1. \A s \in Runs : status'[s] = "absent" => s # r /\ status[s] = "absent"
        BY <2>1, <3>2 DEF CacheTypes
      <4> QED
        BY <3>4, <4>1 DEF CacheInv
    <3>8. \A s \in Runs : entries'[s] <= Len(cache')
      <4>1. Len(cache') = Len(cache) /\ entries'[r] <= Len(cache)
        BY <2>1, <3>2, <3>5
      <4>2. \A s \in Runs \ {r} : entries'[s] <= Len(cache)
        BY <3>5 DEF CacheInv
      <4> QED
        BY <4>1, <4>2
    <3>9. HitIsNearest'
      <4> SUFFICES ASSUME NEW s \in Runs, hit'[s] # 0
                   PROVE  /\ hit'[s] <= entries'[s]
                          /\ \A e \in 1..entries'[s] :
                               Score(scenario.asked[s], e) <= Score(scenario.asked[s], hit'[s])
                          /\ \/ Score(scenario.asked[s], hit'[s]) > CosineThreshold
                             \/ /\ store = "postgres"
                                /\ \A e \in 1..entries'[s] : IsZero(scenario.asked[s], e)
        BY <3>2 DEF HitIsNearest, Score, IsZero
      <4>1. CASE s = r
        <5>1. hit'[s] \in Lookup(q) /\ entries'[s] = Len(cache) /\ scenario.asked[s] = q
          BY <3>4, <3>5, <4>1 DEF q
        <5> QED
          BY <2>1, <3>1, <5>1, LookupIsNearest
      <4>2. CASE s # r
        <5>1. hit'[s] = hit[s] /\ entries'[s] = entries[s]
          BY <3>4, <3>5, <4>2
        <5> QED
          BY <5>1 DEF CacheInv, HitIsNearest
      <4> QED
        BY <4>1, <4>2
    <3> QED
      BY <3>6, <3>7, <3>8, <3>9 DEF CacheInv
  <2>3. CASE \A r \in Runs : ~Start(r)
    <3>1. /\ UNCHANGED <<store, scenario, hit, entries>>
          /\ \/ cache' = cache
             \/ \E q \in Queries, r \in Runs : cache' = Append(cache, [query |-> q, run |-> r])
          /\ status' \in [Runs -> Statuses]
          /\ \A r \in Runs : status'[r] = "absent" => status[r] = "absent"
      BY <2>1, <2>3, OthersKeepAnswers
    <3>2. /\ cache' \in Seq([query : Queries, run : Runs])
          /\ Len(cache) <= Len(cache')
          /\ \A e \in 1..Len(cache) : cache'[e] = cache[e]
      <4> DEFINE Entry == [query : Queries, run : Runs]
      <4>1. cache \in Seq(Entry)
        BY <2>1 DEF CacheTypes
      <4>2. cache' = cache \/ \E e \in Entry : cache' = Append(cache, e)
        BY <3>1
      <4> HIDE DEF Entry
      <4>3. cache' \in Seq(Entry)
        BY <4>1, <4>2
      <4>4. Len(cache) <= Len(cache') /\ \A e \in 1..Len(cache) : cache'[e] = cache[e]
        BY <4>1, <4>2
      <4> QED
        BY <4>3, <4>4 DEF Entry
    <3>3. CacheTypes'
      BY <2>1, <3>1, <3>2 DEF CacheTypes
    <3>4. \A r \in Runs : entries'[r] <= Len(cache')
      <4>1. \A r \in Runs : entries[r] \in Nat /\ entries[r] <= Len(cache)
        BY <2>1 DEF CacheInv, CacheTypes
      <4>2. Len(cache') \in Nat
        BY <3>2
      <4> QED
        BY <2>1, <3>1, <3>2, <4>1, <4>2
    <3>5. HitIsNearest'
      <4> SUFFICES ASSUME NEW r \in Runs, hit[r] # 0
                   PROVE  (/\ hit[r] <= entries[r]
                           /\ \A e \in 1..entries[r] :
                                Score(scenario.asked[r], e) <= Score(scenario.asked[r], hit[r])
                           /\ \/ Score(scenario.asked[r], hit[r]) > CosineThreshold
                              \/ /\ store = "postgres"
                                 /\ \A e \in 1..entries[r] : IsZero(scenario.asked[r], e))'
        BY <3>1 DEF HitIsNearest
      <4> DEFINE q == scenario.asked[r]
      <4>1. hit[r] \in 1..entries[r] /\ 1..entries[r] \subseteq 1..Len(cache)
        BY <2>1 DEF CacheInv, CacheTypes, HitIsNearest
      <4>2. \A e \in 1..entries[r] : cache'[e] = cache[e]
        BY <3>2, <4>1
      <4>3. \A e \in 1..entries[r] : IsZero(q, e)' <=> IsZero(q, e)
        BY <3>1, <4>2 DEF IsZero
      <4>4. \A e \in 1..entries[r] : Score(q, e)' = Score(q, e)
        BY <3>1, <4>2, <4>3 DEF Score
      <4>5. /\ hit[r] <= entries[r]
            /\ \A e \in 1..entries[r] : Score(q, e) <= Score(q, hit[r])
            /\ \/ Score(q, hit[r]) > CosineThreshold
               \/ store = "postgres" /\ \A e \in 1..entries[r] : IsZero(q, e)
        BY DEF CacheInv, HitIsNearest
      <4> QED
        BY <3>1, <4>1, <4>3, <4>4, <4>5
    <3> QED
      BY <3>1, <3>3, <3>4, <3>5 DEF CacheInv
  <2> QED
    BY <2>2, <2>3
<1>3. CacheInv => HitIsNearest
  BY DEF CacheInv
<1> QED
  BY <1>1, <1>2, <1>3, PTL DEF Spec

-----------------------------------------------------------------------------
(* The archive *)

\* the part of the types that the archive needs
RowTypes ==
  /\ archive \in Seq(Runs)
  /\ phase \in [Runs -> [Execs -> Phases]]
  /\ found \in [Runs -> [Execs -> Nat]]

\* a run two executions of which have not archived at once has one row at most, one of
\* its executions is writing at most, and if it has found no row there is none
RowsOf(r) ==
  /\ \A i, j \in Rows(r) : i = j
  /\ \A k, j \in Execs : phase[r][k] = "writing" /\ phase[r][j] = "writing" => k = j
  /\ \A k \in Execs : phase[r][k] = "writing" /\ found[r][k] = 0 => Rows(r) = {}

RowsInv ==
  /\ RowTypes
  /\ store = "postgres" => \A r \in Runs : r \notin overlapped => RowsOf(r)

\* The steps that keep the rows, and of which none makes an execution write.
LEMMA RowsStable ==
  ASSUME RowsInv, UNCHANGED <<store, archive, found, overlapped>>,
         phase' \in [Runs -> [Execs -> Phases]],
         \A r \in Runs, k \in Execs : phase'[r][k] = "writing" => phase[r][k] = "writing"
  PROVE  RowsInv'
<1>1. RowTypes'
  BY DEF RowsInv, RowTypes
<1>2. \A r \in Runs : Rows(r)' = Rows(r)
  BY DEF Rows
<1>3. ASSUME NEW r \in Runs, RowsOf(r) PROVE RowsOf(r)'
  <2>1. /\ \A k, j \in Execs : phase'[r][k] = "writing" /\ phase'[r][j] = "writing" => k = j
        /\ \A k \in Execs : phase'[r][k] = "writing" /\ found'[r][k] = 0 => Rows(r) = {}
    BY <1>3 DEF RowsOf
  <2> QED
    BY <1>2, <1>3, <2>1 DEF RowsOf
<1> QED
  BY <1>1, <1>3 DEF RowsInv

\* The steps that do not archive.
LEMMA OthersKeepRows ==
  ASSUME RowTypes, [Next]_vars,
         \A r \in Runs, k \in Execs :
           ~SelectReport(r, k) /\ ~WriteReport(r, k) /\ ~AppendReport(r, k)
  PROVE  /\ UNCHANGED <<store, archive, found, overlapped>>
         /\ phase' \in [Runs -> [Execs -> Phases]]
         /\ \A r \in Runs, k \in Execs : phase'[r][k] = "writing" => phase[r][k] = "writing"
<1> DEFINE Keeps ==
      /\ UNCHANGED <<store, archive, found, overlapped>>
      /\ phase' \in [Runs -> [Execs -> Phases]]
      /\ \A r \in Runs, k \in Execs : phase'[r][k] = "writing" => phase[r][k] = "writing"
<1>1. ASSUME UNCHANGED <<store, archive, found, overlapped>>, UNCHANGED phase PROVE Keeps
  BY <1>1 DEF RowTypes
<1>2. ASSUME UNCHANGED <<store, archive, found, overlapped>>,
             NEW r \in Runs, NEW k \in Execs, NEW p \in Phases \ {"writing"}, Goto(r, k, p)
      PROVE  Keeps
  BY <1>2 DEF RowTypes, Goto
<1>3. CASE Ingest \/ AddOne \/ AddAll
  BY <1>1, <1>3 DEF Ingest, AddOne, AddAll
<1>4. ASSUME NEW r \in Runs, Start(r) PROVE Keeps
  <2>1. UNCHANGED <<store, archive, found, overlapped>>
    BY <1>4 DEF Start
  <2>2. UNCHANGED phase \/ Goto(r, 1, "graph")
    BY <1>4 DEF Start
  <2>3. 1 \in Execs /\ "graph" \in Phases \ {"writing"}
    BY DEF Execs, Phases
  <2> QED
    BY <1>1, <1>2, <2>1, <2>2, <2>3
<1>5. ASSUME NEW r \in Runs, Resume(r) PROVE Keeps
  <2>1. 2 \in Execs /\ "graph" \in Phases \ {"writing"}
    BY DEF Execs, Phases
  <2> QED
    BY <1>2, <1>5, <2>1 DEF Resume
<1>6. ASSUME NEW r \in Runs, NEW k \in Execs, Execute(r, k) PROVE Keeps
  <2>1. CASE NodeUpdate(r, k)
    BY <1>1, <2>1 DEF NodeUpdate
  <2>2. CASE GraphStops(r, k)
    <3>1. \E p \in {"archive", "done"} : Goto(r, k, p)
      BY <2>2 DEF GraphStops
    <3>2. {"archive", "done"} \subseteq Phases \ {"writing"}
      BY DEF Phases
    <3> QED
      BY <1>2, <2>2, <3>1, <3>2 DEF GraphStops
  <2>3. CASE SaveCache(r, k)
    <3>1. "done" \in Phases \ {"writing"}
      BY DEF Phases
    <3> QED
      BY <1>2, <2>3, <3>1 DEF SaveCache
  <2> QED
    BY <1>6, <2>1, <2>2, <2>3 DEF Execute
<1>7. CASE UNCHANGED vars
  BY <1>1, <1>7 DEF vars
<1> QED
  BY <1>3, <1>4, <1>5, <1>6, <1>7 DEF Next

\* What SELECT finds is a row of the run, or that there is none.
LEMMA SelectKeepsRows ==
  ASSUME RowsInv, NEW r \in Runs, NEW k \in Execs, SelectReport(r, k)
  PROVE  RowsInv'
<1>1. /\ UNCHANGED <<store, archive>> /\ archive \in Seq(Runs)
      /\ phase' = [phase EXCEPT ![r][k] = "writing"]
  BY DEF SelectReport, Goto, RowsInv, RowTypes
<1>2. PICK row \in Existing(r) : found' = [found EXCEPT ![r][k] = row]
  BY DEF SelectReport
<1>3. row \in Nat /\ (row = 0 => Rows(r) = {})
  BY <1>1, <1>2 DEF Existing, Rows
<1>4. overlapped' = IF \E j \in Execs : phase[r][j] = "writing"
                      THEN overlapped \cup {r} ELSE overlapped
  BY DEF SelectReport
<1>5. RowTypes'
  <2>1. phase' \in [Runs -> [Execs -> Phases]]
    BY <1>1 DEF RowsInv, RowTypes, Phases
  <2>2. found' \in [Runs -> [Execs -> Nat]]
    BY <1>2, <1>3 DEF RowsInv, RowTypes
  <2> QED
    BY <1>1, <2>1, <2>2 DEF RowTypes
<1>6. \A s \in Runs : Rows(s)' = Rows(s)
  BY <1>1 DEF Rows
<1>7. ASSUME store = "postgres", NEW s \in Runs, s \notin overlapped' PROVE RowsOf(s)'
  <2>1. RowsOf(s)
    BY <1>4, <1>7 DEF RowsInv
  <2>2. CASE s # r
    <3>1. phase'[s] = phase[s] /\ found'[s] = found[s]
      BY <1>1, <1>2, <2>2 DEF RowsInv, RowTypes
    <3> QED
      BY <1>6, <2>1, <3>1 DEF RowsOf
  <2>3. CASE s = r
    <3>1. \A j \in Execs : phase[r][j] # "writing"
      BY <1>4, <1>7, <2>3
    <3>2. \A j \in Execs : phase'[r][j] = "writing" => j = k
      BY <1>1, <3>1 DEF RowsInv, RowTypes
    <3>3. found'[r][k] = row
      BY <1>2 DEF RowsInv, RowTypes
    <3>4. \A j \in Execs : phase'[r][j] = "writing" /\ found'[r][j] = 0 => Rows(r) = {}
      BY <1>3, <3>2, <3>3
    <3>5. \A i, j \in Execs : phase'[r][i] = "writing" /\ phase'[r][j] = "writing" => i = j
      BY <3>2
    <3> QED
      BY <1>6, <2>1, <2>3, <3>4, <3>5 DEF RowsOf
  <2> QED
    BY <2>2, <2>3
<1> QED
  BY <1>1, <1>5, <1>7 DEF RowsInv

\* A row is added for a run that has none.
LEMMA WriteKeepsRows ==
  ASSUME RowsInv, NEW r \in Runs, NEW k \in Execs, WriteReport(r, k)
  PROVE  RowsInv'
<1> DEFINE n == Len(archive) + 1
<1>1. /\ UNCHANGED <<store, overlapped>> /\ archive \in Seq(Runs) /\ Len(archive) \in Nat
      /\ phase[r][k] = "writing"
      /\ phase' = [phase EXCEPT ![r][k] = "cache"]
      /\ found' = [found EXCEPT ![r][k] = 0]
  BY DEF WriteReport, Goto, RowsInv, RowTypes
<1>2. archive' = archive \/ (found[r][k] = 0 /\ archive' = Append(archive, r))
  BY DEF WriteReport
<1>3. RowTypes'
  <2>1. phase' \in [Runs -> [Execs -> Phases]] /\ found' \in [Runs -> [Execs -> Nat]]
    BY <1>1 DEF RowsInv, RowTypes, Phases
  <2>2. archive' \in Seq(Runs)
    BY <1>1, <1>2
  <2> QED
    BY <2>1, <2>2 DEF RowTypes
<1>4. ASSUME store = "postgres", NEW s \in Runs, s \notin overlapped PROVE RowsOf(s)'
  <2>1. RowsOf(s)
    BY <1>4 DEF RowsInv
  <2>2. \A j \in Execs : phase'[s][j] = "writing" =>
          /\ phase[s][j] = "writing" /\ found'[s][j] = found[s][j]
          /\ ~(s = r /\ j = k)
    BY <1>1 DEF RowsInv, RowTypes
  <2>3. CASE Rows(s)' = Rows(s)
    <3>1. /\ \A i, j \in Execs : phase'[s][i] = "writing" /\ phase'[s][j] = "writing" => i = j
          /\ \A j \in Execs : phase'[s][j] = "writing" /\ found'[s][j] = 0 => Rows(s) = {}
      BY <2>1, <2>2 DEF RowsOf
    <3> QED
      BY <2>1, <2>3, <3>1 DEF RowsOf
  <2>4. CASE s = r /\ archive' # archive
    <3>1. found[r][k] = 0 /\ archive' = Append(archive, r)
      BY <1>2, <2>4
    <3>2. Rows(r) = {}
      BY <1>1, <2>1, <2>4, <3>1 DEF RowsOf
    <3>3. Rows(r)' \subseteq {n}
      BY <1>1, <3>1, <3>2 DEF Rows
    <3>4. \A j \in Execs : phase'[r][j] # "writing"
      BY <1>1, <2>1, <2>2, <2>4 DEF RowsOf
    <3> QED
      BY <2>4, <3>3, <3>4 DEF RowsOf
  <2>5. CASE s # r \/ archive' = archive
    <3>1. Rows(s)' = Rows(s)
      BY <1>1, <1>2, <2>5 DEF Rows
    <3> QED
      BY <2>3, <3>1
  <2> QED
    BY <2>4, <2>5
<1> QED
  BY <1>1, <1>3, <1>4 DEF RowsInv

\* The archive has one row per run, although nothing in the table says so, unless two of the
\* run's executions archived at once (PostgresResearchMemoryStore.save_report).
THEOREM ArchiveCorrect == Spec => []OneRowPerRun
<1>1. Init => RowsInv
  <2> SUFFICES ASSUME Init PROVE RowsInv
    OBVIOUS
  <2>1. RowTypes
    BY DEF Init, RowTypes, Phases
  <2>2. \A r \in Runs : Rows(r) = {}
    BY DEF Init, Rows
  <2>3. \A r \in Runs, k \in Execs : phase[r][k] # "writing"
    BY DEF Init
  <2> QED
    BY <2>1, <2>2, <2>3 DEF RowsInv, RowsOf
<1>2. RowsInv /\ [Next]_vars => RowsInv'
  <2> SUFFICES ASSUME RowsInv, [Next]_vars PROVE RowsInv'
    OBVIOUS
  <2>1. ASSUME NEW r \in Runs, NEW k \in Execs, SelectReport(r, k) PROVE RowsInv'
    BY <2>1, SelectKeepsRows
  <2>2. ASSUME NEW r \in Runs, NEW k \in Execs, WriteReport(r, k) PROVE RowsInv'
    BY <2>2, WriteKeepsRows
  <2>3. ASSUME NEW r \in Runs, NEW k \in Execs, AppendReport(r, k) PROVE RowsInv'
    <3>1. store = "memory" /\ store' = store
      BY <2>3 DEF AppendReport
    <3>2. RowTypes'
      BY <2>3 DEF AppendReport, Goto, RowsInv, RowTypes, Phases
    <3> QED
      BY <3>1, <3>2 DEF RowsInv
  <2>4. CASE \A r \in Runs, k \in Execs :
               ~SelectReport(r, k) /\ ~WriteReport(r, k) /\ ~AppendReport(r, k)
    <3>1. RowTypes
      BY DEF RowsInv
    <3> QED
      BY <2>4, <3>1, OthersKeepRows, RowsStable
  <2> QED
    BY <2>1, <2>2, <2>3, <2>4
<1>3. RowsInv => OneRowPerRun
  <2> SUFFICES ASSUME RowsInv, store = "postgres", NEW r \in Runs, r \notin overlapped
               PROVE  ~(Cardinality(Rows(r)) > 1)
    BY DEF OneRowPerRun
  <2>1. \A i, j \in Rows(r) : i = j
    BY DEF RowsInv, RowsOf
  <2>2. CASE Rows(r) = {}
    BY <2>2, FS_EmptySet
  <2>3. CASE Rows(r) # {}
    <3>1. PICK i : Rows(r) = {i}
      BY <2>1, <2>3
    <3>2. Cardinality({i}) = 1
      BY FS_Singleton
    <3> QED
      BY <3>1, <3>2
  <2> QED
    BY <2>2, <2>3
<1> QED
  BY <1>1, <1>2, <1>3, PTL DEF Spec

-----------------------------------------------------------------------------
(* Types *)

\* the filings and what runs have read of them
FilingTypes ==
  /\ store \in Stores /\ scenario \in Scenarios
  /\ uploads \in Seq(Uploads) /\ document \in Documents
  /\ adding \in Seq(Chunk) /\ chunks \in Seq(Chunk)
  /\ evidence \in [Runs -> SUBSET (1..Len(chunks))]
  /\ looked \in [Runs -> 0..Len(chunks)]

TaskTypes ==
  /\ status \in [Runs -> Statuses] /\ phase \in [Runs -> [Execs -> Phases]]
  /\ pos \in [Runs -> [Execs -> 0..Total]] /\ from \in [Runs -> [Execs -> 0..Total]]
  /\ checkpoint \in [Runs -> 0..Total]

AnswerTypes ==
  /\ cache \in Seq([query : Queries, run : Runs])
  /\ hit \in [Runs -> 0..Len(cache)] /\ entries \in [Runs -> 0..Len(cache)]

ReportTypes ==
  /\ archive \in Seq(Runs) /\ found \in [Runs -> [Execs -> 0..Len(archive)]]
  /\ overlapped \subseteq Runs

TypeInv == FilingTypes /\ TaskTypes /\ AnswerTypes /\ ReportTypes

\* The archive of filings only grows, so an index that a run has read stays one.
LEMMA GrowingKeepsIndices ==
  ASSUME FilingTypes, UNCHANGED <<store, scenario, evidence, looked>>,
         uploads' \in Seq(Uploads), document' \in Documents, adding' \in Seq(Chunk),
         chunks' \in Seq(Chunk), Len(chunks) <= Len(chunks')
  PROVE  FilingTypes'
<1>1. Len(chunks) \in Nat /\ Len(chunks') \in Nat
  BY DEF FilingTypes
<1>2. 1..Len(chunks) \subseteq 1..Len(chunks') /\ 0..Len(chunks) \subseteq 0..Len(chunks')
  BY <1>1
<1>3. /\ evidence' \in [Runs -> SUBSET (1..Len(chunks'))]
      /\ looked' \in [Runs -> 0..Len(chunks')]
  BY <1>2 DEF FilingTypes
<1> QED
  BY <1>3 DEF FilingTypes

\* An upload's chunks, and their arrival one by one or all at once.
LEMMA FilingSteps ==
  ASSUME FilingTypes, Ingest \/ AddOne \/ AddAll
  PROVE  /\ FilingTypes' /\ Len(chunks) <= Len(chunks')
         /\ \A c \in 1..Len(chunks) : chunks'[c] = chunks[c]
<1>0. /\ uploads \in Seq(Uploads) /\ document \in Documents
      /\ adding \in Seq(Chunk) /\ chunks \in Seq(Chunk) /\ Len(chunks) \in Nat
  BY DEF FilingTypes
<1>1. CASE Ingest
  <2> DEFINE u == Head(uploads)
             n == Len(Chunks(u.text))
  <2>1. uploads # <<>> /\ uploads' = Tail(uploads) /\ document' = u.text
        /\ adding' = [c \in 1..n |-> [ticker |-> u.ticker, period |-> u.period, near |-> u.near[c]]]
        /\ UNCHANGED <<store, scenario, chunks, evidence, looked>>
    BY <1>1 DEF Ingest
  <2>2. u \in Uploads /\ uploads' \in Seq(Uploads)
    BY <1>0, <2>1
  <2>3. /\ u.ticker \in Tickers /\ u.period \in Periods /\ u.text \in Documents
        /\ u.near \in Seq(Nat) /\ Len(u.near) = n
    BY <2>2 DEF Uploads
  <2> HIDE DEF u, n
  <2>4. n \in Nat /\ \A c \in 1..n : u.near[c] \in Nat
    BY <2>3
  <2>5. adding' \in [1..n -> Chunk]
    BY <2>1, <2>3, <2>4 DEF Chunk
  <2>6. adding' \in Seq(Chunk)
    BY <2>4, <2>5
  <2> QED
    BY <1>0, <2>1, <2>2, <2>3, <2>6, GrowingKeepsIndices
<1>2. CASE AddOne \/ AddAll
  <2>1. UNCHANGED <<store, scenario, uploads, document, evidence, looked>>
    BY <1>2 DEF AddOne, AddAll
  <2>2. /\ adding' \in Seq(Chunk) /\ chunks' \in Seq(Chunk) /\ Len(chunks) <= Len(chunks')
        /\ \A c \in 1..Len(chunks) : chunks'[c] = chunks[c]
    <3>1. CASE AddOne
      <4>1. adding # <<>> /\ chunks' = Append(chunks, Head(adding)) /\ adding' = Tail(adding)
        BY <3>1 DEF AddOne
      <4> QED
        BY <1>0, <4>1
    <3>2. CASE AddAll
      <4>1. adding' = <<>> /\ (chunks' = chunks \/ chunks' = chunks \o adding)
        BY <3>2 DEF AddAll
      <4>2. /\ chunks \o adding \in Seq(Chunk) /\ Len(chunks) <= Len(chunks \o adding)
            /\ \A c \in 1..Len(chunks) : (chunks \o adding)[c] = chunks[c]
        BY <1>0
      <4>3. /\ chunks' \in Seq(Chunk) /\ Len(chunks) <= Len(chunks')
            /\ \A c \in 1..Len(chunks) : chunks'[c] = chunks[c]
        <5>1. CASE chunks' = chunks
          BY <1>0, <5>1
        <5>2. CASE chunks' = chunks \o adding
          BY <4>2, <5>2
        <5> QED
          BY <4>1, <5>1, <5>2
      <4> QED
        BY <4>1, <4>3
    <3> QED
      BY <1>2, <3>1, <3>2
  <2> QED
    BY <1>0, <2>1, <2>2, GrowingKeepsIndices
<1> QED
  BY <1>1, <1>2

\* What a search returns are indices of chunks.
LEMMA SearchType ==
  ASSUME FilingTypes, NEW plan, NEW S \in SimilaritySearch(plan)
  PROVE  S \subseteq 1..Len(chunks)
BY DEF SimilaritySearch, kSubset

\* The steps of the graph.
LEMMA GraphSteps ==
  ASSUME FilingTypes, TaskTypes, NEW r \in Runs, NEW k \in Execs,
         NodeUpdate(r, k) \/ GraphStops(r, k)
  PROVE  FilingTypes' /\ TaskTypes'
<1>1. CASE NodeUpdate(r, k)
  <2>1. /\ UNCHANGED <<store, scenario, uploads, document, adding, chunks, status, phase, from>>
        /\ pos' = [pos EXCEPT ![r][k] = @ + 1]
        /\ checkpoint' = [checkpoint EXCEPT ![r] = pos[r][k] + 1]
        /\ RagResearcher(r) \/ UNCHANGED <<evidence, looked>>
        /\ pos[r][k] < Total
    BY <1>1 DEF NodeUpdate, HasUpdate
  <2>2. pos[r][k] \in 0..Total /\ pos[r][k] + 1 \in 0..Total
    BY <2>1 DEF TaskTypes, Total
  <2>3. pos' \in [Runs -> [Execs -> 0..Total]] /\ checkpoint' \in [Runs -> 0..Total]
    BY <2>1, <2>2 DEF TaskTypes
  <2>4. TaskTypes'
    BY <2>1, <2>3 DEF TaskTypes
  <2>5. /\ evidence' \in [Runs -> SUBSET (1..Len(chunks))]
        /\ looked' \in [Runs -> 0..Len(chunks)]
    <3>1. CASE RagResearcher(r)
      <4> DEFINE plan == Plan[scenario.asked[r]]
      <4>1. PICK S \in SimilaritySearch(plan) :
              evidence' = [evidence EXCEPT ![r] = {c \in S : InPeriod(c, plan.period)}]
        BY <3>1 DEF RagResearcher
      <4>2. {c \in S : InPeriod(c, plan.period)} \subseteq 1..Len(chunks)
        BY SearchType
      <4>3. looked' = [looked EXCEPT ![r] = Len(chunks)] /\ Len(chunks) \in 0..Len(chunks)
        BY <3>1 DEF RagResearcher, FilingTypes
      <4> QED
        BY <4>1, <4>2, <4>3 DEF FilingTypes
    <3>2. CASE UNCHANGED <<evidence, looked>>
      BY <3>2 DEF FilingTypes
    <3> QED
      BY <2>1, <3>1, <3>2
  <2>6. FilingTypes'
    BY <2>1, <2>5 DEF FilingTypes
  <2> QED
    BY <2>4, <2>6
<1>2. CASE GraphStops(r, k)
  <2>1. /\ UNCHANGED <<store, scenario, uploads, document, adding, chunks, evidence, looked>>
        /\ UNCHANGED <<pos, from, checkpoint>>
    BY <1>2 DEF GraphStops
  <2>2. /\ \E s \in {"awaiting_approval", "completed"} : status' = [status EXCEPT ![r] = s]
        /\ \E p \in {"archive", "done"} : phase' = [phase EXCEPT ![r][k] = p]
    BY <1>2 DEF GraphStops, SetStatus, Goto
  <2>3. status' \in [Runs -> Statuses] /\ phase' \in [Runs -> [Execs -> Phases]]
    BY <2>2 DEF TaskTypes, Statuses, Phases
  <2> QED
    BY <2>1, <2>3 DEF FilingTypes, TaskTypes
<1> QED
  BY <1>1, <1>2

\* The steps that archive and cache a report.
LEMMA SaveSteps ==
  ASSUME TypeInv, NEW r \in Runs, NEW k \in Execs,
         SelectReport(r, k) \/ WriteReport(r, k) \/ AppendReport(r, k) \/ SaveCache(r, k)
  PROVE  TypeInv'
<1>1. /\ UNCHANGED <<store, scenario, uploads, document, adding, chunks, evidence, looked>>
      /\ UNCHANGED <<status, pos, from, checkpoint, hit, entries>>
  BY DEF SelectReport, WriteReport, AppendReport, SaveCache
<1>2. FilingTypes'
  BY <1>1 DEF TypeInv, FilingTypes
<1>3. TaskTypes'
  <2>1. \E p \in {"writing", "cache", "done"} : phase' = [phase EXCEPT ![r][k] = p]
    BY DEF SelectReport, WriteReport, AppendReport, SaveCache, Goto
  <2>2. phase' \in [Runs -> [Execs -> Phases]]
    BY <2>1 DEF TypeInv, TaskTypes, Phases
  <2> QED
    BY <1>1, <2>2 DEF TypeInv, TaskTypes
<1>4. AnswerTypes'
  <2> DEFINE Entry == [query : Queries, run : Runs]
  <2>1. cache' = cache \/ \E e \in Entry : cache' = Append(cache, e)
    <3>1. CASE SaveCache(r, k)
      <4>1. scenario.asked[r] \in Queries /\ EmptyQuery \in Queries
        BY KnowledgeAssumption DEF TypeInv, FilingTypes
      <4> QED
        BY <3>1, <4>1 DEF SaveCache
    <3>2. CASE ~SaveCache(r, k)
      BY <3>2 DEF SelectReport, WriteReport, AppendReport
    <3> QED
      BY <3>1, <3>2
  <2> HIDE DEF Entry
  <2>2. cache \in Seq(Entry) /\ Len(cache) \in Nat
    BY DEF TypeInv, AnswerTypes, Entry
  <2>3. cache' \in Seq(Entry) /\ Len(cache) <= Len(cache') /\ Len(cache') \in Nat
    BY <2>1, <2>2
  <2>4. 0..Len(cache) \subseteq 0..Len(cache')
    BY <2>2, <2>3
  <2>5. hit' \in [Runs -> 0..Len(cache')] /\ entries' \in [Runs -> 0..Len(cache')]
    BY <1>1, <2>4 DEF TypeInv, AnswerTypes
  <2> QED
    BY <2>3, <2>5 DEF AnswerTypes, Entry
<1>5. ReportTypes'
  <2>1. /\ archive \in Seq(Runs) /\ Len(archive) \in Nat /\ overlapped \subseteq Runs
        /\ found \in [Runs -> [Execs -> 0..Len(archive)]]
    BY DEF TypeInv, ReportTypes
  <2>2. CASE SelectReport(r, k)
    <3>1. PICK row \in Existing(r) : found' = [found EXCEPT ![r][k] = row]
      BY <2>2 DEF SelectReport
    <3>2. row \in 0..Len(archive)
      BY <2>1, <3>1 DEF Existing, Rows
    <3>3. UNCHANGED archive /\ overlapped' \subseteq Runs
      BY <2>1, <2>2 DEF SelectReport
    <3> QED
      BY <2>1, <3>1, <3>2, <3>3 DEF ReportTypes
  <2>3. CASE WriteReport(r, k) \/ AppendReport(r, k)
    <3>1. UNCHANGED overlapped /\ (archive' = archive \/ archive' = Append(archive, r))
      BY <2>3 DEF WriteReport, AppendReport
    <3>2. archive' \in Seq(Runs) /\ Len(archive) <= Len(archive') /\ Len(archive') \in Nat
      <4>1. CASE archive' = archive
        BY <2>1, <4>1
      <4>2. CASE archive' = Append(archive, r)
        BY <2>1, <4>2
      <4> QED
        BY <3>1, <4>1, <4>2
    <3>3. 0..Len(archive) \subseteq 0..Len(archive') /\ 0 \in 0..Len(archive')
      BY <2>1, <3>2
    <3>4. found' = found \/ found' = [found EXCEPT ![r][k] = 0]
      BY <2>3 DEF WriteReport, AppendReport
    <3>5. found' \in [Runs -> [Execs -> 0..Len(archive')]]
      <4> DEFINE N == 0..Len(archive')
      <4>1. found \in [Runs -> [Execs -> N]] /\ 0 \in N
        BY <2>1, <3>3
      <4> HIDE DEF N
      <4>2. [found EXCEPT ![r][k] = 0] \in [Runs -> [Execs -> N]]
        BY <4>1
      <4> QED
        BY <3>4, <4>1, <4>2 DEF N
    <3> QED
      BY <2>1, <3>1, <3>2, <3>5 DEF ReportTypes
  <2>4. CASE SaveCache(r, k)
    BY <2>1, <2>4 DEF SaveCache, ReportTypes
  <2> QED
    BY <2>2, <2>3, <2>4
<1> QED
  BY <1>2, <1>3, <1>4, <1>5 DEF TypeInv

\* The steps of clients.
LEMMA ClientSteps ==
  ASSUME TypeInv, NEW r \in Runs, Start(r) \/ Resume(r)
  PROVE  TypeInv'
<1>1. /\ UNCHANGED <<store, scenario, uploads, document, adding, chunks, evidence, looked>>
      /\ UNCHANGED <<checkpoint, archive, found, overlapped, cache>>
  BY DEF Start, Resume
<1>2. FilingTypes' /\ ReportTypes'
  BY <1>1 DEF TypeInv, FilingTypes, ReportTypes
<1>3. TaskTypes'
  <2>1. \E s \in {"running", "completed"} : status' = [status EXCEPT ![r] = s]
    BY DEF Start, Resume, SetStatus
  <2>2. UNCHANGED phase \/ \E k \in Execs : phase' = [phase EXCEPT ![r][k] = "graph"]
    BY DEF Start, Resume, Goto, Execs
  <2>3. \/ UNCHANGED <<pos, from>>
        \/ /\ pos' = [pos EXCEPT ![r][2] = checkpoint[r]]
           /\ from' = [from EXCEPT ![r][2] = checkpoint[r]]
    BY DEF Start, Resume
  <2>4. status' \in [Runs -> Statuses]
    BY <2>1 DEF TypeInv, TaskTypes, Statuses
  <2>5. phase' \in [Runs -> [Execs -> Phases]]
    <3>1. CASE UNCHANGED phase
      BY <3>1 DEF TypeInv, TaskTypes
    <3>2. ASSUME NEW k \in Execs, phase' = [phase EXCEPT ![r][k] = "graph"]
          PROVE  phase' \in [Runs -> [Execs -> Phases]]
      BY <3>2 DEF TypeInv, TaskTypes, Phases
    <3> QED
      BY <2>2, <3>1, <3>2
  <2>6. pos' \in [Runs -> [Execs -> 0..Total]] /\ from' \in [Runs -> [Execs -> 0..Total]]
    <3> DEFINE N == 0..Total
    <3>1. /\ pos \in [Runs -> [Execs -> N]] /\ from \in [Runs -> [Execs -> N]]
          /\ checkpoint[r] \in N /\ 2 \in Execs
      BY DEF TypeInv, TaskTypes, Execs
    <3> HIDE DEF N
    <3>2. /\ [pos EXCEPT ![r][2] = checkpoint[r]] \in [Runs -> [Execs -> N]]
          /\ [from EXCEPT ![r][2] = checkpoint[r]] \in [Runs -> [Execs -> N]]
      BY <3>1
    <3> QED
      BY <2>3, <3>1, <3>2 DEF N
  <2> QED
    BY <1>1, <2>4, <2>5, <2>6 DEF TypeInv, TaskTypes
<1>4. AnswerTypes'
  <2>1. /\ cache \in Seq([query : Queries, run : Runs]) /\ Len(cache) \in 0..Len(cache)
        /\ hit \in [Runs -> 0..Len(cache)] /\ entries \in [Runs -> 0..Len(cache)]
    BY DEF TypeInv, AnswerTypes
  <2>2. entries' = entries \/ entries' = [entries EXCEPT ![r] = Len(cache)]
    BY DEF Start, Resume
  <2>3. hit' = hit \/ \E e \in Lookup(scenario.asked[r]) : hit' = [hit EXCEPT ![r] = e]
    BY DEF Start, Resume
  <2>4. \A e \in Lookup(scenario.asked[r]) : e \in 0..Len(cache)
    <3>1. CacheTypes /\ scenario.asked[r] \in Queries
      <4>1. hit \in [Runs -> Nat] /\ entries \in [Runs -> Nat]
        BY <2>1
      <4> QED
        BY <2>1, <4>1, KnowledgeAssumption DEF CacheTypes, TypeInv, FilingTypes, TaskTypes
    <3>2. \A e \in Lookup(scenario.asked[r]) : e \in 1..Len(cache)
      BY <3>1, LookupIsNearest
    <3> QED
      BY <2>1, <3>2
  <2>5. hit' \in [Runs -> 0..Len(cache)] /\ entries' \in [Runs -> 0..Len(cache)]
    BY <2>1, <2>2, <2>3, <2>4
  <2> QED
    BY <1>1, <2>1, <2>5 DEF AnswerTypes
<1> QED
  BY <1>2, <1>3, <1>4 DEF TypeInv

\* What the type invariant needs besides itself: the uploads that are left.
LEMMA TypesKept == Spec => []TypeInv
<1>1. Init => TypeInv
  <2> SUFFICES ASSUME Init PROVE TypeInv
    OBVIOUS
  <2>1. FilingTypes
    <3>1. uploads \in Seq(Uploads)
      BY KnowledgeAssumption DEF Init
    <3>2. document \in Documents
      BY DEF Init, Documents
    <3>3. evidence \in [Runs -> SUBSET (1..Len(chunks))] /\ looked \in [Runs -> 0..Len(chunks)]
      BY DEF Init
    <3> QED
      BY <3>1, <3>2, <3>3 DEF Init, FilingTypes
  <2>2. TaskTypes
    BY DEF Init, TaskTypes, Statuses, Phases, Total
  <2>3. AnswerTypes
    BY DEF Init, AnswerTypes
  <2>4. ReportTypes
    BY DEF Init, ReportTypes
  <2> QED
    BY <2>1, <2>2, <2>3, <2>4 DEF TypeInv
<1>2. TypeInv /\ [Next]_vars => TypeInv'
  <2> SUFFICES ASSUME TypeInv, [Next]_vars PROVE TypeInv'
    OBVIOUS
  <2>1. CASE Ingest \/ AddOne \/ AddAll
    <3>1. FilingTypes'
      BY <2>1, FilingSteps DEF TypeInv
    <3>2. UNCHANGED <<tasks, hit, entries, reports, cache>>
      BY <2>1 DEF Ingest, AddOne, AddAll
    <3> QED
      BY <3>1, <3>2 DEF TypeInv, TaskTypes, AnswerTypes, ReportTypes
  <2>2. ASSUME NEW r \in Runs, Start(r) \/ Resume(r) PROVE TypeInv'
    BY <2>2, ClientSteps
  <2>3. ASSUME NEW r \in Runs, NEW k \in Execs, Execute(r, k) PROVE TypeInv'
    <3>1. CASE NodeUpdate(r, k) \/ GraphStops(r, k)
      <4>1. FilingTypes' /\ TaskTypes'
        BY <3>1, GraphSteps DEF TypeInv
      <4>2. UNCHANGED <<hit, entries, reports, cache>>
        BY <3>1 DEF NodeUpdate, GraphStops
      <4> QED
        BY <4>1, <4>2 DEF TypeInv, AnswerTypes, ReportTypes
    <3>2. CASE SelectReport(r, k) \/ WriteReport(r, k) \/ AppendReport(r, k) \/ SaveCache(r, k)
      BY <3>2, SaveSteps
    <3> QED
      BY <2>3, <3>1, <3>2 DEF Execute
  <2>4. CASE UNCHANGED vars
    BY <2>4 DEF vars, TypeInv, FilingTypes, TaskTypes, AnswerTypes, ReportTypes
  <2> QED
    BY <2>1, <2>2, <2>3, <2>4 DEF Next
<1> QED
  BY <1>1, <1>2, PTL DEF Spec

\* Rows, tasks and answers keep their types, for any documents, searches and answers; an
\* index that a run or an execution holds is one of a row that exists, since neither the
\* archives nor the cache ever shrink.
THEOREM TypeCorrect == Spec => []TypeOK
<1>1. TypeInv => TypeOK
  BY DEF TypeInv, FilingTypes, TaskTypes, AnswerTypes, ReportTypes, TypeOK
<1> QED
  BY <1>1, TypesKept, PTL

\* What is ingested is a document, and its chunks are faithful as those of any document.
THEOREM ChunksCorrect == Spec => []ChunksAreFaithful
<1>1. TypeInv => ChunksAreFaithful
  BY ChunksFaithful DEF TypeInv, FilingTypes, ChunksAreFaithful
<1> QED
  BY <1>1, TypesKept, PTL

-----------------------------------------------------------------------------
(* What a search finds *)

\* the chunks that a run asks for, of the first n
There(plan, n) == {c \in 1..n : chunks[c].ticker = plan.ticker /\ InPeriod(c, plan.period)}

\* the nearest TopK of a set of chunks, or all if there are no more
Nearest(found_, there) ==
  /\ found_ \subseteq there
  /\ Cardinality(found_) = Min({TopK, Cardinality(there)})
  /\ \A c \in found_, d \in there \ found_ : chunks[d].near <= chunks[c].near

\* The lesser of two numbers.
LEMMA MinOfTwo ==
  ASSUME NEW a \in Nat, NEW b \in Nat
  PROVE  Min({a, b}) = IF a <= b THEN a ELSE b
<1>1. \E x \in {a, b} : \A y \in {a, b} : x =< y
  OBVIOUS
<1>2. Min({a, b}) \in {a, b} /\ \A y \in {a, b} : Min({a, b}) =< y
  BY <1>1 DEF Min
<1> QED
  BY <1>2

\* The store returns TopK chunks of all periods, and those of the period among them are the
\* nearest TopK of the period: they go before every other.
LEMMA SearchFindsNearest ==
  ASSUME FilingTypes, NEW plan, NEW S \in SimilaritySearch(plan)
  PROVE  Nearest({c \in S : InPeriod(c, plan.period)}, There(plan, Len(chunks)))
<1> DEFINE candidates == {c \in 1..Len(chunks) : chunks[c].ticker = plan.ticker}
           there == There(plan, Len(chunks))
           kept == {c \in S : InPeriod(c, plan.period)}
<1>1. /\ S \subseteq candidates /\ Cardinality(S) = Min({TopK, Cardinality(candidates)})
      /\ \A c \in S, d \in candidates \ S : ~Ahead(d, c, plan.period)
  BY DEF SimilaritySearch, kSubset
<1>2. there \subseteq candidates /\ kept = S \cap there
  BY <1>1 DEF There
<1>3. \A d \in there : InPeriod(d, plan.period)
  BY DEF There
<1>4. \A c \in candidates : chunks[c].near \in Nat
  <2>1. \A c \in 1..Len(chunks) : chunks[c] \in Chunk
    BY DEF FilingTypes
  <2> QED
    BY <2>1 DEF Chunk
<1>5. ASSUME NEW c \in kept, NEW d \in there \ kept PROVE chunks[d].near <= chunks[c].near
  <2>1. d \in candidates \ S /\ c \in S /\ c \in candidates
    BY <1>1, <1>2
  <2>2. ~Ahead(d, c, plan.period) /\ InPeriod(c, plan.period) /\ InPeriod(d, plan.period)
    BY <1>1, <1>2, <1>3, <2>1
  <2>3. ~(chunks[d].near > chunks[c].near)
    BY <2>2 DEF Ahead
  <2> QED
    BY <1>4, <2>1, <2>3
<1>6. /\ IsFiniteSet(candidates) /\ IsFiniteSet(S) /\ IsFiniteSet(there) /\ TopK \in Nat
      /\ Cardinality(candidates) \in Nat /\ Cardinality(S) \in Nat /\ Cardinality(there) \in Nat
  <2>1. Len(chunks) \in Nat /\ candidates \subseteq 1..Len(chunks)
    BY DEF FilingTypes
  <2>2. IsFiniteSet(1..Len(chunks))
    BY <2>1, FS_Interval
  <2> HIDE DEF candidates, there
  <2>3. IsFiniteSet(candidates)
    BY <2>1, <2>2, FS_Subset
  <2> QED
    BY <1>1, <1>2, <2>3, FS_Subset, FS_CardinalityType, KnowledgeAssumption
<1> HIDE DEF candidates, there, kept
<1>7. Cardinality(S) = IF TopK <= Cardinality(candidates) THEN TopK ELSE Cardinality(candidates)
  BY <1>1, <1>6, MinOfTwo
<1>8. CASE there \subseteq S
  <2>1. kept = there
    BY <1>2, <1>8
  <2>2. Cardinality(there) <= Cardinality(S)
    BY <1>6, <1>8, FS_Subset
  <2>3. Min({TopK, Cardinality(there)}) = IF TopK <= Cardinality(there) THEN TopK ELSE Cardinality(there)
    BY <1>6, MinOfTwo
  <2>4. Cardinality(there) = Min({TopK, Cardinality(there)})
    BY <1>6, <1>7, <2>2, <2>3
  <2> QED
    BY <1>5, <2>1, <2>4 DEF Nearest, kept, there
<1>9. CASE ~(there \subseteq S)
  <2>1. PICK d \in there : d \notin S
    BY <1>9
  <2>2. S \subseteq there
    <3> SUFFICES ASSUME NEW c \in S PROVE c \in there
      OBVIOUS
    <3>1. ~Ahead(d, c, plan.period) /\ InPeriod(d, plan.period)
      BY <1>1, <1>2, <1>3, <2>1
    <3>2. InPeriod(c, plan.period)
      BY <3>1 DEF Ahead
    <3> QED
      BY <1>1, <3>2 DEF there, There, candidates
  <2>3. kept = S
    BY <1>2, <2>2
  <2>4. Cardinality(S) # Cardinality(candidates)
    BY <1>1, <1>2, <1>6, <2>1, FS_Subset
  <2>5. Cardinality(S) <= Cardinality(there)
    BY <1>6, <2>2, FS_Subset
  <2>6. Min({TopK, Cardinality(there)}) = IF TopK <= Cardinality(there) THEN TopK ELSE Cardinality(there)
    BY <1>6, MinOfTwo
  <2>7. Cardinality(S) = Min({TopK, Cardinality(there)})
    BY <1>6, <1>7, <2>4, <2>5, <2>6
  <2> QED
    BY <1>5, <2>2, <2>3, <2>7 DEF Nearest, kept, there
<1> QED
  BY <1>8, <1>9

\* What a run keeps of a search stays the nearest of what it saw: the archive only grows at
\* its end.
LEMMA GrowingKeepsNearest ==
  ASSUME FilingTypes, UNCHANGED <<scenario, evidence, looked>>,
         Len(chunks) <= Len(chunks'), \A c \in 1..Len(chunks) : chunks'[c] = chunks[c],
         NEW r \in Runs, NEW plan, Nearest(evidence[r], There(plan, looked[r]))
  PROVE  Nearest(evidence[r], There(plan, looked[r]))'
<1>1. looked[r] \in 0..Len(chunks) /\ Len(chunks) \in Nat
  BY DEF FilingTypes
<1>2. \A c \in 1..looked[r] : chunks'[c] = chunks[c]
  BY <1>1
<1>3. There(plan, looked[r])' = There(plan, looked[r])
  BY <1>2 DEF There, InPeriod
<1>4. There(plan, looked[r]) \subseteq 1..looked[r] /\ evidence[r] \subseteq There(plan, looked[r])
  BY DEF There, Nearest
<1> QED
  BY <1>2, <1>3, <1>4 DEF Nearest

\* the same, for the company and the period that the planner read in the run's query
NearestInv == \A r \in Runs : Nearest(evidence[r], There(Plan[scenario.asked[r]], looked[r]))

\* A run keeps the TopK most similar excerpts of its company and its period, of those that
\* were there when it looked: excerpts of other periods never take their places, and chunks
\* that are added later change nothing (similarity_search, rag_researcher_node).
THEOREM EvidenceCorrect == Spec => []EvidenceIsNearest
<1>1. Init => NearestInv
  <2> SUFFICES ASSUME Init, NEW r \in Runs, NEW plan PROVE Nearest({}, There(plan, 0))
    BY DEF Init, NearestInv
  <2>1. There(plan, 0) = {} /\ Cardinality({}) = 0 /\ TopK \in Nat
    BY FS_EmptySet, KnowledgeAssumption DEF There
  <2>2. Min({TopK, 0}) = 0
    BY <2>1, MinOfTwo
  <2> QED
    BY <2>1, <2>2 DEF Nearest
<1>2. TypeInv /\ NearestInv /\ [Next]_vars => NearestInv'
  <2> SUFFICES ASSUME TypeInv, NearestInv, [Next]_vars PROVE NearestInv'
    OBVIOUS
  <2>1. FilingTypes
    BY DEF TypeInv
  <2>2. ASSUME UNCHANGED <<scenario, evidence, looked>>, Len(chunks) <= Len(chunks'),
               \A c \in 1..Len(chunks) : chunks'[c] = chunks[c]
        PROVE  NearestInv'
    <3> SUFFICES ASSUME NEW r \in Runs
                 PROVE  Nearest(evidence[r], There(Plan[scenario.asked[r]], looked[r]))'
      BY DEF NearestInv
    <3> DEFINE plan == Plan[scenario.asked[r]]
    <3>1. PICK p : p = plan
      OBVIOUS
    <3>2. Nearest(evidence[r], There(p, looked[r]))
      BY <3>1 DEF NearestInv
    <3>3. Nearest(evidence[r], There(p, looked[r]))'
      BY <2>1, <2>2, <3>2, GrowingKeepsNearest
    <3>4. plan' = p
      BY <2>2, <3>1
    <3> QED
      BY <3>3, <3>4
  <2>3. CASE Ingest \/ AddOne \/ AddAll
    <3>1. UNCHANGED <<scenario, evidence, looked>>
      BY <2>3 DEF Ingest, AddOne, AddAll
    <3> QED
      BY <2>1, <2>2, <2>3, <3>1, FilingSteps
  <2>4. CASE UNCHANGED <<scenario, chunks, evidence, looked>>
    <3>1. Len(chunks) \in Nat /\ chunks' = chunks
      BY <2>1, <2>4 DEF FilingTypes
    <3>2. Len(chunks) <= Len(chunks') /\ \A c \in 1..Len(chunks) : chunks'[c] = chunks[c]
      BY <3>1
    <3> QED
      BY <2>2, <2>4, <3>2
  <2>5. ASSUME NEW r \in Runs, NEW k \in Execs, NodeUpdate(r, k), RagResearcher(r)
        PROVE  NearestInv'
    <3> DEFINE plan == Plan[scenario.asked[r]]
    <3>1. PICK S \in SimilaritySearch(plan) :
            evidence' = [evidence EXCEPT ![r] = {c \in S : InPeriod(c, plan.period)}]
      BY <2>5 DEF RagResearcher
    <3>2. UNCHANGED <<scenario, chunks>> /\ looked' = [looked EXCEPT ![r] = Len(chunks)]
      BY <2>5 DEF NodeUpdate, RagResearcher
    <3>3. Nearest({c \in S : InPeriod(c, plan.period)}, There(plan, Len(chunks)))
      BY <2>1, <3>1, SearchFindsNearest
    <3>4. /\ evidence'[r] = {c \in S : InPeriod(c, plan.period)} /\ looked'[r] = Len(chunks)
          /\ \A q \in Runs \ {r} : evidence'[q] = evidence[q] /\ looked'[q] = looked[q]
      BY <2>1, <3>1, <3>2 DEF FilingTypes
    <3>5. ASSUME NEW q \in Runs
          PROVE  Nearest(evidence'[q], There(Plan[scenario.asked[q]], looked'[q]))
      <4>1. CASE q = r
        BY <3>3, <3>4, <4>1
      <4>2. CASE q # r
        BY <3>4, <4>2 DEF NearestInv
      <4> QED
        BY <4>1, <4>2
    <3>6. ASSUME NEW q \in Runs
          PROVE  Nearest(evidence[q], There(Plan[scenario.asked[q]], looked[q]))'
      <4>1. PICK there : there = There(Plan[scenario.asked[q]], looked'[q])
        OBVIOUS
      <4>2. There(Plan[scenario.asked[q]], looked[q])' = there
        BY <3>2, <4>1 DEF There, InPeriod
      <4>3. Nearest(evidence'[q], there)
        BY <3>5, <4>1
      <4> QED
        BY <3>2, <4>2, <4>3 DEF Nearest
    <3> QED
      BY <3>6 DEF NearestInv
  <2>6. ASSUME NEW r \in Runs, Start(r) \/ Resume(r) PROVE NearestInv'
    BY <2>4, <2>6 DEF Start, Resume
  <2>7. ASSUME NEW r \in Runs, NEW k \in Execs, Execute(r, k) PROVE NearestInv'
    <3>1. CASE NodeUpdate(r, k)
      <4>1. RagResearcher(r) \/ UNCHANGED <<scenario, chunks, evidence, looked>>
        BY <3>1 DEF NodeUpdate
      <4> QED
        BY <2>4, <2>5, <3>1, <4>1
    <3>2. CASE GraphStops(r, k) \/ SelectReport(r, k) \/ WriteReport(r, k)
               \/ AppendReport(r, k) \/ SaveCache(r, k)
      BY <2>4, <3>2 DEF GraphStops, SelectReport, WriteReport, AppendReport, SaveCache
    <3> QED
      BY <2>7, <3>1, <3>2 DEF Execute
  <2>8. CASE UNCHANGED vars
    BY <2>4, <2>8 DEF vars
  <2> QED
    BY <2>3, <2>6, <2>7, <2>8 DEF Next
<1>3. NearestInv => EvidenceIsNearest
  BY DEF NearestInv, Nearest, There, EvidenceIsNearest
<1> QED
  BY <1>1, <1>2, <1>3, TypesKept, PTL DEF Spec

=============================================================================
