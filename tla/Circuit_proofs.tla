--------------------------- MODULE Circuit_proofs ---------------------------
(***************************************************************************)
(* Theorems about the two degradation paths of PostgreSQL, the callers of  *)
(* the LP pool (LpCircuit) and the outbox of the soul database             *)
(* (SoulOutbox), for any number of callers, processes, writes and replays, *)
(* any failure threshold and probe interval.  Both rest on what each method*)
(* of PgCircuitBreaker does to one breaker.                                *)
(***************************************************************************)
EXTENDS LpCircuit, SoulOutbox, FiniteSetTheorems, TLAPS


-----------------------------------------------------------------------------
(***************************************************************************)
(* One breaker keeps its type, and its probe slot and half-open window     *)
(* together.                                                               *)
(***************************************************************************)

\* The probe slot of breaker b is taken exactly while b is half-open.
Tight(b) == b.probing <=> b.state = "half-open"

\* The fields of a breaker have their types.
LEMMA Fields ==
  ASSUME NEW b \in Breaker
  PROVE  /\ b.state \in {"closed", "open", "half-open"}
         /\ b.failures \in Nat
         /\ b.cooldown \in 0 .. ProbeInterval
         /\ b.probing \in BOOLEAN
BY DEF Breaker, CircuitState

\* A breaker as it is constructed.
LEMMA FreshBreaker == Fresh \in Breaker /\ Tight(Fresh)
BY BreakerAssumption DEF Fresh, Breaker, CircuitState, Tight

\* allowRequest(): a tight breaker that is half-open lets nobody through.
LEMMA RequestBreaker ==
  ASSUME NEW b \in Breaker, Tight(b)
  PROVE  /\ AfterRequest(b) \in Breaker
         /\ Tight(AfterRequest(b))
         /\ b.state = "half-open" => ~Allows(b)
<1>1. [b EXCEPT !.state = "half-open", !.probing = TRUE] \in Breaker
      /\ Tight([b EXCEPT !.state = "half-open", !.probing = TRUE])
  <2>1. "half-open" \in CircuitState /\ TRUE \in BOOLEAN
    BY DEF CircuitState
  <2> QED BY <2>1, Zenon DEF Breaker, Tight
<1> QED BY <1>1, Zenon DEF AfterRequest, Allows, Tight

\* recordSuccess() frees the slot and closes.
LEMMA SuccessBreaker ==
  ASSUME NEW b \in Breaker
  PROVE  /\ AfterSuccess(b) \in Breaker
         /\ Tight(AfterSuccess(b))
         /\ AfterSuccess(b).state = "closed"
<1>1. "closed" \in CircuitState /\ 0 \in Nat /\ FALSE \in BOOLEAN
  BY DEF CircuitState
<1> QED BY <1>1, Zenon DEF AfterSuccess, Breaker, Tight

\* What opening does: the slot is as it was.
LEMMA OpenedBreaker ==
  ASSUME NEW b \in Breaker
  PROVE  /\ Opened(b) \in Breaker
         /\ Opened(b).state = "open"
         /\ Opened(b).probing = b.probing
<1>1. "open" \in CircuitState /\ ProbeInterval \in 0 .. ProbeInterval
  BY BreakerAssumption DEF CircuitState
<1> QED BY <1>1, Zenon DEF Opened, Breaker

\* recordFailure() opens from half-open and frees the slot; it counts or opens
\* from closed, where the slot is free.
LEMMA FailureBreaker ==
  ASSUME NEW b \in Breaker, Tight(b)
  PROVE  AfterFailure(b) \in Breaker /\ Tight(AfterFailure(b))
<1> DEFINE o == Opened(b)
<1>0. o \in Breaker /\ o.state = "open" /\ o.probing = b.probing
  BY OpenedBreaker
<1>1. CASE b.state = "open"
  BY <1>1 DEF AfterFailure
<1>2. CASE b.state = "half-open"
  <2>1. AfterFailure(b) = [o EXCEPT !.probing = FALSE]
    BY <1>2 DEF AfterFailure
  <2> HIDE DEF o
  <2>2. LET e == [o EXCEPT !.probing = FALSE]
        IN  e \in Breaker /\ e.state = "open" /\ e.probing = FALSE
    BY <1>0, Zenon DEF Breaker
  <2> QED BY <2>1, <2>2 DEF Tight
<1>3. CASE b.state = "closed"
  <2>0. ~b.probing /\ b.failures + 1 \in Nat
    BY <1>3, Fields DEF Tight
  <2>1. CASE b.failures + 1 >= FailThreshold
    <3> DEFINE n == o.failures + 1
    <3>1. AfterFailure(b) = [o EXCEPT !.failures = n]
      BY <1>3, <2>1 DEF AfterFailure
    <3>2. n \in Nat
      BY <1>0, Fields
    <3> HIDE DEF n, o
    <3>3. LET e == [o EXCEPT !.failures = n]
          IN  e \in Breaker /\ e.state = "open" /\ e.probing = b.probing
      BY <1>0, <3>2, Zenon DEF Breaker
    <3> QED BY <3>1, <3>3, <2>0 DEF Tight
  <2>2. CASE ~(b.failures + 1 >= FailThreshold)
    <3>1. AfterFailure(b) = [b EXCEPT !.failures = b.failures + 1]
      BY <1>3, <2>2 DEF AfterFailure
    <3> DEFINE n == b.failures + 1
    <3>0. n \in Nat
      BY <2>0
    <3> HIDE DEF n
    <3>2. /\ [b EXCEPT !.failures = n] \in Breaker
          /\ [b EXCEPT !.failures = n].state = "closed"
          /\ [b EXCEPT !.failures = n].probing = b.probing
      BY <1>3, <3>0, Zenon DEF Breaker
    <3> QED BY <3>1, <3>2, <2>0 DEF Tight, n
  <2> QED BY <2>1, <2>2
<1> QED BY <1>1, <1>2, <1>3, Fields

\* The cooldown runs down to zero and nothing else changes.
LEMMA TickBreaker ==
  ASSUME NEW b \in Breaker, Tight(b), b.cooldown > 0
  PROVE  AfterTick(b) \in Breaker /\ Tight(AfterTick(b))
<1> DEFINE c == b.cooldown - 1
<1>1. c \in 0 .. ProbeInterval
  BY Fields, BreakerAssumption
<1> HIDE DEF c
<1>2. /\ [b EXCEPT !.cooldown = c] \in Breaker
      /\ [b EXCEPT !.cooldown = c].state = b.state
      /\ [b EXCEPT !.cooldown = c].probing = b.probing
  BY <1>1, Zenon DEF Breaker
<1> QED BY <1>2, Zenon DEF AfterTick, Tight, c

-----------------------------------------------------------------------------
(***************************************************************************)
(* LpCircuit.  Types alone are inductive too, but the lemmas above give    *)
(* them and the tightness of the slot at once.                             *)
(***************************************************************************)

CallsInv == LpTypeOK /\ SlotIsTheWindow

LEMMA CallsInvInit == LpInit => CallsInv
BY FreshBreaker DEF LpInit, CallsInv, LpTypeOK, SlotIsTheWindow, Tight, Calling

\* What a step does to the breaker is one of its methods, or nothing.
LEMMA StepByMethod ==
  ASSUME CallsInv, [LpNext]_lpVars
  PROVE  \/ lpCircuit' = lpCircuit
         \/ lpCircuit' = AfterRequest(lpCircuit)
         \/ lpCircuit' = AfterSuccess(lpCircuit)
         \/ lpCircuit' = AfterFailure(lpCircuit)
         \/ lpCircuit.cooldown > 0 /\ lpCircuit' = AfterTick(lpCircuit)
BY DEF LpNext, lpVars, Step, LpTx, GetLpDb, Enter, Connected, Begun, StatementOk,
       CountedFailure, SilentEnd, Commit, PoolError, LpTick, LpToggle

LEMMA StageTyped ==
  ASSUME LpTypeOK, [LpNext]_lpVars
  PROVE  calling' \in [Calls -> Calling] /\ probe' \subseteq Calls /\ pgUp' \in BOOLEAN
BY DEF LpTypeOK, LpNext, lpVars, Step, LpTx, GetLpDb, Enter, Connected, Begun, StatementOk,
       CountedFailure, SilentEnd, Commit, PoolError, LpTick, LpToggle, Goto, Leave, Calling

LEMMA CallsInvStep == CallsInv /\ [LpNext]_lpVars => CallsInv'
<1> SUFFICES ASSUME CallsInv, [LpNext]_lpVars PROVE CallsInv'
  OBVIOUS
<1>1. lpCircuit \in Breaker /\ Tight(lpCircuit)
  BY DEF CallsInv, LpTypeOK, SlotIsTheWindow, Tight
<1>2. lpCircuit' \in Breaker /\ Tight(lpCircuit')
  BY <1>1, StepByMethod, RequestBreaker, SuccessBreaker, FailureBreaker, TickBreaker, Zenon
<1>3. calling' \in [Calls -> Calling] /\ probe' \subseteq Calls /\ pgUp' \in BOOLEAN
  BY StageTyped DEF CallsInv
<1> QED BY <1>2, <1>3 DEF CallsInv, LpTypeOK, SlotIsTheWindow, Tight

LEMMA CallsInvariant == LpSpec => []CallsInv
BY CallsInvInit, CallsInvStep, PTL DEF LpSpec

\* The breaker and the calls have their types in every reachable state.
THEOREM LpTyping == LpSpec => []LpTypeOK
<1>1. CallsInv => LpTypeOK
  BY DEF CallsInv
<1> QED BY <1>1, CallsInvariant, PTL

\* No success, failure or late answer ever leaves the probe slot claimed in a
\* closed or open breaker, or frees it within a half-open window.
THEOREM SlotFollowsWindow == LpSpec => []SlotIsTheWindow
<1>1. CallsInv => SlotIsTheWindow
  BY DEF CallsInv
<1> QED BY <1>1, CallsInvariant, PTL

\* Nobody passes the gate of lpTx() or getLpDb() while the breaker is
\* half-open, so the probe is alone.
THEOREM ProbeIsAlone == LpSpec => OneProbePerWindow
<1>1. ASSUME CallsInv, [LpNext]_lpVars
      PROVE  [\A c \in Calls :
                lpCircuit.state = "half-open" /\ calling[c] = "idle" => calling'[c] = "idle"]_lpVars
  <2> SUFFICES ASSUME LpNext, NEW c \in Calls, lpCircuit.state = "half-open",
                      calling[c] = "idle"
               PROVE  calling'[c] = "idle"
    BY <1>1
  <2>1. ~Allows(lpCircuit)
    BY <1>1, RequestBreaker DEF CallsInv, LpTypeOK, SlotIsTheWindow, Tight
  <2>2. ASSUME NEW d \in Calls, Step(d) PROVE calling'[c] = "idle"
    BY <2>1, <2>2, <1>1
       DEF CallsInv, LpTypeOK, Step, LpTx, GetLpDb, Enter, Connected, Begun, StatementOk,
           CountedFailure, SilentEnd, Commit, Goto, Leave
  <2>3. CASE PoolError \/ LpTick \/ LpToggle
    BY <2>3 DEF PoolError, LpTick, LpToggle
  <2> QED BY <2>2, <2>3 DEF LpNext
<1> QED BY <1>1, CallsInvariant, PTL DEF LpSpec, OneProbePerWindow

-----------------------------------------------------------------------------
(***************************************************************************)
(* SoulOutbox.  AcceptedNeverLost is not inductive: that a marked row      *)
(* has landed rests on a replay marking only the row whose INSERT has      *)
(* answered.                                                               *)
(***************************************************************************)

\* A row is marked, or about to be marked, only when it is in PostgreSQL.
MarkedLanded == \A w \in marked : copies[w] > 0
AckedLanded == \A k \in Replays : replay[k].acked # NoWrite => copies[replay[k].acked] > 0

\* Every write has taken the path its stage tells.
PathTaken ==
  \A w \in Writes : /\ stage[w] = "landed" => copies[w] > 0
                    /\ stage[w] = "diverted" => row[w] # 0

\* The breakers keep their probe slots and half-open windows together.
AllTight == \A p \in Procs : Tight(breaker[p])

IInv == TypeOK /\ AllTight /\ MarkedLanded /\ AckedLanded /\ PathTaken

-----------------------------------------------------------------------------
\* An INSERT keeps the type of copies, takes no row away, and lands its own.
LEMMA InsertedLands ==
  ASSUME TypeOK, NEW ws \in SUBSET Writes
  PROVE  /\ Inserted(ws) \in [Writes -> 0 .. 2]
         /\ \A w \in Writes : copies[w] > 0 => Inserted(ws)[w] > 0
         /\ \A w \in ws : Inserted(ws)[w] > 0
BY DEF TypeOK, Inserted

\* An INSERT whose answer is lost takes no row away either.
LEMMA UnansweredKeeps ==
  ASSUME TypeOK, NEW ws \in SUBSET Writes, Unanswered(ws)
  PROVE  /\ copies' \in [Writes -> 0 .. 2]
         /\ \A w \in Writes : copies[w] > 0 => copies'[w] > 0
<1>1. PICK landed \in SUBSET ws : copies' = Inserted(landed)
  BY DEF Unanswered
<1> QED BY <1>1, InsertedLands

\* What a success does: the breaker closes, and one replay may start afresh.
LEMMA SucceedKeeps ==
  ASSUME TypeOK, AllTight, NEW p \in Procs, NEW runs \in [Replays -> Replay],
         Succeed(p, runs)
  PROVE  /\ breaker' \in [Procs -> Breaker]
         /\ AllTight'
         /\ replay' \in [Replays -> Replay]
         /\ \A k \in Replays : replay'[k].acked = runs[k].acked
<1>1. /\ AfterSuccess(breaker[p]) \in Breaker
      /\ Tight(AfterSuccess(breaker[p]))
  BY SuccessBreaker DEF TypeOK
<1>2. breaker' \in [Procs -> Breaker] /\ AllTight'
  BY <1>1 DEF TypeOK, AllTight, Succeed
<1>3. CASE replay' = runs
  BY <1>2, <1>3
<1>4. CASE \E k \in Replays : replay' = [runs EXCEPT ![k].todo = Pending]
  <2>1. PICK k \in Replays : replay' = [runs EXCEPT ![k].todo = Pending]
    BY <1>4
  <2>2. Pending \in SUBSET Writes
    BY DEF Pending, Enqueued
  <2>3. runs[k] \in Replay
    OBVIOUS
  <2>4. LET r == [runs[k] EXCEPT !.todo = Pending]
        IN  r \in Replay /\ r.acked = runs[k].acked
    BY <2>2, <2>3, Zenon DEF Replay
  <2>5. replay' = [runs EXCEPT ![k] = [runs[k] EXCEPT !.todo = Pending]]
    BY <2>1
  <2> QED BY <1>2, <2>4, <2>5
<1> QED BY <1>3, <1>4 DEF Succeed

\* What a failure does.
LEMMA FailKeeps ==
  ASSUME TypeOK, AllTight, NEW p \in Procs,
         \/ breaker' = [breaker EXCEPT ![p] = AfterFailure(@)]
         \/ UNCHANGED breaker
  PROVE  breaker' \in [Procs -> Breaker] /\ AllTight'
<1>1. AfterFailure(breaker[p]) \in Breaker /\ Tight(AfterFailure(breaker[p]))
  BY FailureBreaker DEF TypeOK, AllTight
<1> QED BY <1>1 DEF TypeOK, AllTight

\* A replay that has dealt with a row.
LEMMA WithoutType ==
  ASSUME TypeOK, NEW k \in Replays, NEW w
  PROVE  Without(k, w) \in Replay /\ Without(k, w).acked = NoWrite
BY DEF TypeOK, Without, Replay

-----------------------------------------------------------------------------
LEMMA IInvInit == Init => IInv
<1> SUFFICES ASSUME Init PROVE IInv
  OBVIOUS
<1>1. TypeOK
  BY FreshBreaker, OutboxAssumption DEF Init, TypeOK, Stage, Replay, Done
<1>2. AllTight
  BY FreshBreaker DEF Init, AllTight
<1>3. MarkedLanded /\ AckedLanded /\ PathTaken
  BY DEF Init, MarkedLanded, AckedLanded, PathTaken, Done
<1> QED BY <1>1, <1>2, <1>3 DEF IInv

\* What is left to show of a step once the breakers and the types are known:
\* no row leaves PostgreSQL, the rows marked or about to be are in it.
LEMMA Rebuild ==
  ASSUME TypeOK', AllTight', MarkedLanded', AckedLanded', PathTaken'
  PROVE  IInv'
BY DEF IInv

LEMMA WriteStep ==
  ASSUME IInv, NEW w \in Writes, Write(w)
  PROVE  IInv'
<1> USE DEF IInv
<1>0. Writer[w] \in Procs
  BY OutboxAssumption
<1>1. CASE Send(w)
  <2>1. /\ AfterRequest(breaker[Writer[w]]) \in Breaker
        /\ Tight(AfterRequest(breaker[Writer[w]]))
    BY <1>0, RequestBreaker DEF TypeOK, AllTight
  <2>2. breaker' \in [Procs -> Breaker] /\ AllTight'
    BY <1>0, <1>1, <2>1 DEF Send, TypeOK, AllTight
  <2>3. TypeOK'
    BY <1>1, <2>2 DEF Send, TypeOK, Stage
  <2>4. MarkedLanded' /\ AckedLanded'
    BY <1>1 DEF Send, MarkedLanded, AckedLanded
  <2>5. PathTaken'
    BY <1>1 DEF Send, PathTaken, TypeOK
  <2> QED BY <2>2, <2>3, <2>4, <2>5, Rebuild
<1>2. CASE Divert(w)
  <2>1. Cardinality(Enqueued) \in Nat
    <3>1. Enqueued \subseteq Writes
      BY DEF Enqueued
    <3> QED BY <3>1, OutboxAssumption, FS_Subset, FS_CardinalityType
  <2>2. TypeOK' /\ AllTight'
    BY <1>2, <2>1 DEF Divert, TypeOK, Stage, AllTight
  <2>3. MarkedLanded' /\ AckedLanded'
    BY <1>2 DEF Divert, MarkedLanded, AckedLanded
  <2>4. PathTaken'
    BY <1>2, <2>1 DEF Divert, PathTaken, TypeOK
  <2> QED BY <2>2, <2>3, <2>4, Rebuild
<1>3. CASE Landed(w)
  <2>1. /\ breaker' \in [Procs -> Breaker] /\ AllTight'
        /\ replay' \in [Replays -> Replay]
        /\ \A k \in Replays : replay'[k].acked = replay[k].acked
    BY <1>0, <1>3, SucceedKeeps DEF Landed, TypeOK
  <2>2. /\ copies' \in [Writes -> 0 .. 2]
        /\ \A v \in Writes : copies[v] > 0 => copies'[v] > 0
        /\ copies'[w] > 0
    BY <1>3, InsertedLands DEF Landed
  <2>3. TypeOK'
    BY <1>3, <2>1, <2>2 DEF Landed, TypeOK, Stage
  <2>4. MarkedLanded' /\ AckedLanded'
    BY <1>3, <2>1, <2>2 DEF Landed, MarkedLanded, AckedLanded, TypeOK, Replay
  <2>5. PathTaken'
    BY <1>3, <2>2 DEF Landed, PathTaken, TypeOK
  <2> QED BY <2>1, <2>3, <2>4, <2>5, Rebuild
<1>4. CASE Failed(w)
  <2>1. breaker' \in [Procs -> Breaker] /\ AllTight'
    BY <1>0, <1>4, FailKeeps DEF Failed, Fail
  <2>2. /\ copies' \in [Writes -> 0 .. 2]
        /\ \A v \in Writes : copies[v] > 0 => copies'[v] > 0
    BY <1>4, UnansweredKeeps DEF Failed
  <2>3. TypeOK'
    BY <1>4, <2>1, <2>2 DEF Failed, TypeOK, Stage
  <2>4. MarkedLanded' /\ AckedLanded'
    BY <1>4, <2>2 DEF Failed, MarkedLanded, AckedLanded, TypeOK, Replay
  <2>5. PathTaken'
    BY <1>4, <2>2 DEF Failed, PathTaken, TypeOK
  <2> QED BY <2>1, <2>3, <2>4, <2>5, Rebuild
<1> QED BY <1>1, <1>2, <1>3, <1>4 DEF Write

LEMMA ReplayingStep ==
  ASSUME IInv, NEW k \in Replays, Sweep(k) \/ ReplayStep(k)
  PROVE  IInv'
<1> USE DEF IInv
<1>0. Supervisor \in Procs
  BY OutboxAssumption
<1>1. CASE Sweep(k)
  <2>1. Pending \in SUBSET Writes
    BY DEF Pending, Enqueued
  <2>2. LET r == [replay[k] EXCEPT !.todo = Pending]
        IN  r \in Replay /\ r.acked = replay[k].acked
    <3>1. replay[k] \in Replay
      BY DEF TypeOK
    <3> QED BY <2>1, <3>1, Zenon DEF Replay
  <2>3. replay' = [replay EXCEPT ![k] = [replay[k] EXCEPT !.todo = Pending]]
    BY <1>1 DEF Sweep
  <2>4. TypeOK' /\ AllTight'
    BY <1>1, <2>2, <2>3 DEF Sweep, TypeOK, AllTight
  <2>5. \A r \in Replays : replay'[r].acked = replay[r].acked
    BY <2>2, <2>3 DEF TypeOK
  <2>6. MarkedLanded' /\ AckedLanded' /\ PathTaken'
    BY <1>1, <2>5 DEF Sweep, MarkedLanded, AckedLanded, PathTaken
  <2> QED BY <2>4, <2>6, Rebuild
<1>2. ASSUME NEW w \in Writes, ReplayInsert(k, w) PROVE IInv'
  <2> DEFINE runs == [replay EXCEPT ![k] = [replay[k] EXCEPT !.acked = w]]
  <2>1. LET r == [replay[k] EXCEPT !.acked = w] IN r \in Replay /\ r.acked = w
    <3>1. replay[k] \in Replay
      BY DEF TypeOK
    <3> QED BY <3>1, Zenon DEF Replay
  <2>2. /\ runs \in [Replays -> Replay]
        /\ \A r \in Replays : runs[r].acked = IF r = k THEN w ELSE replay[r].acked
    BY <2>1 DEF TypeOK
  <2>3. Succeed(Supervisor, runs)
    BY <1>2 DEF ReplayInsert
  <2> HIDE DEF runs
  <2>4. /\ breaker' \in [Procs -> Breaker] /\ AllTight'
        /\ replay' \in [Replays -> Replay]
        /\ \A r \in Replays : replay'[r].acked = runs[r].acked
    BY <1>0, <2>2, <2>3, SucceedKeeps
  <2>5. /\ copies' \in [Writes -> 0 .. 2]
        /\ \A v \in Writes : copies[v] > 0 => copies'[v] > 0
        /\ copies'[w] > 0
    BY <1>2, InsertedLands DEF ReplayInsert
  <2>6. TypeOK'
    BY <1>2, <2>4, <2>5 DEF ReplayInsert, TypeOK
  <2>7. MarkedLanded' /\ PathTaken'
    BY <1>2, <2>5 DEF ReplayInsert, MarkedLanded, PathTaken, TypeOK
  <2>8. AckedLanded'
    BY <2>2, <2>4, <2>5 DEF AckedLanded, TypeOK, Replay
  <2> QED BY <2>4, <2>6, <2>7, <2>8, Rebuild
<1>3. ASSUME NEW w \in Writes, ReplayFail(k, w) PROVE IInv'
  <2>1. breaker' \in [Procs -> Breaker] /\ AllTight'
    BY <1>0, <1>3, FailKeeps DEF ReplayFail, Fail
  <2>2. /\ copies' \in [Writes -> 0 .. 2]
        /\ \A v \in Writes : copies[v] > 0 => copies'[v] > 0
    BY <1>3, UnansweredKeeps DEF ReplayFail
  <2>3. TypeOK'
    BY <1>3, <2>1, <2>2, WithoutType DEF ReplayFail, TypeOK
  <2>4. MarkedLanded' /\ PathTaken'
    BY <1>3, <2>2 DEF ReplayFail, MarkedLanded, PathTaken, TypeOK
  <2>5. AckedLanded'
    BY <1>3, <2>2, WithoutType DEF ReplayFail, AckedLanded, TypeOK, Replay
  <2> QED BY <2>1, <2>3, <2>4, <2>5, Rebuild
<1>4. ASSUME NEW w \in Writes, ReplayMark(k, w) PROVE IInv'
  <2>1. w # NoWrite /\ copies[w] > 0
    BY <1>4, OutboxAssumption DEF ReplayMark, AckedLanded
  <2>2. TypeOK' /\ AllTight'
    BY <1>4, WithoutType DEF ReplayMark, TypeOK, AllTight
  <2>3. MarkedLanded' /\ PathTaken'
    BY <1>4, <2>1 DEF ReplayMark, MarkedLanded, PathTaken
  <2>4. AckedLanded'
    BY <1>4, WithoutType DEF ReplayMark, AckedLanded, TypeOK
  <2> QED BY <2>2, <2>3, <2>4, Rebuild
<1>5. ASSUME NEW w \in Writes, ReplayMarkFail(k, w) PROVE IInv'
  <2>1. TypeOK' /\ AllTight'
    BY <1>5, WithoutType DEF ReplayMarkFail, TypeOK, AllTight
  <2>2. MarkedLanded' /\ PathTaken'
    BY <1>5 DEF ReplayMarkFail, MarkedLanded, PathTaken
  <2>3. AckedLanded'
    BY <1>5, WithoutType DEF ReplayMarkFail, AckedLanded, TypeOK
  <2> QED BY <2>1, <2>2, <2>3, Rebuild
<1> QED BY <1>1, <1>2, <1>3, <1>4, <1>5 DEF ReplayStep

LEMMA ProcessStep ==
  ASSUME IInv, NEW p \in Procs, Process(p)
  PROVE  IInv'
<1> USE DEF IInv
<1>1. CASE Query(p)
  <2>1. /\ breaker' \in [Procs -> Breaker] /\ AllTight'
        /\ replay' \in [Replays -> Replay]
        /\ \A k \in Replays : replay'[k].acked = replay[k].acked
    BY <1>1, SucceedKeeps DEF Query, TypeOK
  <2>2. TypeOK'
    BY <1>1, <2>1 DEF Query, TypeOK
  <2>3. MarkedLanded' /\ AckedLanded' /\ PathTaken'
    BY <1>1, <2>1 DEF Query, MarkedLanded, AckedLanded, PathTaken
  <2> QED BY <2>1, <2>2, <2>3, Rebuild
<1>2. CASE QueryFailed(p)
  <2>1. breaker' \in [Procs -> Breaker] /\ AllTight'
    BY <1>2, FailKeeps DEF QueryFailed
  <2>2. TypeOK'
    BY <1>2, <2>1 DEF QueryFailed, TypeOK
  <2>3. MarkedLanded' /\ AckedLanded' /\ PathTaken'
    BY <1>2 DEF QueryFailed, MarkedLanded, AckedLanded, PathTaken
  <2> QED BY <2>1, <2>2, <2>3, Rebuild
<1>3. CASE Tick(p)
  <2>1. AfterTick(breaker[p]) \in Breaker /\ Tight(AfterTick(breaker[p]))
    BY <1>3, TickBreaker DEF Tick, TypeOK, AllTight
  <2>2. TypeOK' /\ AllTight'
    BY <1>3, <2>1 DEF Tick, TypeOK, AllTight
  <2>3. MarkedLanded' /\ AckedLanded' /\ PathTaken'
    BY <1>3 DEF Tick, MarkedLanded, AckedLanded, PathTaken
  <2> QED BY <2>2, <2>3, Rebuild
<1>4. CASE Crash(p)
  <2>1. OnTheWire(p) \in SUBSET Writes
    BY DEF OnTheWire
  <2>2. /\ copies' \in [Writes -> 0 .. 2]
        /\ \A v \in Writes : copies[v] > 0 => copies'[v] > 0
    BY <1>4, <2>1, UnansweredKeeps DEF Crash
  <2>3. Done \in Replay /\ Done.acked = NoWrite
    BY DEF Done, Replay
  <2>4. TypeOK'
    <3>1. breaker' \in [Procs -> Breaker]
      BY <1>4, FreshBreaker DEF Crash, TypeOK
    <3>2. stage' \in [Writes -> Stage]
      BY <1>4 DEF Crash, TypeOK, Stage
    <3>3. replay' \in [Replays -> Replay]
      BY <1>4, <2>3 DEF Crash, TypeOK
    <3>4. crashes' \in 0 .. MaxCrashes
      BY <1>4, OutboxAssumption DEF Crash, TypeOK
    <3> QED BY <1>4, <2>2, <3>1, <3>2, <3>3, <3>4 DEF Crash, TypeOK
  <2>5. AllTight'
    BY <1>4, FreshBreaker DEF Crash, TypeOK, AllTight
  <2>6. MarkedLanded' /\ AckedLanded'
    BY <1>4, <2>2, <2>3 DEF Crash, MarkedLanded, AckedLanded, TypeOK, Replay
  <2>7. PathTaken'
    BY <1>4, <2>2 DEF Crash, PathTaken, TypeOK
  <2> QED BY <2>4, <2>5, <2>6, <2>7, Rebuild
<1> QED BY <1>1, <1>2, <1>3, <1>4 DEF Process

LEMMA IInvStep == IInv /\ [Next]_vars => IInv'
<1> SUFFICES ASSUME IInv, [Next]_vars PROVE IInv'
  OBVIOUS
<1>1. CASE Toggle
  BY <1>1 DEF Toggle, IInv, TypeOK, AllTight, MarkedLanded, AckedLanded, PathTaken
<1>2. CASE UNCHANGED vars
  BY <1>2 DEF vars, IInv, TypeOK, AllTight, MarkedLanded, AckedLanded, PathTaken
<1> QED BY <1>1, <1>2, WriteStep, ReplayingStep, ProcessStep DEF Next

LEMMA Inductive == Spec => []IInv
BY IInvInit, IInvStep, PTL DEF Spec

-----------------------------------------------------------------------------
\* The breakers, the outbox and the replays have their types.
THEOREM Typing == Spec => []TypeOK
<1>1. IInv => TypeOK
  BY DEF IInv
<1> QED BY <1>1, Inductive, PTL

\* A write that was accepted, directly or into the outbox, is in PostgreSQL or
\* pending, however many replays overlap and whatever crashes.
THEOREM NothingAcceptedIsLost == Spec => []AcceptedNeverLost
<1>1. IInv => AcceptedNeverLost
  BY DEF IInv, AcceptedNeverLost, PathTaken, MarkedLanded, Pending, Enqueued
<1> QED BY <1>1, Inductive, PTL

=============================================================================
