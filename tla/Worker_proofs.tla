---------------------------- MODULE Worker_proofs ----------------------------
(***************************************************************************)
(* Theorems about Worker for every set of mentions, supervisors and        *)
(* process slots, and every bound of recoveries, slips, faults and builds: *)
(* how often a message is taken up and run and where its charge goes; and  *)
(* that a worker's process lives as Supervisor says, of which              *)
(* Community_proofs tells what a supervisor runs.                          *)
(***************************************************************************)
EXTENDS Worker, FiniteSetTheorems, SequenceTheorems, TLAPS

-----------------------------------------------------------------------------
(***************************************************************************)
(* The channel's steps, whichever process takes them.                      *)
(***************************************************************************)

ChannelStep ==
  \/ Boot \/ Forget \/ Work
  \/ \E m \in Msgs : Post(m) \/ Overlook(m) \/ Elapse(m)
  \/ UNCHANGED channel

\* The supervisor's part of a step leaves the channel alone, boots it or ends it.
LEMMA StepsOfTheChannel == [Next]_vars => ChannelStep
<1> SUFFICES ASSUME [Next]_vars PROVE ChannelStep
  OBVIOUS
<1>1. CASE Manage
  BY <1>1 DEF Manage, ChannelStep
<1>2. ASSUME NEW w \in Slots, Start(w) \/ End(w) \/ EndEarly(w) PROVE ChannelStep
  BY <1>2 DEF Start, End, EndEarly, ChannelStep
<1>3. CASE Hosted(Work)
  BY <1>3 DEF Hosted, ChannelStep
<1>4. CASE Chat
  BY <1>4 DEF Chat, ChannelStep
<1>5. CASE UNCHANGED vars
  BY <1>5 DEF vars, ChannelStep
<1> QED
  BY <1>1, <1>2, <1>3, <1>4, <1>5 DEF Next

-----------------------------------------------------------------------------
(***************************************************************************)
(* How often a job waits in a queue: the places it has there, and what     *)
(* Push, Retry and Pick do to their number.                                *)
(***************************************************************************)

Places(j, q) == {n \in DOMAIN q : q[n] = j}
Count(j, q) == Cardinality(Places(j, q))

\* The number of places is a number.
LEMMA PlacesAreFinite ==
  ASSUME NEW Job, NEW q \in Seq(Job), NEW j
  PROVE  IsFiniteSet(Places(j, q)) /\ Count(j, q) \in Nat
<1>1. Places(j, q) \subseteq 1 .. Len(q) /\ Len(q) \in Nat
  BY LenProperties DEF Places
<1>2. IsFiniteSet(1 .. Len(q))
  BY <1>1, FS_Interval
<1> QED
  BY <1>1, <1>2, FS_Subset, FS_CardinalityType DEF Count

\* A job has no place exactly when it does not wait.
LEMMA CountNone ==
  ASSUME NEW Job, NEW q \in Seq(Job), NEW j
  PROVE  Count(j, q) = 0 <=> \A n \in DOMAIN q : q[n] # j
<1>1. Count(j, q) = 0 <=> Places(j, q) = {}
  BY PlacesAreFinite, FS_EmptySet DEF Count
<1> QED
  BY <1>1 DEF Places

\* queue.push(): one place more for the job that is added.
LEMMA CountAppend ==
  ASSUME NEW Job, NEW q \in Seq(Job), NEW k \in Job, NEW j
  PROVE  Count(j, Append(q, k)) = Count(j, q) + (IF j = k THEN 1 ELSE 0)
<1>1. Places(j, Append(q, k)) = Places(j, q) \cup (IF j = k THEN {Len(q) + 1} ELSE {})
  BY AppendProperties, LenProperties DEF Places
<1>2. Len(q) + 1 \notin Places(j, q)
  BY LenProperties DEF Places
<1>3. CASE j = k
  BY <1>1, <1>2, <1>3, PlacesAreFinite, FS_AddElement DEF Count
<1>4. CASE j # k
  BY <1>1, <1>4, PlacesAreFinite DEF Count
<1> QED
  BY <1>3, <1>4

\* queue.shift(): one place less for the job that was first.
LEMMA CountTail ==
  ASSUME NEW Job, NEW q \in Seq(Job), q # <<>>, NEW j
  PROVE  Count(j, q) = Count(j, Tail(q)) + (IF j = Head(q) THEN 1 ELSE 0)
<1> DEFINE After == {n \in 2 .. Len(q) : q[n] = j}
           next == [n \in Places(j, Tail(q)) |-> n + 1]
<1>1. /\ Tail(q) \in Seq(Job) /\ Len(q) \in Nat \ {0} /\ Len(Tail(q)) = Len(q) - 1
      /\ \A n \in 1 .. Len(q) - 1 : Tail(q)[n] = q[n + 1]
  BY HeadTailProperties, EmptySeq, LenProperties
<1>2. Places(j, Tail(q)) = {n \in 1 .. Len(q) - 1 : q[n + 1] = j}
  BY <1>1, LenProperties DEF Places
<1>3. next \in Bijection(Places(j, Tail(q)), After)
  <2>1. next \in [Places(j, Tail(q)) -> After]
    BY <1>1, <1>2
  <2>2. \A a, b \in Places(j, Tail(q)) : next[a] = next[b] => a = b
    BY <1>2
  <2>3. \A m \in After : \E n \in Places(j, Tail(q)) : next[n] = m
    <3>1. ASSUME NEW m \in After PROVE m - 1 \in Places(j, Tail(q)) /\ next[m - 1] = m
      BY <1>1, <1>2
    <3> QED
      BY <3>1
  <2> HIDE DEF next, After
  <2> QED
    BY <2>1, <2>2, <2>3 DEF Bijection, Injection, Surjection, IsInjective
<1>4. IsFiniteSet(After) /\ Cardinality(After) = Count(j, Tail(q))
  <2>1. IsFiniteSet(Places(j, Tail(q)))
    BY <1>1, PlacesAreFinite
  <2> HIDE DEF next, After
  <2>2. ExistsBijection(Places(j, Tail(q)), After)
    BY <1>3 DEF ExistsBijection
  <2> QED
    BY <2>1, <2>2, FS_Bijection DEF Count
<1>5. Places(j, q) = After \cup (IF j = Head(q) THEN {1} ELSE {})
  BY <1>1, LenProperties, HeadTailProperties DEF Places
<1>6. 1 \notin After
  OBVIOUS
<1> HIDE DEF After, next
<1>7. CASE j = Head(q)
  BY <1>4, <1>5, <1>6, <1>7, FS_AddElement DEF Count
<1>8. CASE j # Head(q)
  <2>1. Places(j, q) = After
    BY <1>5, <1>8
  <2> QED
    BY <2>1, <1>1, <1>4, <1>8, PlacesAreFinite DEF Count
<1> QED
  BY <1>7, <1>8

-----------------------------------------------------------------------------
(***************************************************************************)
(* Types: who is busy is busy with a message that was posted, and the      *)
(* recovery holds one row for a job at most, none before it has listed them. *)
(***************************************************************************)

\* The rows the recovery has before it.
Listed == recovery.todo \cup (IF recovery.hand = Nothing THEN {} ELSE {recovery.hand})

Busy ==
  /\ \A l \in Lanes : lane[l].at # "rest" => lane[l].msg \in posted
  /\ turn.at # "rest" => turn.job \in Jobs
  /\ recovery.at = "list" => Listed = {}
  /\ recovery.hand \notin recovery.todo
  /\ \A p, q \in Listed : p.job = q.job => p = q

Typed == TypeOK /\ Busy

\* The types TypeOK gives, by name.
LaneState == [at : {"rest", "ask", "mark", "admit", "push"}, msg : Maybe(Msgs)]
Row == [kept : BOOLEAN, paid : BOOLEAN, attempts : 0 .. MaxRecovery]
Turns == [at : {"rest", "spend", "flag", "respond", "close"}, job : Maybe(Jobs)]
Recovery == [at : {"off", "list", "rows", "failed"},
             todo : SUBSET Interrupted, hand : Maybe(Interrupted)]

\* No row and a fresh row are rows.
LEMMA NoRowTyped == NoRow \in Row /\ [NoRow EXCEPT !.kept = TRUE] \in Row /\ ~NoRow.kept
<1>0. 0 \in 0 .. MaxRecovery
  BY BotAssumption
<1>1. NoRow \in Row /\ ~NoRow.kept
  BY <1>0 DEF NoRow, Row
<1>2. [NoRow EXCEPT !.kept = TRUE] \in Row
  BY <1>1 DEF Row
<1> QED
  BY <1>1, <1>2

\* The channel starts well typed.
LEMMA TypedInit == Init => Typed
<1> SUFFICES ASSUME Init PROVE Typed
  OBVIOUS
<1> USE BotAssumption DEF Init
<1>1. NoRow \in Row
  BY NoRowTyped
<1>2. AtRest \in LaneState /\ NoTurn \in Turns /\ NotBooted \in Recovery
  BY DEF AtRest, LaneState, NoTurn, Turns, NotBooted, Recovery, Maybe
<1>3. TypeOK
  BY <1>1, <1>2 DEF TypeOK, Row, LaneState, Turns, Recovery, Lanes
<1>4. Busy
  BY DEF Busy, AtRest, NoTurn, NotBooted, Listed
<1> QED
  BY <1>3, <1>4 DEF Typed

\* A lane's step moves that lane, and no type is left.
LEMMA TypedTakeUp ==
  ASSUME Typed, NEW l \in Lanes, TakeUp(l)
  PROVE  Typed'
<1> USE BotAssumption DEF Typed
<1>0. /\ lane \in [Lanes -> LaneState]
      /\ row \in [Jobs -> Row]
      /\ {taken, runs, lost} \subseteq [Jobs -> Nat]
      /\ slips \in 0 .. MaxSlips
      /\ queue \in Seq(Jobs)
      /\ posted \subseteq Msgs /\ handled \cup beyond \subseteq posted /\ seen \subseteq Jobs
  BY DEF TypeOK, LaneState, Row
<1>1. /\ lane[l].at # "rest" => lane[l].msg \in posted
      /\ <<lane[l].msg, l>> \in Jobs \/ lane[l].at = "rest"
  BY <1>0 DEF Busy, Jobs
<1>2. /\ lane' \in [Lanes -> LaneState]
      /\ \A k \in Lanes : lane'[k].at # "rest" => lane'[k].msg \in posted
  <2>1. AtRest \in LaneState /\ AtRest.at = "rest"
    BY DEF AtRest, LaneState, Maybe
  <2>2. ASSUME Rest(l) PROVE <1>2
    BY <2>1, <2>2, <1>0 DEF Rest, Busy
  <2>3. ASSUME NEW at \in {"mark", "admit", "push"}, Goto(l, at), lane[l].at # "rest" PROVE <1>2
    <3>1. [lane[l] EXCEPT !.at = at] \in LaneState
      BY <1>0 DEF LaneState
    <3>2. lane' = [lane EXCEPT ![l] = [lane[l] EXCEPT !.at = at]]
      BY <2>3 DEF Goto
    <3>3. [lane[l] EXCEPT !.at = at].msg = lane[l].msg
      BY <1>0 DEF LaneState
    <3> QED
      BY <1>0, <1>1, <2>3, <3>1, <3>2, <3>3 DEF Busy
  <2>4. ASSUME NEW m \in Msgs, Take(l, m) PROVE <1>2
    <3>1. [at |-> "ask", msg |-> m] \in LaneState
      BY DEF LaneState, Maybe
    <3> QED
      BY <1>0, <2>4, <3>1 DEF Take, Busy
  <2> QED
    BY <2>2, <2>3, <2>4 DEF TakeUp, Check, Mark, MarkFails, Intercept, Persist, Push
<1>3. row' \in [Jobs -> Row]
  <2>1. [NoRow EXCEPT !.kept = TRUE] \in Row
    BY NoRowTyped
  <2> QED
    BY <1>0, <1>1, <2>1 DEF TakeUp, Take, Check, Mark, MarkFails, Intercept, Persist, Push, database
<1>4. {taken, runs, lost}' \subseteq [Jobs -> Nat]
  <2>1. taken' \in [Jobs -> Nat]
    <3>1. ASSUME <<lane[l].msg, l>> \in Jobs, Bump(taken, <<lane[l].msg, l>>) PROVE <2>1
      BY <1>0, <3>1 DEF Bump
    <3> QED
      BY <1>0, <1>1, <3>1 DEF TakeUp, Take, Check, Mark, MarkFails, Intercept, Persist, Push, history
  <2>2. lost' \in [Jobs -> Nat]
    <3>1. ASSUME <<lane[l].msg, l>> \in Jobs, Bump(lost, <<lane[l].msg, l>>) PROVE <2>2
      BY <1>0, <3>1 DEF Bump
    <3> QED
      BY <1>0, <1>1, <3>1 DEF TakeUp, Take, Check, Mark, MarkFails, Intercept, Persist, Push,
                              NoSlip, Slips, history
  <2>3. runs' = runs
    BY DEF TakeUp, Take, Check, Mark, MarkFails, Intercept, Persist, Push, history
  <2> QED
    BY <1>0, <2>1, <2>2, <2>3
<1>5. slips' \in 0 .. MaxSlips
  BY <1>0 DEF TakeUp, Take, Check, Mark, MarkFails, Intercept, Persist, Push, NoSlip,
                    Slips, Slip, history
<1>6. UNCHANGED <<posted, beyond>> /\ handled' \subseteq posted /\ seen' \subseteq Jobs /\ queue' \in Seq(Jobs)
  <2>1. UNCHANGED <<posted, beyond>> /\ handled' \subseteq posted
    BY <1>0, <1>1 DEF TakeUp, Take, Check, Mark, MarkFails, Intercept, Persist, Push, database
  <2>2. seen' \subseteq Jobs
    BY <1>0, <1>1 DEF TakeUp, Take, Check, Mark, MarkFails, Intercept, Persist, Push, database, Show
  <2>3. queue' \in Seq(Jobs)
    <3>1. CASE Push(l)
      BY <1>0, <1>1, <3>1, AppendProperties DEF Push
    <3>2. ASSUME ~Push(l) PROVE queue' = queue
      BY <3>2 DEF TakeUp, Take, Check, Mark, MarkFails, Intercept, Persist
    <3> QED
      BY <1>0, <3>1, <3>2
  <2> QED
    BY <2>1, <2>2, <2>3
<1>7. UNCHANGED <<kind, owed, turn, recovery>>
  BY DEF TakeUp, Take, Check, Mark, MarkFails, Intercept, Persist, Push, database, memory
<1>8. TypeOK'
  BY <1>0, <1>2, <1>3, <1>4, <1>5, <1>6, <1>7 DEF TypeOK, LaneState, Row
<1>9. Busy'
  BY <1>2, <1>6, <1>7 DEF Busy, Listed
<1> QED
  BY <1>8, <1>9

\* The pump's steps keep the types.
LEMMA TypedPump ==
  ASSUME Typed, Pump
  PROVE  Typed'
<1> USE BotAssumption DEF Typed
<1>0. /\ row \in [Jobs -> Row]
      /\ owed \in [Jobs -> Int]
      /\ {taken, runs, lost} \subseteq [Jobs -> Nat]
      /\ slips \in 0 .. MaxSlips
      /\ queue \in Seq(Jobs)
      /\ turn \in Turns
      /\ seen \subseteq Jobs
      /\ turn.at # "rest" => turn.job \in Jobs
  BY DEF TypeOK, Turns, Row, Busy
<1>1. ASSUME queue # <<>> PROVE Head(queue) \in Jobs /\ Tail(queue) \in Seq(Jobs)
  BY <1>0, <1>1
<1>2. turn' \in Turns /\ (turn'.at # "rest" => turn'.job \in Jobs)
  <2>1. CASE Pick
    BY <2>1, <1>1 DEF Pick, Turns, Maybe
  <2>2. ASSUME NEW at \in {"flag", "respond", "close"}, Turn(at), turn.at # "rest" PROVE <1>2
    BY <2>2, <1>0 DEF Turn, Turns
  <2>3. CASE turn' = NoTurn
    BY <2>3 DEF NoTurn, Turns, Maybe
  <2> QED
    BY <2>1, <2>2, <2>3 DEF Pump, Spend, Flag, Answer, Close
<1>3. row' \in [Jobs -> Row]
  <2>1. NoRow \in Row
    BY NoRowTyped
  <2>2. ASSUME NEW b \in BOOLEAN, NEW j \in Jobs PROVE [row EXCEPT ![j].paid = b] \in [Jobs -> Row]
    <3>1. [row[j] EXCEPT !.paid = b] \in Row
      BY <1>0, <2>2 DEF Row
    <3> QED
      BY <3>1, <1>0
  <2>3. \A j \in Jobs : row[j].kept \in BOOLEAN
    BY <1>0 DEF Row
  <2>4. CASE Flag
    <3>1. PICK j \in Jobs : j = turn.job
      BY <2>4, <1>0 DEF Flag
    <3>2. PICK b \in BOOLEAN : b = row[j].kept
      BY <2>3
    <3>3. row' = row \/ row' = [row EXCEPT ![j].paid = b]
      BY <2>4, <3>1, <3>2 DEF Flag
    <3>4. [row EXCEPT ![j].paid = b] \in [Jobs -> Row]
      BY <2>2
    <3> QED
      BY <3>3, <3>4, <1>0
  <2> QED
    BY <1>0, <2>1, <2>4 DEF Pump, Pick, Spend, Answer, Close, database
<1>4. {taken, runs, lost}' \subseteq [Jobs -> Nat]
  <2>1. runs' \in [Jobs -> Nat]
    <3>1. ASSUME queue # <<>>, Bump(runs, Head(queue)) PROVE <2>1
      <4>1. Head(queue) \in Jobs /\ runs \in [Jobs -> Nat]
        BY <1>0, <1>1, <3>1
      <4> QED
        BY <3>1, <4>1 DEF Bump
    <3> QED
      BY <1>0, <3>1 DEF Pump, Pick, Spend, Flag, Answer, Close
  <2>2. lost' \in [Jobs -> Nat]
    <3>1. ASSUME turn.job \in Jobs, Bump(lost, turn.job) PROVE <2>2
      BY <1>0, <3>1 DEF Bump
    <3> QED
      BY <1>0, <3>1 DEF Pump, Pick, Spend, Flag, Answer, Close, NoSlip, Slips
  <2>3. taken' = taken
    BY DEF Pump, Pick, Spend, Flag, Answer, Close
  <2> QED
    BY <1>0, <2>1, <2>2, <2>3
<1>5. slips' \in 0 .. MaxSlips
  BY <1>0 DEF Pump, Pick, Spend, Flag, Answer, Close, NoSlip, Slips, Slip
<1>6. owed' \in [Jobs -> Int]
  <2>1. ASSUME NEW n \in Int, turn.job \in Jobs, Owe(turn.job, n) PROVE owed' \in [Jobs -> Int]
    BY <2>1, <1>0 DEF Owe
  <2>2. 1 \in Int /\ -1 \in Int
    OBVIOUS
  <2> QED
    BY <1>0, <2>1, <2>2 DEF Pump, Pick, Spend, Flag, Answer, Close, database
<1>7. seen' \subseteq Jobs
  BY <1>0 DEF Pump, Pick, Spend, Flag, Answer, Close, Show, database
<1>8. queue' \in Seq(Jobs)
  BY <1>0, <1>1 DEF Pump, Pick, Spend, Flag, Answer, Close
<1>9. UNCHANGED <<kind, posted, beyond, handled, lane, recovery>>
  BY DEF Pump, Pick, Spend, Flag, Answer, Close, database
<1>10. TypeOK'
  BY <1>2, <1>3, <1>4, <1>5, <1>6, <1>7, <1>8, <1>9 DEF TypeOK, Turns, Row
<1>11. Busy'
  BY <1>2, <1>9 DEF Busy, Listed
<1> QED
  BY <1>10, <1>11
\* An entry of the todo list is a job with its row.
LEMMA InterruptedHasAJob ==
  ASSUME NEW p \in Interrupted
  PROVE  p.job \in Jobs /\ p.was \in Row /\ p.was.paid \in BOOLEAN /\ p.was.attempts \in 0 .. MaxRecovery
<1>1. p.was \in [kept : {TRUE}, paid : BOOLEAN, attempts : 0 .. MaxRecovery] /\ p.job \in Jobs
  BY DEF Interrupted
<1> QED
  BY <1>1 DEF Row

\* recover()'s steps keep the types, and one entry for a job at most.
LEMMA TypedRecover ==
  ASSUME Typed, Recover
  PROVE  Typed'
<1> USE BotAssumption DEF Typed
<1>0. /\ row \in [Jobs -> Row]
      /\ owed \in [Jobs -> Int]
      /\ {taken, runs, lost} \subseteq [Jobs -> Nat]
      /\ slips \in 0 .. MaxSlips
      /\ queue \in Seq(Jobs)
      /\ recovery \in Recovery
      /\ seen \subseteq Jobs
  BY DEF TypeOK, Recovery, Row, Busy
<1>f. UNCHANGED <<kind, posted, beyond, handled, lane, turn, taken, runs>>
  BY DEF Recover, List, RefundInterrupted, GiveUp, Retry, database, history
<1>1. CASE List
  <2> DEFINE todo == {[job |-> j, was |-> row[j]] : j \in {k \in Jobs : row[k].kept}}
  <2>1. todo \subseteq Interrupted
    <3>1. ASSUME NEW j \in Jobs, row[j].kept PROVE [job |-> j, was |-> row[j]] \in Interrupted
      <4>1. row[j] \in [kept : {TRUE}, paid : BOOLEAN, attempts : 0 .. MaxRecovery]
        BY <1>0, <3>1 DEF Row
      <4> QED
        BY <4>1 DEF Interrupted
    <3> QED
      BY <3>1
  <2>2. \A p, q \in todo : p.job = q.job => p = q
    OBVIOUS
  <2> HIDE DEF todo
  <2>3. NotBooted \in Recovery /\ NotBooted.hand = Nothing /\ NotBooted.todo = {}
    BY DEF NotBooted, Recovery, Maybe
  <2>4. \/ recovery' = [NotBooted EXCEPT !.at = "rows", !.todo = todo]
        \/ recovery' = [NotBooted EXCEPT !.at = "failed"]
    BY <1>1 DEF List, todo
  <2>5. recovery'.at # "list" /\ recovery'.hand = Nothing /\ recovery'.todo \in {todo, {}}
    BY <2>3, <2>4 DEF Recovery
  <2>6. recovery' \in Recovery
    BY <2>1, <2>3, <2>4 DEF Recovery
  <2>7. slips' \in 0 .. MaxSlips /\ UNCHANGED <<database, queue, lost>>
    BY <1>1, <1>0 DEF List, Slip
  <2>8. TypeOK'
    BY <1>f, <2>6, <2>7 DEF TypeOK, Recovery, Row, database
  <2>9. Busy'
    <3>2. Nothing \notin todo
      BY <2>1, NothingAssumption
    <3> QED
      BY <1>f, <2>5, <3>2, <2>2 DEF Busy, Listed
  <2> QED
    BY <2>8, <2>9
<1>2. ASSUME NEW p \in Interrupted, RefundInterrupted(p) \/ GiveUp(p) \/ Retry(p) PROVE Typed'
  <2>0. p.job \in Jobs /\ p.was.attempts \in 0 .. MaxRecovery /\ p # Nothing
    BY InterruptedHasAJob, NothingAssumption
  <2>1. lost' \in [Jobs -> Nat]
    <3>1. ASSUME Bump(lost, p.job) PROVE lost' \in [Jobs -> Nat]
      BY <1>0, <2>0, <3>1 DEF Bump
    <3> QED
      BY <1>0, <1>2, <3>1 DEF RefundInterrupted, GiveUp, Retry, NoSlip, Slips
  <2>2. slips' \in 0 .. MaxSlips
    BY <1>0, <1>2 DEF RefundInterrupted, GiveUp, Retry, NoSlip, Slips, Slip
  <2>3. owed' \in [Jobs -> Int]
    <3>1. ASSUME Owe(p.job, -1) PROVE owed' \in [Jobs -> Int]
      BY <1>0, <2>0, <3>1 DEF Owe
    <3> QED
      BY <1>0, <1>2, <3>1 DEF RefundInterrupted, GiveUp, Retry
  <2>4. seen' \subseteq Jobs
    BY <1>0, <1>2, <2>0 DEF RefundInterrupted, GiveUp, Retry, Show
  <2>5. queue' \in Seq(Jobs)
    <3>1. CASE Retry(p)
      BY <1>0, <2>0, <3>1, AppendProperties DEF Retry
    <3> QED
      BY <1>0, <1>2, <3>1 DEF RefundInterrupted, GiveUp
  <2>6. row' \in [Jobs -> Row]
    <3>1. CASE Retry(p)
      <4>1. PICK n \in 0 .. MaxRecovery :
              n = IF row[p.job].kept THEN p.was.attempts + 1 ELSE row[p.job].attempts
        <5>1. row[p.job].attempts \in 0 .. MaxRecovery /\ p.was.attempts < MaxRecovery
          BY <1>0, <2>0, <3>1 DEF Retry, Row
        <5>2. (IF row[p.job].kept THEN p.was.attempts + 1 ELSE row[p.job].attempts) \in 0 .. MaxRecovery
          BY <2>0, <5>1
        <5> QED
          BY <5>2
      <4>2. [row[p.job] EXCEPT !.attempts = n] \in Row
        BY <1>0, <2>0 DEF Row
      <4>3. [row EXCEPT ![p.job].attempts = n] \in [Jobs -> Row]
        BY <1>0, <2>0, <4>2
      <4>4. row' = row \/ row' = [row EXCEPT ![p.job].attempts = n]
        BY <3>1, <4>1 DEF Retry
      <4> QED
        BY <1>0, <4>3, <4>4
    <3> QED
      BY <1>0, <1>2, <2>0, <3>1, NoRowTyped DEF RefundInterrupted, GiveUp
  <2>7. \/ recovery' = [recovery EXCEPT !.todo = @ \ {p}, !.hand = p] /\ p \in recovery.todo /\ recovery.hand = Nothing
        \/ recovery' = [recovery EXCEPT !.hand = Nothing] /\ recovery.hand = p
    BY <1>2 DEF RefundInterrupted, GiveUp, Retry
  <2>8. recovery' \in Recovery /\ recovery'.at = recovery.at
    BY <1>0, <2>7 DEF Recovery, Maybe
  <2>9. TypeOK'
    BY <1>0, <1>f, <2>1, <2>2, <2>3, <2>4, <2>5, <2>6, <2>8 DEF TypeOK, Recovery, Row
  <2>10. Listed' \subseteq Listed /\ recovery'.hand \notin recovery'.todo
    <3>1. Nothing \notin recovery.todo
      BY <1>0, NothingAssumption DEF Recovery
    <3>2. CASE recovery' = [recovery EXCEPT !.todo = @ \ {p}, !.hand = p] /\ p \in recovery.todo /\ recovery.hand = Nothing
      <4>1. recovery'.todo = recovery.todo \ {p} /\ recovery'.hand = p
        BY <1>0, <3>2 DEF Recovery
      <4> QED
        BY <4>1, <3>2, <2>0 DEF Listed
    <3>3. CASE recovery' = [recovery EXCEPT !.hand = Nothing]
      <4>1. recovery'.todo = recovery.todo /\ recovery'.hand = Nothing
        BY <1>0, <3>3 DEF Recovery
      <4> QED
        BY <4>1, <3>1 DEF Listed
    <3> QED
      BY <2>7, <3>2, <3>3
  <2>11. Busy'
    BY <1>f, <2>8, <2>10 DEF Busy
  <2> QED
    BY <2>9, <2>11
<1> QED
  BY <1>1, <1>2 DEF Recover

\* Every step of the channel keeps the types.
LEMMA TypedStep ==
  ASSUME Typed, ChannelStep
  PROVE  Typed'
<1> USE BotAssumption DEF Typed
<1>1. CASE Boot
  <2>1. recovery' = [at |-> "list", todo |-> {}, hand |-> Nothing]
    BY <1>1 DEF Boot, NotBooted
  <2>2. recovery' \in Recovery /\ Listed' = {} /\ recovery'.hand \notin recovery'.todo
    BY <2>1 DEF Recovery, Maybe, Listed
  <2>3. UNCHANGED <<database, lane, queue, turn, history>>
    BY <1>1 DEF Boot
  <2>4. TypeOK'
    BY <2>2, <2>3 DEF TypeOK, Recovery, database, history
  <2>5. Busy'
    BY <2>2, <2>3 DEF Busy, database
  <2> QED
    BY <2>4, <2>5
<1>2. CASE Forget
  <2>0. UNCHANGED <<kind, posted, beyond, handled, row, owed, seen, taken, runs, slips>>
    BY <1>2 DEF Forget, database
  <2>1. AtRest \in LaneState /\ NoTurn \in Turns /\ NotBooted \in Recovery
    BY DEF AtRest, LaneState, NoTurn, Turns, NotBooted, Recovery, Maybe
  <2>2. lane' \in [Lanes -> LaneState] /\ turn' \in Turns /\ recovery' \in Recovery /\ queue' \in Seq(Jobs)
    BY <1>2, <2>1 DEF Forget
  <2>3. lost' \in [Jobs -> Nat]
    <3>1. lost \in [Jobs -> Nat]
      BY DEF TypeOK
    <3> QED
      BY <1>2, <3>1 DEF Forget
  <2>4. TypeOK'
    BY <2>0, <2>2, <2>3 DEF TypeOK, LaneState, Turns, Recovery
  <2>5. Busy'
    <3>1. Listed' = {} /\ recovery'.hand \notin recovery'.todo
      BY <1>2 DEF Forget, NotBooted, Listed
    <3>2. \A l \in Lanes : lane'[l].at = "rest"
      BY <1>2 DEF Forget, AtRest
    <3>3. turn'.at = "rest"
      BY <1>2 DEF Forget, NoTurn
    <3> QED
      BY <3>1, <3>2, <3>3 DEF Busy
  <2> QED
    BY <2>4, <2>5
<1>3. CASE Work
  BY <1>3, TypedTakeUp, TypedPump, TypedRecover DEF Work
<1>4. ASSUME NEW m \in Msgs, Post(m) \/ Overlook(m) \/ Elapse(m) PROVE Typed'
  <2>1. /\ posted \subseteq posted' /\ posted' \subseteq Msgs
        /\ handled' \cup beyond' \subseteq posted'
        /\ slips' \in 0 .. MaxSlips
        /\ UNCHANGED <<kind, row, owed, seen, memory, taken, runs, lost>>
    BY <1>4 DEF Post, Overlook, Elapse, Slip, TypeOK, history
  <2>2. TypeOK'
    BY <2>1 DEF TypeOK, memory
  <2>3. Busy'
    BY <2>1 DEF Busy, memory, Listed
  <2> QED
    BY <2>2, <2>3
<1>5. CASE UNCHANGED channel
  BY <1>5 DEF channel, database, memory, history, TypeOK, Busy, Listed
<1> QED
  BY <1>1, <1>2, <1>3, <1>4, <1>5 DEF ChannelStep

-----------------------------------------------------------------------------
(***************************************************************************)
(* What a step does to one job: where the job is in its lane, in the pump  *)
(* and before the recovery, and how it gets from one place to the next.  The *)
(* invariants below need nothing else of the steps.                        *)
(***************************************************************************)

At(j) == IF lane[j[2]].msg = j[1] THEN lane[j[2]].at ELSE "rest"
OnTurn(j) == IF turn.job = j THEN turn.at ELSE "rest"
Todo(j) == {p \in recovery.todo : p.job = j}
InHand(j) == {p \in {recovery.hand} \cap Interrupted : p.job = j}

\* A lane's step passes the job by, or takes it one place further.
LaneRests(j) ==
  /\ At(j)' = At(j)
  /\ UNCHANGED <<taken[j], row[j]>> /\ Count(j, queue') = Count(j, queue)
LaneMoves(j) ==
  \/ At(j) = "rest" /\ At(j)' = "ask" /\ UNCHANGED <<taken[j], row[j]>> /\ Count(j, queue') = Count(j, queue)
  \/ At(j) = "ask" /\ At(j)' = "rest" /\ UNCHANGED <<taken[j], row[j]>> /\ Count(j, queue') = Count(j, queue)
  \/ /\ At(j) = "ask" /\ At(j)' = "mark" /\ j[1] \notin handled
     /\ UNCHANGED <<taken[j], row[j]>> /\ Count(j, queue') = Count(j, queue)
  \/ /\ At(j) = "mark" /\ At(j)' = "admit" /\ j[1] \in handled' /\ taken'[j] = taken[j] + 1
     /\ UNCHANGED <<row[j]>> /\ Count(j, queue') = Count(j, queue)
  \/ At(j) = "mark" /\ At(j)' = "rest" /\ UNCHANGED <<taken[j], row[j]>> /\ Count(j, queue') = Count(j, queue)
  \/ At(j) = "admit" /\ At(j)' = "rest" /\ UNCHANGED <<taken[j], row[j]>> /\ Count(j, queue') = Count(j, queue)
  \/ /\ At(j) = "admit" /\ At(j)' = "push"
     /\ row'[j] \in {row[j], [kept |-> TRUE, paid |-> FALSE, attempts |-> 0]}
     /\ UNCHANGED <<taken[j]>> /\ Count(j, queue') = Count(j, queue)
  \/ /\ At(j) = "push" /\ At(j)' = "rest" /\ Count(j, queue') = Count(j, queue) + 1
     /\ UNCHANGED <<taken[j], row[j]>>

\* TakeUp, seen from one job.
LEMMA WhatALaneDoes ==
  ASSUME Typed, NEW l \in Lanes, TakeUp(l), NEW j \in Jobs
  PROVE  /\ UNCHANGED <<turn, recovery, runs, owed>>
         /\ handled \subseteq handled'
         /\ lost'[j] >= lost[j]
         /\ LaneRests(j) \/ LaneMoves(j)
<1> USE BotAssumption DEF Typed
<1>0. /\ lane \in [Lanes -> LaneState]
      /\ row \in [Jobs -> Row]
      /\ {taken, runs, lost} \subseteq [Jobs -> Nat]
      /\ queue \in Seq(Jobs)
      /\ j \in Msgs \X Lanes /\ j = <<j[1], j[2]>>
  BY DEF TypeOK, LaneState, Row, Jobs
<1>1. lane[l].at # "rest" => <<lane[l].msg, l>> \in Jobs
  BY DEF Busy, TypeOK, Jobs
<1>2. UNCHANGED <<turn, recovery, runs, owed>> /\ handled \subseteq handled'
  BY DEF TakeUp, Take, Check, Mark, MarkFails, Intercept, Persist, Push, database, memory, history
<1>3. lost'[j] >= lost[j]
  <2>1. ASSUME NEW k \in Jobs, Bump(lost, k) PROVE lost'[j] >= lost[j]
    BY <1>0, <2>1 DEF Bump
  <2>2. CASE lost' = lost
    BY <1>0, <2>2
  <2> QED
    BY <1>1, <2>1, <2>2 DEF TakeUp, Take, Check, Mark, MarkFails, Intercept, Persist, Push, history,
                            Slips, NoSlip
<1> SUFFICES LaneRests(j) \/ LaneMoves(j)
  BY <1>2, <1>3
<1>4. CASE j[2] # l
  <2>0. j # <<lane[l].msg, l>>
    BY <1>4, <1>0
  <2>1. lane'[j[2]] = lane[j[2]]
    BY <1>0, <1>4 DEF TakeUp, Take, Check, Mark, MarkFails, Intercept, Persist, Push, Goto, Rest
  <2>2. taken'[j] = taken[j]
    BY <1>0, <2>0 DEF TakeUp, Take, Check, Mark, MarkFails, Intercept, Persist, Push, history, Bump
  <2>3. row'[j] = row[j]
    BY <1>0, <2>0 DEF TakeUp, Take, Check, Mark, MarkFails, Intercept, Persist, Push, database
  <2>4. Count(j, queue') = Count(j, queue)
    <3>1. CASE Push(l)
      <4>1. Count(j, Append(queue, <<lane[l].msg, l>>)) = Count(j, queue) + 0
        BY <1>0, <1>1, <2>0, <3>1, CountAppend DEF Push
      <4> QED
        BY <3>1, <4>1, <1>0, PlacesAreFinite DEF Push
    <3> QED
      BY <3>1 DEF TakeUp, Take, Check, Mark, MarkFails, Intercept, Persist
  <2> QED
    BY <1>2, <1>3, <2>1, <2>2, <2>3, <2>4 DEF LaneRests, At
<1>5. CASE j[2] = l
  <2>0. lane[l] \in LaneState
    BY <1>0
  <2>1. ASSUME NEW m \in Msgs, Take(l, m) PROVE LaneRests(j) \/ LaneMoves(j)
    <3>1. lane'[l] = [at |-> "ask", msg |-> m] /\ lane[l] = AtRest
      BY <1>0, <2>1 DEF Take
    <3>2. UNCHANGED <<taken[j], row[j]>> /\ Count(j, queue') = Count(j, queue)
      BY <2>1 DEF Take, database, history
    <3>3. At(j) = "rest"
      BY <3>1, <1>5 DEF At, AtRest
    <3>4. At(j)' \in {"ask", "rest"}
      BY <3>1, <1>5 DEF At
    <3> QED
      BY <3>2, <3>3, <3>4 DEF LaneRests, LaneMoves
  <2>2. ASSUME Rest(l) PROVE At(j)' = "rest"
    BY <2>2, <1>0, <1>5 DEF Rest, AtRest, At
  <2>3. ASSUME NEW at \in {"mark", "admit", "push"}, Goto(l, at)
        PROVE  IF lane[l].msg = j[1] THEN At(j)' = at ELSE At(j)' = "rest"
    <3>1. lane'[l] = [lane[l] EXCEPT !.at = at]
      BY <2>3, <1>0 DEF Goto
    <3>2. lane'[l].at = at /\ lane'[l].msg = lane[l].msg
      BY <2>0, <3>1 DEF LaneState
    <3> QED
      BY <3>2, <1>5 DEF At
  <2>4. IF lane[l].msg = j[1] THEN At(j) = lane[l].at /\ j = <<lane[l].msg, l>>
                              ELSE At(j) = "rest" /\ j # <<lane[l].msg, l>>
    BY <1>0, <1>5 DEF At
  <2>5. CASE Check(l)
    <3>1. UNCHANGED <<taken[j], row[j]>> /\ Count(j, queue') = Count(j, queue)
      BY <2>5 DEF Check, database, history
    <3>2. CASE lane[l].msg = j[1]
      BY <2>2, <2>3, <2>4, <2>5, <3>1, <3>2 DEF Check, LaneRests, LaneMoves
    <3>3. CASE lane[l].msg # j[1]
      BY <2>2, <2>3, <2>4, <2>5, <3>1, <3>3 DEF Check, LaneRests
    <3> QED
      BY <3>2, <3>3
  <2>6. CASE Mark(l)
    <3>1. UNCHANGED <<row[j]>> /\ Count(j, queue') = Count(j, queue) /\ lane[l].msg \in handled'
      BY <2>6 DEF Mark
    <3>2. CASE lane[l].msg = j[1]
      <4>1. taken'[j] = taken[j] + 1
        BY <2>4, <2>6, <3>2, <1>0 DEF Mark, Bump
      <4> QED
        BY <2>3, <2>4, <2>6, <3>1, <3>2, <4>1 DEF Mark, LaneMoves
    <3>3. CASE lane[l].msg # j[1]
      <4>1. taken'[j] = taken[j]
        BY <2>4, <2>6, <3>3, <1>0 DEF Mark, Bump
      <4> QED
        BY <2>3, <2>4, <2>6, <3>1, <3>3, <4>1 DEF Mark, LaneRests
    <3> QED
      BY <3>2, <3>3
  <2>7. CASE MarkFails(l) \/ Intercept(l)
    <3>1. UNCHANGED <<taken[j], row[j]>> /\ Count(j, queue') = Count(j, queue)
      BY <2>7 DEF MarkFails, Intercept, database
    <3>2. Rest(l) /\ lane[l].at \in {"mark", "admit"}
      BY <2>7 DEF MarkFails, Intercept
    <3> QED
      BY <2>2, <2>4, <3>1, <3>2 DEF LaneRests, LaneMoves
  <2>8. CASE Persist(l)
    <3>1. UNCHANGED <<taken[j]>> /\ Count(j, queue') = Count(j, queue) /\ lane[l].at = "admit" /\ Goto(l, "push")
      BY <2>8 DEF Persist
    <3>2. CASE lane[l].msg = j[1]
      <4>1. row'[j] \in {row[j], [kept |-> TRUE, paid |-> FALSE, attempts |-> 0]}
        BY <2>4, <2>8, <3>2, <1>0 DEF Persist, NoRow
      <4> QED
        BY <2>3, <2>4, <3>1, <3>2, <4>1 DEF LaneMoves
    <3>3. CASE lane[l].msg # j[1]
      <4>1. row'[j] = row[j]
        BY <2>4, <2>8, <3>3, <1>0 DEF Persist
      <4> QED
        BY <2>3, <2>4, <3>1, <3>3, <4>1 DEF LaneRests
    <3> QED
      BY <3>2, <3>3
  <2>9. CASE Push(l)
    <3>1. UNCHANGED <<taken[j], row[j]>> /\ Rest(l) /\ lane[l].at = "push"
      BY <2>9 DEF Push, database, history
    <3>2. Count(j, queue') = Count(j, queue) + (IF j = <<lane[l].msg, l>> THEN 1 ELSE 0)
      <4> DEFINE k == <<lane[l].msg, l>>
      <4>1. queue' = Append(queue, k) /\ lane[l].at # "rest"
        BY <2>9 DEF Push
      <4>2. k \in Jobs
        BY <1>1, <4>1 DEF Jobs
      <4> HIDE DEF k
      <4>3. Count(j, Append(queue, k)) = Count(j, queue) + (IF j = k THEN 1 ELSE 0)
        BY <1>0, <4>2, CountAppend
      <4> QED
        BY <4>1, <4>3 DEF k
    <3>3. CASE lane[l].msg = j[1]
      BY <2>2, <2>4, <3>1, <3>2, <3>3 DEF LaneMoves
    <3>4. CASE lane[l].msg # j[1]
      <4>1. Count(j, queue') = Count(j, queue)
        BY <2>4, <3>2, <3>4, <1>0, PlacesAreFinite
      <4> QED
        BY <2>2, <2>4, <3>1, <3>4, <4>1 DEF LaneRests
    <3> QED
      BY <3>3, <3>4
  <2> QED
    BY <1>2, <1>3, <2>1, <2>5, <2>6, <2>7, <2>8, <2>9 DEF TakeUp
<1> QED
  BY <1>4, <1>5

\* The same for the pump.
PumpRests(j) ==
  /\ OnTurn(j)' = OnTurn(j)
  /\ UNCHANGED <<runs[j], row[j], owed[j]>> /\ Count(j, queue') = Count(j, queue)
PumpMoves(j) ==
  \/ /\ OnTurn(j) = "rest" /\ OnTurn(j)' = "spend"
     /\ Count(j, queue) = Count(j, queue') + 1 /\ runs'[j] = runs[j] + 1
     /\ UNCHANGED <<row[j], owed[j]>>
  \/ /\ OnTurn(j) = "spend"
     /\ \/ OnTurn(j)' = "flag" /\ owed'[j] = owed[j] + 1
        \/ OnTurn(j)' = "close" /\ UNCHANGED owed[j]
     /\ UNCHANGED <<runs[j], row[j]>> /\ Count(j, queue') = Count(j, queue)
  \/ /\ OnTurn(j) = "flag" /\ OnTurn(j)' = "respond"
     /\ UNCHANGED <<row[j].kept, row[j].attempts, runs[j], owed[j]>> /\ Count(j, queue') = Count(j, queue)
  \/ /\ OnTurn(j) = "respond" /\ OnTurn(j)' = "close" /\ owed'[j] - lost'[j] <= owed[j] - lost[j] - 1
     /\ UNCHANGED <<runs[j], row[j]>> /\ Count(j, queue') = Count(j, queue)
  \/ /\ OnTurn(j) = "close" /\ OnTurn(j)' = "rest" /\ row'[j] \in {row[j], NoRow}
     /\ UNCHANGED <<runs[j], owed[j]>> /\ Count(j, queue') = Count(j, queue)

\* Pump, seen from one job.
LEMMA WhatThePumpDoes ==
  ASSUME Typed, Pump, NEW j \in Jobs
  PROVE  /\ UNCHANGED <<taken, handled, lane, recovery>>
         /\ lost'[j] >= lost[j]
         /\ PumpRests(j) \/ PumpMoves(j)
<1> USE BotAssumption DEF Typed
<1>0. /\ row \in [Jobs -> Row]
      /\ owed \in [Jobs -> Int]
      /\ {taken, runs, lost} \subseteq [Jobs -> Nat]
      /\ queue \in Seq(Jobs)
      /\ turn \in Turns
      /\ turn.at # "rest" => turn.job \in Jobs
      /\ j # Nothing
  BY NothingAssumption DEF TypeOK, Turns, Row, Busy
<1>1. UNCHANGED <<taken, handled, lane, recovery>>
  BY DEF Pump, Pick, Spend, Flag, Answer, Close, database
<1>2. lost'[j] >= lost[j]
  <2>1. ASSUME turn.job \in Jobs, Bump(lost, turn.job) PROVE lost'[j] >= lost[j]
    BY <1>0, <2>1 DEF Bump
  <2>2. CASE lost' = lost
    BY <1>0, <2>2
  <2> QED
    BY <1>0, <2>1, <2>2 DEF Pump, Pick, Spend, Flag, Answer, Close, Slips, NoSlip
<1> SUFFICES PumpRests(j) \/ PumpMoves(j)
  BY <1>1, <1>2
<1>3. CASE Pick
  <2>1. Head(queue) \in Jobs /\ queue # <<>>
    BY <1>0, <1>3 DEF Pick
  <2>2. Count(j, queue) = Count(j, queue') + (IF j = Head(queue) THEN 1 ELSE 0)
    BY <1>0, <1>3, <2>1, CountTail DEF Pick
  <2>3. Count(j, queue') \in Nat
    <3>1. queue' \in Seq(Jobs)
      BY <1>0, <1>3, <2>1 DEF Pick
    <3> QED
      BY <3>1, PlacesAreFinite
  <2>4. OnTurn(j) = "rest" /\ OnTurn(j)' = IF j = Head(queue) THEN "spend" ELSE "rest"
    BY <1>3 DEF Pick, NoTurn, OnTurn
  <2>5. runs'[j] = (IF j = Head(queue) THEN runs[j] + 1 ELSE runs[j]) /\ UNCHANGED <<row[j], owed[j]>>
    BY <1>0, <1>3, <2>1 DEF Pick, Bump, database
  <2>6. CASE j = Head(queue)
    BY <2>2, <2>4, <2>5, <2>6 DEF PumpMoves
  <2>7. CASE j # Head(queue)
    <3>1. Count(j, queue') = Count(j, queue)
      BY <2>2, <2>3, <2>7
    <3> QED
      BY <3>1, <2>4, <2>5, <2>7 DEF PumpRests
  <2> QED
    BY <1>1, <1>2, <2>6, <2>7
<1>4. CASE Spend \/ Flag \/ Answer \/ Close
  <2>0. turn.job \in Jobs /\ UNCHANGED <<runs[j]>> /\ Count(j, queue') = Count(j, queue)
    BY <1>0, <1>4 DEF Spend, Flag, Answer, Close
  <2>1. ASSUME NEW at \in {"flag", "respond", "close"}, Turn(at)
        PROVE  OnTurn(j)' = IF turn.job = j THEN at ELSE "rest"
    <3>1. turn' = [turn EXCEPT !.at = at]
      BY <2>1 DEF Turn
    <3>2. turn'.at = at /\ turn'.job = turn.job
      BY <3>1, <1>0 DEF Turns
    <3> QED
      BY <3>2 DEF OnTurn
  <2>2. CASE turn.job # j
    <3>1. OnTurn(j) = "rest" /\ OnTurn(j)' = "rest"
      BY <1>0, <1>4, <2>1, <2>2 DEF Spend, Flag, Answer, Close, NoTurn, OnTurn
    <3>2. UNCHANGED <<row[j], owed[j]>>
      <4>1. row'[j] = row[j]
        BY <1>0, <1>4, <2>0, <2>2 DEF Spend, Flag, Answer, Close
      <4>2. ASSUME NEW n \in Int, Owe(turn.job, n) PROVE owed'[j] = owed[j]
        BY <4>2, <1>0, <2>0, <2>2 DEF Owe
      <4> QED
        BY <4>1, <4>2, <1>4 DEF Spend, Flag, Answer, Close
    <3> QED
      BY <1>1, <1>2, <2>0, <3>1, <3>2 DEF PumpRests
  <2>3. CASE turn.job = j
    <3>0. OnTurn(j) = turn.at
      BY <2>3 DEF OnTurn
    <3>1. ASSUME NEW n \in Int, Owe(turn.job, n) PROVE owed'[j] = owed[j] + n
      BY <3>1, <1>0, <2>0, <2>3 DEF Owe
    <3>2. ASSUME Bump(lost, turn.job) PROVE lost'[j] = lost[j] + 1
      BY <3>2, <1>0, <2>0, <2>3 DEF Bump
    <3>3. owed[j] \in Int /\ lost[j] \in Nat
      BY <1>0
    <3>4. CASE Spend
      BY <3>4, <3>0, <3>1, <2>0, <2>1, <2>3 DEF Spend, PumpMoves
    <3>5. CASE Flag
      <4>1. UNCHANGED <<row[j].kept, row[j].attempts>>
        <5>0. row[j] \in Row /\ row[j].kept \in BOOLEAN
          BY <1>0 DEF Row
        <5>1. CASE row' = row
          BY <5>1
        <5>2. CASE row' = [row EXCEPT ![j].paid = row[j].kept]
          <6>1. row'[j] = [row[j] EXCEPT !.paid = row[j].kept]
            BY <1>0, <5>2
          <6> QED
            BY <5>0, <6>1 DEF Row
        <5> QED
          BY <5>1, <5>2, <3>5, <2>3 DEF Flag
      <4> QED
        BY <3>5, <3>0, <2>0, <2>1, <2>3, <4>1 DEF Flag, PumpMoves
    <3>6. CASE Answer
      <4>1. owed'[j] - lost'[j] <= owed[j] - lost[j] - 1
        BY <3>6, <3>1, <3>2, <3>3, <2>3 DEF Answer, Slips, NoSlip
      <4> QED
        BY <3>6, <3>0, <2>0, <2>1, <2>3, <4>1 DEF Answer, PumpMoves
    <3>7. CASE Close
      <4>1. row'[j] \in {row[j], NoRow}
        BY <3>7, <1>0, <2>3 DEF Close
      <4>2. OnTurn(j)' = "rest"
        BY <3>7, <1>0 DEF Close, NoTurn, OnTurn
      <4> QED
        BY <3>7, <3>0, <2>0, <2>3, <4>1, <4>2 DEF Close, PumpMoves
    <3> QED
      BY <1>1, <1>2, <1>4, <3>4, <3>5, <3>6, <3>7
  <2> QED
    BY <2>2, <2>3
<1> QED
  BY <1>3, <1>4 DEF Pump

\* The same for recover(): listed, refunded, given up, tried again.
RecoveryRests(j) ==
  /\ Todo(j)' = Todo(j) /\ InHand(j)' = InHand(j)
  /\ UNCHANGED <<row[j], owed[j]>> /\ Count(j, queue') = Count(j, queue)
Listing(j) ==
  /\ InHand(j)' = {} /\ \A p \in Todo(j)' : row[j].kept /\ p.was = row[j]
  /\ UNCHANGED <<row[j], owed[j]>> /\ Count(j, queue') = Count(j, queue)
Refunding(j, p) ==
  /\ p \in Todo(j) /\ Todo(j)' \subseteq Todo(j) /\ InHand(j)' = {p}
  /\ owed'[j] <= owed[j] /\ (p.was.paid => owed'[j] - lost'[j] <= owed[j] - lost[j] - 1)
  /\ UNCHANGED row[j] /\ Count(j, queue') = Count(j, queue)
GivingUp(j, p) ==
  /\ InHand(j) = {p} /\ InHand(j)' = {} /\ Todo(j) = {} /\ Todo(j)' = {}
  /\ row'[j] \in {row[j], NoRow}
  /\ UNCHANGED owed[j] /\ Count(j, queue') = Count(j, queue)
Retrying(j, p) ==
  /\ InHand(j) = {p} /\ InHand(j)' = {} /\ Todo(j) = {} /\ Todo(j)' = {}
  /\ p.was.attempts < MaxRecovery
  /\ Count(j, queue') = Count(j, queue) + 1
  /\ \/ row[j].kept /\ row'[j].attempts = p.was.attempts + 1
     \/ row'[j].attempts = row[j].attempts /\ (~row[j].kept \/ lost'[j] = lost[j] + 1)
  /\ UNCHANGED <<owed[j], row[j].kept, row[j].paid>>
RecoveryMoves(j) ==
  \/ Listing(j)
  \/ \E p \in Interrupted : Refunding(j, p) \/ GivingUp(j, p) \/ Retrying(j, p)

\* Recover, seen from one job.
LEMMA WhatRecoveryDoes ==
  ASSUME Typed, Recover, NEW j \in Jobs
  PROVE  /\ UNCHANGED <<taken, handled, lane, turn, runs>>
         /\ lost'[j] >= lost[j]
         /\ RecoveryRests(j) \/ RecoveryMoves(j)
<1> USE BotAssumption DEF Typed
<1>0. /\ row \in [Jobs -> Row]
      /\ owed \in [Jobs -> Int]
      /\ {taken, runs, lost} \subseteq [Jobs -> Nat]
      /\ queue \in Seq(Jobs)
      /\ recovery \in Recovery
      /\ Nothing \notin recovery.todo
  BY NothingAssumption DEF TypeOK, Recovery, Row
<1>1. UNCHANGED <<taken, handled, lane, turn, runs>>
  BY DEF Recover, List, RefundInterrupted, GiveUp, Retry, database
<1>2. lost'[j] >= lost[j]
  <2>1. ASSUME NEW k \in Jobs, Bump(lost, k) PROVE lost'[j] >= lost[j]
    BY <1>0, <2>1 DEF Bump
  <2>2. CASE lost' = lost
    BY <1>0, <2>2
  <2> QED
    BY <1>0, <2>1, <2>2, InterruptedHasAJob
       DEF Recover, List, RefundInterrupted, GiveUp, Retry, Slips, NoSlip
<1> SUFFICES RecoveryRests(j) \/ RecoveryMoves(j)
  BY <1>1, <1>2
<1>3. CASE List
  <2> DEFINE todo == {[job |-> k, was |-> row[k]] : k \in {i \in Jobs : row[i].kept}}
  <2>1. \A p \in todo : p.job = j => row[j].kept /\ p.was = row[j]
    OBVIOUS
  <2> HIDE DEF todo
  <2>2. NotBooted \in Recovery /\ NotBooted.hand = Nothing /\ NotBooted.todo = {}
    BY DEF NotBooted, Recovery, Maybe
  <2>3. \/ recovery' = [NotBooted EXCEPT !.at = "rows", !.todo = todo]
        \/ recovery' = [NotBooted EXCEPT !.at = "failed"]
    BY <1>3 DEF List, todo
  <2>4. recovery'.hand = Nothing /\ recovery'.todo \in {todo, {}}
    BY <2>2, <2>3 DEF Recovery
  <2>5. InHand(j)' = {}
    BY <2>4, NothingAssumption DEF InHand
  <2>6. \A p \in Todo(j)' : row[j].kept /\ p.was = row[j]
    BY <2>1, <2>4 DEF Todo
  <2> QED
    BY <1>3, <2>5, <2>6 DEF List, database, RecoveryMoves, Listing
<1>4. ASSUME NEW p \in Interrupted, RefundInterrupted(p) \/ GiveUp(p) \/ Retry(p)
      PROVE  RecoveryRests(j) \/ RecoveryMoves(j)
  <2>0. p.job \in Jobs /\ p.was.paid \in BOOLEAN /\ p.was.attempts \in 0 .. MaxRecovery /\ p # Nothing
    BY InterruptedHasAJob, NothingAssumption
  <2>1. CASE RefundInterrupted(p)
    <3>1. recovery' = [recovery EXCEPT !.todo = @ \ {p}, !.hand = p] /\ p \in recovery.todo /\ recovery.hand = Nothing
      BY <2>1 DEF RefundInterrupted
    <3>2. recovery'.todo = recovery.todo \ {p} /\ recovery'.hand = p
      BY <3>1, <1>0 DEF Recovery
    <3>3. row'[j] = row[j] /\ Count(j, queue') = Count(j, queue)
      BY <2>1 DEF RefundInterrupted
    <3>4. CASE p.job = j
      <4>1. p \in Todo(j) /\ Todo(j)' \subseteq Todo(j) /\ InHand(j)' = {p}
        BY <3>1, <3>2, <3>4 DEF Todo, InHand
      <4>2. ASSUME Owe(p.job, -1) PROVE owed'[j] = owed[j] - 1
        BY <4>2, <1>0, <3>4 DEF Owe
      <4>3. ASSUME Bump(lost, p.job) PROVE lost'[j] = lost[j] + 1
        BY <4>3, <1>0, <3>4 DEF Bump
      <4>4. owed[j] \in Int /\ lost[j] \in Nat
        BY <1>0
      <4>5. owed'[j] <= owed[j] /\ (p.was.paid => owed'[j] - lost'[j] <= owed[j] - lost[j] - 1)
        <5>1. \/ owed'[j] = owed[j] - 1 /\ lost'[j] = lost[j]
              \/ owed'[j] = owed[j] /\ lost'[j] = lost[j] + 1
              \/ owed'[j] = owed[j] /\ lost'[j] = lost[j] /\ ~p.was.paid
          BY <2>1, <4>2, <4>3, <3>4 DEF RefundInterrupted, Slips, NoSlip
        <5> QED
          BY <4>4, <5>1
      <4>6. Refunding(j, p)
        BY <3>3, <4>1, <4>5 DEF Refunding
      <4> QED
        BY <4>6 DEF RecoveryMoves
    <3>5. CASE p.job # j
      <4>1. Todo(j)' = Todo(j) /\ InHand(j)' = InHand(j)
        BY <3>1, <3>2, <3>5, NothingAssumption DEF Todo, InHand
      <4>2. owed'[j] = owed[j]
        <5>1. ASSUME Owe(p.job, -1) PROVE owed'[j] = owed[j]
          BY <5>1, <1>0, <3>5 DEF Owe
        <5> QED
          BY <5>1, <2>1 DEF RefundInterrupted
      <4> QED
        BY <3>3, <4>1, <4>2 DEF RecoveryRests
    <3> QED
      BY <3>4, <3>5
  <2>2. ASSUME GiveUp(p) \/ Retry(p)
        PROVE  /\ owed'[j] = owed[j] /\ InHand(j)' = {} /\ Todo(j)' = Todo(j)
               /\ p.job = j => InHand(j) = {p} /\ Todo(j) = {}
               /\ p.job # j => InHand(j) = {}
    <3>1. recovery' = [recovery EXCEPT !.hand = Nothing] /\ recovery.hand = p /\ owed' = owed
      BY <2>2 DEF GiveUp, Retry
    <3>2. recovery'.todo = recovery.todo /\ recovery'.hand = Nothing
      BY <3>1, <1>0 DEF Recovery
    <3>3. InHand(j)' = {} /\ Todo(j)' = Todo(j)
      BY <3>2, NothingAssumption DEF InHand, Todo
    <3>4. p \in Listed /\ p \notin recovery.todo
      BY <3>1, <2>0 DEF Listed, Busy
    <3>5. \A q \in recovery.todo : q.job # p.job
      BY <3>4 DEF Busy, Listed
    <3> QED
      BY <3>1, <3>3, <3>5 DEF InHand, Todo
  <2>3. CASE GiveUp(p)
    <3>1. Count(j, queue') = Count(j, queue)
      BY <2>3 DEF GiveUp
    <3>2. CASE p.job = j
      <4>1. row'[j] \in {row[j], NoRow}
        BY <2>3, <3>2, <1>0 DEF GiveUp
      <4>2. GivingUp(j, p)
        BY <2>2, <2>3, <3>1, <3>2, <4>1 DEF GivingUp
      <4> QED
        BY <4>2 DEF RecoveryMoves
    <3>3. CASE p.job # j
      <4>1. row'[j] = row[j]
        BY <2>0, <2>3, <3>3, <1>0 DEF GiveUp
      <4> QED
        BY <2>2, <2>3, <3>1, <3>3, <4>1 DEF RecoveryRests
    <3> QED
      BY <3>2, <3>3
  <2>4. CASE Retry(p)
    <3>1. Count(j, queue') = Count(j, queue) + (IF j = p.job THEN 1 ELSE 0)
      <4>1. queue' = Append(queue, p.job) /\ p.job \in Jobs
        BY <2>4, <2>0 DEF Retry
      <4> QED
        BY <1>0, <4>1, CountAppend
    <3>2. CASE p.job = j
      <4>0. row[j] \in Row /\ row[j].kept \in BOOLEAN /\ lost[j] \in Nat /\ p.was.attempts \in Nat
        BY <1>0, <2>0 DEF Row
      <4>1. CASE row' = row /\ Bump(lost, j)
        <5>1. lost'[j] = lost[j] + 1
          BY <4>1, <1>0 DEF Bump
        <5>2. Retrying(j, p)
          BY <2>2, <2>4, <3>1, <3>2, <4>1, <5>1 DEF Retrying, Retry
        <5> QED
          BY <5>2 DEF RecoveryMoves
      <4>2. CASE row' = [row EXCEPT ![j].attempts = IF row[j].kept THEN p.was.attempts + 1 ELSE @]
        <5>1. row'[j] = [row[j] EXCEPT !.attempts = IF row[j].kept THEN p.was.attempts + 1 ELSE row[j].attempts]
          BY <4>2, <1>0
        <5>2. /\ row'[j].attempts = IF row[j].kept THEN p.was.attempts + 1 ELSE row[j].attempts
              /\ UNCHANGED <<row[j].kept, row[j].paid>>
          BY <5>1, <4>0 DEF Row
        <5>3. Retrying(j, p)
          BY <2>2, <2>4, <3>1, <3>2, <4>0, <5>2 DEF Retrying, Retry
        <5> QED
          BY <5>3 DEF RecoveryMoves
      <4> QED
        BY <2>4, <3>2, <4>1, <4>2 DEF Retry, Slips
    <3>3. CASE p.job # j
      <4>1. row'[j] = row[j]
        BY <2>0, <2>4, <3>3, <1>0 DEF Retry
      <4>2. Count(j, queue') = Count(j, queue)
        BY <3>1, <3>3, <1>0, PlacesAreFinite
      <4> QED
        BY <2>2, <2>4, <3>3, <4>1, <4>2 DEF RecoveryRests
    <3> QED
      BY <3>2, <3>3
  <2> QED
    BY <1>4, <2>1, <2>3, <2>4
<1> QED
  BY <1>3, <1>4 DEF Recover

\* A new channel starts its recovery anew; the end of one forgets the job, and
\* counts what no row remembers.
RestartKeeps(j) == At(j)' = At(j) /\ OnTurn(j)' = OnTurn(j) /\ Count(j, queue') = Count(j, queue)
RestartForgets(j) ==
  /\ At(j)' = "rest" /\ OnTurn(j)' = "rest" /\ Count(j, queue') = 0
  /\ OnTurn(j) \in {"flag", "respond"} => lost'[j] = lost[j] + 1 \/ (row[j].kept /\ row[j].paid)

\* Boot and Forget, seen from one job.
LEMMA WhatARestartDoes ==
  ASSUME Typed, Boot \/ Forget, NEW j \in Jobs
  PROVE  /\ UNCHANGED <<handled, taken, row, owed, runs>>
         /\ lost'[j] >= lost[j]
         /\ Todo(j)' = {} /\ InHand(j)' = {}
         /\ RestartKeeps(j) \/ RestartForgets(j)
<1> USE BotAssumption DEF Typed
<1>0. lost[j] \in Nat /\ row[j] \in Row /\ queue \in Seq(Jobs) /\ row[j].kept \in BOOLEAN /\ row[j].paid \in BOOLEAN
  BY DEF TypeOK, Row
<1>1. UNCHANGED <<handled, taken, row, owed, runs>>
  BY DEF Boot, Forget, database, history
<1>2. recovery'.todo = {} /\ recovery'.hand = Nothing
  <2>1. NotBooted \in Recovery /\ NotBooted.hand = Nothing /\ NotBooted.todo = {}
    BY DEF NotBooted, Recovery, Maybe
  <2>2. recovery' = NotBooted \/ recovery' = [NotBooted EXCEPT !.at = "list"]
    BY DEF Boot, Forget
  <2> QED
    BY <2>1, <2>2 DEF Recovery
<1>3. Todo(j)' = {} /\ InHand(j)' = {}
  BY <1>2, NothingAssumption DEF Todo, InHand
<1>4. CASE Boot
  BY <1>0, <1>1, <1>3, <1>4 DEF Boot, history, RestartKeeps, At, OnTurn
<1>5. CASE Forget
  <2>1. lost'[j] = IF j \in Unrecorded THEN lost[j] + 1 ELSE lost[j]
    BY <1>5 DEF Forget
  <2>2. At(j)' = "rest" /\ OnTurn(j)' = "rest"
    <3>1. j[2] \in Lanes /\ j # Nothing
      BY NothingAssumption DEF Jobs
    <3> QED
      BY <1>5, <3>1 DEF Forget, At, OnTurn, AtRest, NoTurn
  <2>3. Count(j, queue') = 0
    <3>1. queue' \in Seq(Jobs) /\ DOMAIN queue' = {}
      BY <1>5 DEF Forget
    <3> QED
      BY <3>1, CountNone
  <2>4. ASSUME OnTurn(j) \in {"flag", "respond"}, ~(row[j].kept /\ row[j].paid) PROVE j \in Unrecorded
    <3>1. turn.job = j /\ turn.at \in {"flag", "respond"}
      BY <2>4 DEF OnTurn
    <3>2. Unpaid(j)
      BY <2>4, <3>1, <1>0 DEF Unpaid
    <3> QED
      BY <3>1, <3>2 DEF Unrecorded
  <2>5. RestartForgets(j)
    BY <2>1, <2>2, <2>3, <2>4 DEF RestartForgets
  <2> QED
    BY <1>0, <1>1, <1>3, <2>1, <2>5
<1> QED
  BY <1>4, <1>5

-----------------------------------------------------------------------------
(***************************************************************************)
(* The inductive invariant, job by job.                                    *)
(***************************************************************************)

\* Past the dedupe gate and on its way to the queue.
Past == {"admit", "push"}
\* The turns the job has had, or will have in this worker's life.
Load(j) == runs[j] + Count(j, queue) + (IF At(j) \in Past THEN 1 ELSE 0)

\* A job nothing remembers and nothing has begun.
Unknown(j) ==
  /\ runs[j] = 0 /\ ~row[j].kept /\ Count(j, queue) = 0
  /\ OnTurn(j) = "rest" /\ Todo(j) = {} /\ InHand(j) = {}

\* The gate: who has not passed it has left no trace, and who has is marked, so
\* that nobody is before it for a second time.
GateOf(j) ==
  /\ taken[j] <= 1
  /\ taken[j] > 0 => j[1] \in handled
  /\ taken[j] = 0 => Unknown(j) /\ At(j) \notin Past
  /\ At(j) = "mark" => taken[j] = 0
  /\ At(j) = "admit" => Unknown(j)

\* Every turn but the first was paid for with an attempt the row counts, or with
\* a failed write: for the row as it is, and for the snapshot recover() works on.
RunsOf(j) ==
  /\ Load(j) <= 1 + MaxRecovery + lost[j]
  /\ row[j].kept => Load(j) <= 1 + row[j].attempts + lost[j]
  /\ \A p \in Todo(j) \cup InHand(j) : Load(j) <= 1 + p.was.attempts + lost[j]

\* A charge is answered for at once (Settled), or the worker that made it died,
\* and a flagged row waits for recover() to give it back (Left).
Charged(j) == IF OnTurn(j) \in {"flag", "respond"} THEN 1 ELSE 0
Settled(j) == owed[j] <= lost[j] + Charged(j)
Left(j) ==
  /\ owed[j] <= lost[j] + 1
  /\ row[j].kept /\ row[j].paid
  /\ OnTurn(j) = "rest" /\ Count(j, queue) = 0 /\ At(j) \notin Past /\ InHand(j) = {}
  /\ \A p \in Todo(j) : p.was.paid
PayOf(j) == Settled(j) \/ Left(j)

JobInv == \A j \in Jobs : GateOf(j) /\ RunsOf(j) /\ PayOf(j)

\* The types of what a job has.
Scalars(j) ==
  /\ {taken[j], runs[j], lost[j], Count(j, queue)} \subseteq Nat
  /\ owed[j] \in Int
  /\ row[j] \in Row /\ row[j].kept \in BOOLEAN /\ row[j].paid \in BOOLEAN /\ row[j].attempts \in 0 .. MaxRecovery
  /\ \A p \in Todo(j) \cup InHand(j) : p.was.attempts \in 0 .. MaxRecovery /\ p.was.paid \in BOOLEAN

\* They follow from the types of the channel,
LEMMA ScalarsTyped ==
  ASSUME Typed, NEW j \in Jobs
  PROVE  Scalars(j)
<1>1. row \in [Jobs -> Row] /\ queue \in Seq(Jobs) /\ recovery.todo \subseteq Interrupted
  BY DEF Typed, TypeOK, Row
<1>2. Count(j, queue) \in Nat
  BY <1>1, PlacesAreFinite
<1>3. \A p \in Todo(j) \cup InHand(j) : p \in Interrupted
  BY <1>1 DEF Todo, InHand
<1>4. row[j] \in Row /\ row[j].kept \in BOOLEAN /\ row[j].paid \in BOOLEAN /\ row[j].attempts \in 0 .. MaxRecovery
  BY <1>1 DEF Row
<1> QED
  BY <1>2, <1>3, <1>4, InterruptedHasAJob DEF Typed, TypeOK, Scalars

\* for all jobs,
LEMMA ScalarsNow == \A j \in Jobs : Typed => Scalars(j)
BY ScalarsTyped

\* and after a step.
LEMMA ScalarsNext == (\A j \in Jobs : Typed => Scalars(j))'
BY ScalarsNow, PTL

\* Every step keeps the gate.
LEMMA GateHolds ==
  ASSUME Typed, ChannelStep, NEW j \in Jobs, GateOf(j)
  PROVE  GateOf(j)'
<1>0. Scalars(j) /\ Scalars(j)'
  BY ScalarsNow, ScalarsNext, TypedStep
<1> USE DEF GateOf
<1>1. ASSUME UNCHANGED <<At(j), turn, recovery, runs>>, UNCHANGED <<taken[j], row[j]>>,
             Count(j, queue') = Count(j, queue), handled \subseteq handled'
      PROVE  GateOf(j)'
  BY <1>0, <1>1 DEF Unknown, OnTurn, Todo, InHand
<1>2. ASSUME NEW l \in Lanes, TakeUp(l) PROVE GateOf(j)'
  <2>1. /\ UNCHANGED <<turn, recovery, runs, owed>>
        /\ handled \subseteq handled'
        /\ LaneRests(j) \/ LaneMoves(j)
    BY <1>2, WhatALaneDoes
  <2>2. CASE LaneRests(j)
    BY <2>1, <2>2, <1>1 DEF LaneRests
  <2>3. CASE LaneMoves(j)
    <3>1. ASSUME UNCHANGED row[j], Count(j, queue') = Count(j, queue), Unknown(j) PROVE Unknown(j)'
      BY <3>1, <2>1 DEF Unknown, OnTurn, Todo, InHand
    <3> QED
      BY <1>0, <2>1, <2>3, <3>1 DEF LaneMoves, Past, Scalars
  <2> QED
    BY <2>1, <2>2, <2>3
<1>3. ASSUME UNCHANGED <<taken, handled>>, At(j)' \in {At(j), "rest"}, Unknown(j) => Unknown(j)' PROVE GateOf(j)'
  BY <1>3, <1>0 DEF Past
<1>4. CASE Pump
  <2>1. UNCHANGED <<taken, handled, lane, recovery>> /\ (PumpRests(j) \/ PumpMoves(j))
    BY <1>4, WhatThePumpDoes
  <2>2. ASSUME Unknown(j) PROVE Unknown(j)'
    BY <2>1, <2>2, <1>0 DEF Unknown, PumpRests, PumpMoves, Todo, InHand, Scalars
  <2>3. At(j)' = At(j)
    BY <2>1 DEF At
  <2> QED
    BY <2>1, <2>2, <2>3, <1>3
<1>5. CASE Recover
  <2>1. UNCHANGED <<taken, handled, lane, turn, runs>> /\ (RecoveryRests(j) \/ RecoveryMoves(j))
    BY <1>5, WhatRecoveryDoes
  <2>2. ASSUME Unknown(j) PROVE Unknown(j)'
    <3>1. RecoveryRests(j) \/ Listing(j)
      BY <2>1, <2>2 DEF Unknown, RecoveryMoves, Refunding, GivingUp, Retrying
    <3> QED
      BY <2>1, <2>2, <3>1 DEF Unknown, RecoveryRests, Listing, OnTurn
  <2>3. At(j)' = At(j)
    BY <2>1 DEF At
  <2> QED
    BY <2>1, <2>2, <2>3, <1>3
<1>6. CASE Boot \/ Forget
  <2>1. /\ UNCHANGED <<handled, taken, row, owed, runs>>
        /\ Todo(j)' = {} /\ InHand(j)' = {}
        /\ RestartKeeps(j) \/ RestartForgets(j)
    BY <1>6, WhatARestartDoes
  <2>2. ASSUME Unknown(j) PROVE Unknown(j)'
    BY <2>1, <2>2 DEF Unknown, RestartKeeps, RestartForgets
  <2>3. At(j)' \in {At(j), "rest"}
    BY <2>1 DEF RestartKeeps, RestartForgets
  <2> QED
    BY <2>1, <2>2, <2>3, <1>3
<1>7. CASE (\E m \in Msgs : Post(m) \/ Overlook(m) \/ Elapse(m)) \/ UNCHANGED channel
  BY <1>7, <1>1 DEF Post, Overlook, Elapse, Slip, channel, database, memory, history, At
<1> QED
  BY <1>2, <1>4, <1>5, <1>6, <1>7 DEF ChannelStep, Work

\* Every step keeps the bound of the turns.
LEMMA RunsHold ==
  ASSUME Typed, ChannelStep, NEW j \in Jobs, GateOf(j), RunsOf(j)
  PROVE  RunsOf(j)'
<1>0. Scalars(j) /\ Scalars(j)'
  BY ScalarsNow, ScalarsNext, TypedStep
<1>m. MaxRecovery \in Nat
  BY BotAssumption
<1> USE DEF RunsOf
<1>1. ASSUME Load(j)' <= Load(j), lost'[j] >= lost[j], row'[j].kept => row[j].kept /\ row'[j].attempts = row[j].attempts,
             Todo(j)' \cup InHand(j)' \subseteq Todo(j) \cup InHand(j)
      PROVE  RunsOf(j)'
  <2>1. {Load(j), Load(j)'} \subseteq Nat
    BY <1>0 DEF Load, Scalars
  <2> QED
    BY <1>0, <1>1, <1>m, <2>1 DEF Scalars
<1>2. ASSUME NEW l \in Lanes, TakeUp(l) PROVE RunsOf(j)'
  <2>1. /\ UNCHANGED <<turn, recovery, runs, owed>>
        /\ lost'[j] >= lost[j]
        /\ LaneRests(j) \/ LaneMoves(j)
    BY <1>2, WhatALaneDoes
  <2>2. Todo(j)' = Todo(j) /\ InHand(j)' = InHand(j)
    BY <2>1 DEF Todo, InHand
  <2>3. CASE UNCHANGED row[j] /\ Load(j)' <= Load(j)
    BY <2>1, <2>2, <2>3, <1>1
  <2>4. CASE At(j) = "mark" /\ At(j)' = "admit" /\ UNCHANGED row[j] /\ Count(j, queue') = Count(j, queue)
    <3>1. Unknown(j)
      BY <2>4 DEF GateOf
    <3>2. Load(j)' = 1
      BY <2>1, <2>4, <3>1 DEF Load, Unknown, Past
    <3> QED
      BY <1>0, <1>m, <2>1, <2>2, <2>4, <3>1, <3>2 DEF Unknown, Scalars
  <2>5. CASE /\ At(j) = "admit" /\ At(j)' = "push"
             /\ row'[j] \in {row[j], [kept |-> TRUE, paid |-> FALSE, attempts |-> 0]}
             /\ Count(j, queue') = Count(j, queue)
    <3>1. Unknown(j)
      BY <2>5 DEF GateOf
    <3>2. Load(j)' = 1
      BY <2>1, <2>5, <3>1 DEF Load, Unknown, Past
    <3> QED
      BY <1>0, <1>m, <2>1, <2>2, <2>5, <3>1, <3>2 DEF Unknown, Scalars
  <2>6. CASE LaneRests(j)
    BY <1>0, <2>1, <2>3, <2>6 DEF LaneRests, Load, Scalars
  <2>7. CASE LaneMoves(j)
    BY <1>0, <2>1, <2>3, <2>4, <2>5, <2>7 DEF LaneMoves, Load, Past, Scalars
  <2> QED
    BY <2>1, <2>6, <2>7
<1>3. CASE Pump
  <2>1. UNCHANGED <<taken, handled, lane, recovery>> /\ lost'[j] >= lost[j] /\ (PumpRests(j) \/ PumpMoves(j))
    BY <1>3, WhatThePumpDoes
  <2>2. Todo(j)' = Todo(j) /\ InHand(j)' = InHand(j) /\ At(j)' = At(j)
    BY <2>1 DEF Todo, InHand, At
  <2>3. Load(j)' = Load(j)
    BY <1>0, <2>1, <2>2 DEF PumpRests, PumpMoves, Load, Scalars
  <2>4. row'[j].kept => row[j].kept /\ row'[j].attempts = row[j].attempts
    BY <2>1, NoRowTyped DEF PumpRests, PumpMoves
  <2>5. Load(j)' <= Load(j)
    BY <1>0, <2>3 DEF Load, Scalars
  <2> QED
    BY <1>1, <2>1, <2>2, <2>4, <2>5
<1>4. CASE Recover
  <2>1. UNCHANGED <<taken, handled, lane, turn, runs>> /\ lost'[j] >= lost[j] /\ (RecoveryRests(j) \/ RecoveryMoves(j))
    BY <1>4, WhatRecoveryDoes
  <2>2. At(j)' = At(j)
    BY <2>1 DEF At
  <2>3. Count(j, queue') = Count(j, queue) => Load(j)' = Load(j) /\ Load(j)' <= Load(j)
    BY <1>0, <2>1, <2>2 DEF Load, Scalars
  <2>4. CASE RecoveryRests(j)
    BY <1>1, <2>1, <2>3, <2>4 DEF RecoveryRests
  <2>5. CASE Listing(j)
    <3>1. Load(j) \in Nat
      BY <1>0 DEF Load, Scalars
    <3> QED
      BY <1>0, <1>m, <2>1, <2>3, <2>5, <3>1 DEF Listing, Scalars
  <2>6. ASSUME NEW p \in Interrupted, Refunding(j, p) PROVE RunsOf(j)'
    BY <1>1, <2>1, <2>3, <2>6 DEF Refunding
  <2>7. ASSUME NEW p \in Interrupted, GivingUp(j, p) PROVE RunsOf(j)'
    BY <1>1, <2>1, <2>3, <2>7, NoRowTyped DEF GivingUp
  <2>8. ASSUME NEW p \in Interrupted, Retrying(j, p) PROVE RunsOf(j)'
    <3>1. Load(j)' = Load(j) + 1 /\ Load(j) \in Nat
      BY <1>0, <2>1, <2>2, <2>8 DEF Retrying, Load, Scalars
    <3>2. Load(j) <= 1 + p.was.attempts + lost[j] /\ p.was.attempts \in 0 .. MaxRecovery /\ p.was.attempts < MaxRecovery
      BY <1>0, <2>8 DEF Retrying, Scalars
    <3>3. Load(j)' <= 1 + MaxRecovery + lost'[j]
      BY <1>0, <1>m, <2>1, <3>1, <3>2 DEF Scalars
    <3>4. row'[j].kept => Load(j)' <= 1 + row'[j].attempts + lost'[j]
      <4>1. CASE row[j].kept /\ row'[j].attempts = p.was.attempts + 1
        BY <1>0, <2>1, <3>1, <3>2, <4>1 DEF Scalars
      <4>2. CASE row'[j].attempts = row[j].attempts /\ lost'[j] = lost[j] + 1
        BY <1>0, <2>1, <2>8, <3>1, <3>2, <4>2 DEF Retrying, Scalars
      <4>3. CASE ~row[j].kept
        BY <2>8, <4>3 DEF Retrying
      <4> QED
        BY <2>8, <4>1, <4>2, <4>3 DEF Retrying
    <3>5. Todo(j)' \cup InHand(j)' = {}
      BY <2>8 DEF Retrying
    <3> QED
      BY <3>3, <3>4, <3>5
  <2> QED
    BY <2>1, <2>4, <2>5, <2>6, <2>7, <2>8 DEF RecoveryMoves
<1>5. CASE Boot \/ Forget
  <2>1. /\ UNCHANGED <<handled, taken, row, owed, runs>> /\ lost'[j] >= lost[j]
        /\ Todo(j)' = {} /\ InHand(j)' = {}
        /\ RestartKeeps(j) \/ RestartForgets(j)
    BY <1>5, WhatARestartDoes
  <2>2. Load(j)' <= Load(j)
    BY <1>0, <2>1 DEF RestartKeeps, RestartForgets, Load, Past, Scalars
  <2> QED
    BY <1>1, <2>1, <2>2
<1>6. CASE (\E m \in Msgs : Post(m) \/ Overlook(m) \/ Elapse(m)) \/ UNCHANGED channel
  <2>1. UNCHANGED <<lane, queue, turn, recovery, runs, lost, row>>
    BY <1>6 DEF Post, Overlook, Elapse, Slip, channel, database, memory, history
  <2>2. Load(j)' = Load(j)
    BY <2>1 DEF Load, At
  <2>3. Load(j)' <= Load(j) /\ lost'[j] >= lost[j]
    BY <1>0, <2>1, <2>2 DEF Load, Scalars
  <2> QED
    BY <1>1, <2>1, <2>3 DEF Todo, InHand
<1> QED
  BY <1>2, <1>3, <1>4, <1>5, <1>6 DEF ChannelStep, Work

\* Every step keeps charges settled or left to recover().
LEMMA PayHolds ==
  ASSUME Typed, ChannelStep, NEW j \in Jobs, GateOf(j), PayOf(j)
  PROVE  PayOf(j)'
<1>0. Scalars(j) /\ Scalars(j)'
  BY ScalarsNow, ScalarsNext, TypedStep
<1> USE DEF PayOf
<1>1. ASSUME UNCHANGED <<owed, turn, recovery>>, lost'[j] >= lost[j],
             Left(j) => UNCHANGED row[j] /\ Count(j, queue') = Count(j, queue) /\ (At(j)' \in {"ask", "mark", "rest", At(j)})
      PROVE  PayOf(j)'
  <2>1. CASE Settled(j)
    BY <1>0, <1>1, <2>1 DEF Settled, Charged, OnTurn, Scalars
  <2>2. CASE Left(j)
    BY <1>0, <1>1, <2>2 DEF Left, OnTurn, Todo, InHand, Scalars, Past
  <2> QED
    BY <2>1, <2>2
<1>2. ASSUME NEW l \in Lanes, TakeUp(l) PROVE PayOf(j)'
  <2>1. /\ UNCHANGED <<turn, recovery, runs, owed>>
        /\ lost'[j] >= lost[j]
        /\ LaneRests(j) \/ LaneMoves(j)
    BY <1>2, WhatALaneDoes
  <2>2. Left(j) => At(j) \notin {"mark", "admit", "push"}
    BY DEF Left, GateOf, Unknown, Past
  <2> QED
    BY <1>1, <2>1, <2>2 DEF LaneRests, LaneMoves
<1>3. CASE Pump
  <2>1. UNCHANGED <<taken, handled, lane, recovery>> /\ lost'[j] >= lost[j] /\ (PumpRests(j) \/ PumpMoves(j))
    BY <1>3, WhatThePumpDoes
  <2>2. Todo(j)' = Todo(j) /\ InHand(j)' = InHand(j) /\ At(j)' = At(j)
    BY <2>1 DEF Todo, InHand, At
  <2>3. CASE Left(j)
    <3>1. PumpRests(j)
      BY <1>0, <2>1, <2>3 DEF Left, PumpMoves, Scalars
    <3> QED
      BY <1>0, <2>1, <2>2, <2>3, <3>1 DEF Left, PumpRests, Scalars
  <2>4. CASE Settled(j)
    <3>1. owed'[j] <= lost'[j] + Charged(j)'
      BY <1>0, <2>1, <2>4 DEF Settled, Charged, PumpRests, PumpMoves, Scalars
    <3> QED
      BY <3>1 DEF Settled
  <2> QED
    BY <2>3, <2>4
<1>4. CASE Recover
  <2>1. UNCHANGED <<taken, handled, lane, turn, runs>> /\ lost'[j] >= lost[j] /\ (RecoveryRests(j) \/ RecoveryMoves(j))
    BY <1>4, WhatRecoveryDoes
  <2>2. At(j)' = At(j) /\ OnTurn(j)' = OnTurn(j) /\ Charged(j)' = Charged(j)
    BY <2>1 DEF At, OnTurn, Charged
  <2>3. CASE Settled(j)
    <3>1. owed'[j] <= owed[j]
      BY <1>0, <2>1 DEF RecoveryRests, RecoveryMoves, Listing, Refunding, GivingUp, Retrying, Scalars
    <3> QED
      BY <1>0, <2>1, <2>2, <2>3, <3>1 DEF Settled, Charged, Scalars
  <2>4. CASE Left(j)
    <3>1. CASE RecoveryRests(j) \/ Listing(j)
      BY <1>0, <2>1, <2>2, <2>4, <3>1 DEF Left, RecoveryRests, Listing, Scalars
    <3>2. ASSUME NEW p \in Interrupted, Refunding(j, p) PROVE PayOf(j)'
      <4>1. owed'[j] - lost'[j] <= owed[j] - lost[j] - 1
        BY <2>4, <3>2 DEF Left, Refunding
      <4>2. owed'[j] <= lost'[j] /\ Charged(j)' = 0
        BY <1>0, <2>2, <2>4, <4>1 DEF Left, Charged, Scalars
      <4> QED
        BY <1>0, <4>2 DEF Settled, Scalars
    <3> QED
      BY <2>1, <2>4, <3>1, <3>2 DEF Left, RecoveryMoves, GivingUp, Retrying
  <2> QED
    BY <2>3, <2>4
<1>5. CASE Boot \/ Forget
  <2>1. /\ UNCHANGED <<handled, taken, row, owed, runs>> /\ lost'[j] >= lost[j]
        /\ Todo(j)' = {} /\ InHand(j)' = {}
        /\ RestartKeeps(j) \/ RestartForgets(j)
    BY <1>5, WhatARestartDoes
  <2>2. CASE Left(j)
    BY <1>0, <2>1, <2>2 DEF Left, RestartKeeps, RestartForgets, Past, Scalars
  <2>3. CASE Settled(j) /\ RestartKeeps(j)
    BY <1>0, <2>1, <2>3 DEF Settled, Charged, RestartKeeps, Scalars
  <2>4. CASE Settled(j) /\ RestartForgets(j)
    <3>1. CASE Charged(j) = 0
      BY <1>0, <2>1, <2>4, <3>1 DEF Settled, Charged, RestartForgets, Scalars
    <3>2. CASE Charged(j) = 1 /\ lost'[j] = lost[j] + 1
      BY <1>0, <2>1, <2>4, <3>2 DEF Settled, Charged, RestartForgets, Scalars
    <3>3. CASE Charged(j) = 1 /\ row[j].kept /\ row[j].paid
      <4>1. Left(j)'
        BY <1>0, <2>1, <2>4, <3>3 DEF Left, Settled, RestartForgets, Past, Scalars
      <4> QED
        BY <4>1
    <3> QED
      BY <2>4, <3>1, <3>2, <3>3 DEF Charged, RestartForgets
  <2> QED
    BY <2>1, <2>2, <2>3, <2>4
<1>6. CASE (\E m \in Msgs : Post(m) \/ Overlook(m) \/ Elapse(m)) \/ UNCHANGED channel
  <2>1. UNCHANGED <<lane, queue, turn, recovery, owed, lost, row>>
    BY <1>6 DEF Post, Overlook, Elapse, Slip, channel, database, memory, history
  <2>2. lost'[j] >= lost[j]
    BY <1>0, <2>1 DEF Scalars
  <2> QED
    BY <1>1, <2>1, <2>2 DEF At
<1> QED
  BY <1>2, <1>3, <1>4, <1>5, <1>6 DEF ChannelStep, Work

\* The invariant holds of a channel that has done nothing.
LEMMA JobInit == Init => JobInv
<1> SUFFICES ASSUME Init, NEW j \in Jobs PROVE GateOf(j) /\ RunsOf(j) /\ PayOf(j)
  BY DEF JobInv
<1>1. Count(j, queue) = 0
  <2>1. queue \in Seq(Jobs) /\ DOMAIN queue = {}
    BY DEF Init
  <2> QED
    BY <2>1, CountNone
<1>2. At(j) = "rest" /\ OnTurn(j) = "rest" /\ Todo(j) = {} /\ InHand(j) = {}
  BY NothingAssumption DEF Init, AtRest, NoTurn, NotBooted, At, OnTurn, Todo, InHand, Jobs
<1>3. taken[j] = 0 /\ runs[j] = 0 /\ lost[j] = 0 /\ owed[j] = 0 /\ row[j] = NoRow
  BY DEF Init
<1>4. Unknown(j) /\ Load(j) = 0 /\ Charged(j) = 0
  BY <1>1, <1>2, <1>3, NoRowTyped DEF Unknown, Load, Charged, Past
<1>5. GateOf(j)
  BY <1>2, <1>3, <1>4 DEF GateOf, Past
<1>6. RunsOf(j)
  BY <1>2, <1>3, <1>4, NoRowTyped, BotAssumption DEF RunsOf
<1>7. PayOf(j)
  BY <1>3, <1>4 DEF PayOf, Settled
<1> QED
  BY <1>5, <1>6, <1>7

-----------------------------------------------------------------------------
(***************************************************************************)
(* Theorems about the channel.                                             *)
(***************************************************************************)

\* The inductive invariant, over every crash, reload and restart of the worker.
THEOREM ChannelInvariant == Spec => [](Typed /\ JobInv)
<1>1. InitAll => Typed /\ JobInv
  BY TypedInit, JobInit DEF InitAll
<1>2. Typed /\ JobInv /\ [Next]_vars => (Typed /\ JobInv)'
  <2>1. ASSUME Typed, JobInv, ChannelStep PROVE JobInv'
    <3>1. ASSUME NEW j \in Jobs PROVE GateOf(j)' /\ RunsOf(j)' /\ PayOf(j)'
      BY <2>1, <3>1, GateHolds, RunsHold, PayHolds DEF JobInv
    <3> QED
      BY <3>1 DEF JobInv
  <2> QED
    BY <2>1, TypedStep, StepsOfTheChannel
<1> QED
  BY <1>1, <1>2, PTL DEF Spec

\* Work is not repeated (feishu-bot.ts, wasMessageHandled and recover): a message
\* passes the gate once in each lane, and is run no more than the recovery allows,
\* whatever the number of restarts.
THEOREM WorkIsBounded == Spec => []WorkIsNotRepeated
<1>1. ASSUME Typed, JobInv, NEW j \in Jobs PROVE taken[j] <= 1 /\ runs[j] <= 1 + MaxRecovery + lost[j]
  <2>1. GateOf(j) /\ RunsOf(j) /\ Scalars(j)
    BY <1>1, ScalarsNow DEF JobInv
  <2>2. runs[j] <= Load(j) /\ Load(j) \in Nat
    BY <2>1 DEF Load, Scalars
  <2> QED
    BY <2>1, <2>2, BotAssumption DEF GateOf, RunsOf, Scalars
<1>2. Typed /\ JobInv => WorkIsNotRepeated
  BY <1>1 DEF WorkIsNotRepeated, TakenUpOncePerLane, RetriesAreBounded
<1> QED
  BY <1>2, ChannelInvariant, PTL

\* Payers are made whole (feishu-bot.ts, spendPt to removePendingReply, and the
\* refunds of recover): no charge outlives its reply unless a write failed or the
\* worker died between the charge and its flag.
THEOREM ChargesAreAccounted == Spec => []PayersAreMadeWhole
<1>1. ASSUME Typed, JobInv, NEW j \in Jobs, Quiet(j) PROVE owed[j] <= lost[j]
  <2>1. PayOf(j) /\ Scalars(j)
    BY <1>1, ScalarsNow DEF JobInv
  <2>2. Settled(j) /\ Charged(j) = 0
    BY <1>1, <2>1 DEF Quiet, PayOf, Left, Charged, OnTurn
  <2> QED
    BY <2>1, <2>2 DEF Settled, Scalars
<1>2. Typed /\ JobInv => PayersAreMadeWhole
  BY <1>1 DEF PayersAreMadeWhole
<1> QED
  BY <1>2, ChannelInvariant, PTL

\* The database, the memory and the counters of the channel keep their types.
THEOREM ChannelTyping == Spec => []TypeOK
<1>1. Typed /\ JobInv => TypeOK
  BY DEF Typed
<1> QED
  BY <1>1, ChannelInvariant, PTL

-----------------------------------------------------------------------------
(***************************************************************************)
(* The supervisor's processes.                                             *)
(***************************************************************************)

\* The composition with the channel is a behaviour of the supervisor's specification:
\* what Community_proofs shows of one (one worker at a time, no reload lost) holds
\* with the channel inside its workers too.
THEOREM WorkersAreSupervised == Spec => S!Spec
<1>1. InitAll => S!Init
  BY DEF InitAll
<1>2. [Next]_vars => [S!Next]_S!processes
  <2> SUFFICES ASSUME [Next]_vars PROVE S!Next \/ UNCHANGED S!processes
    OBVIOUS
  <2> USE DEF S!Next, S!Live
  <2>1. CASE Manage
    BY <2>1 DEF Manage
  <2>2. ASSUME NEW w \in Slots, Start(w) \/ End(w) \/ EndEarly(w) PROVE S!Next
    BY <2>2 DEF Start, End, EndEarly
  <2>3. CASE Hosted(Work) \/ Chat
    BY <2>3 DEF Hosted, Chat, processes, S!processes
  <2>4. CASE UNCHANGED vars
    BY <2>4 DEF vars, processes, S!processes
  <2> QED
    BY <2>1, <2>2, <2>3, <2>4 DEF Next
<1> QED
  BY <1>1, <1>2, PTL DEF Spec, S!Spec

=============================================================================
