----------------------------- MODULE SoulOutbox -----------------------------
(***************************************************************************)
(* The degradation path of the soul database (core/pg-outbox.ts, soulCircuit*)
(* of core/db.ts, installPgResilienceHooks of core/supervisor.ts).         *)
(*                                                                         *)
(* Every process has a breaker of its own.  An append-only write passes    *)
(* shouldDivertSoulWrites() once: it is sent to PostgreSQL, or appended to *)
(* the SQLite outbox all processes share.  Only the supervisor replays the *)
(* outbox: when its breaker closes, and from a five-minute sweep.  All     *)
(* other soul queries are not gated but report their outcome, and one      *)
(* replay does not keep another from starting.                             *)
(***************************************************************************)
EXTENDS PgCircuitBreaker, FiniteSets

CONSTANTS
  Procs,       \* processes on the machine: the workers, the supervisor
  Supervisor,
  Writes,      \* append-only writes the system makes
  Writer,      \* [Writes -> Procs]: who makes each
  Keyed,       \* the writes whose table has a unique key
  Replays,     \* bound: replays followed at a time
  NoWrite,
  LostAnswers, \* whether an INSERT may take effect and its answer get lost
  MaxCrashes   \* bound: process crashes

ASSUME OutboxAssumption ==
  /\ Supervisor \in Procs
  /\ IsFiniteSet(Writes)
  /\ Writer \in [Writes -> Procs]
  /\ NoWrite \notin Writes
  /\ LostAnswers \in BOOLEAN
  /\ MaxCrashes \in Nat

VARIABLES
  breaker,  \* [Procs -> Breaker]: soulCircuit of each process
  stage,    \* [Writes -> Stage]: what became of each write
  row,      \* [Writes -> Nat]: its pg_outbox.id, 0 when it is not in there
  marked,   \* the writes whose pg_outbox row has a replayed_at
  copies,   \* [Writes -> 0 .. 2]: its rows in PostgreSQL, 2 is several
  replay,   \* [Replays -> Replay]
  up,       \* PostgreSQL answers
  crashes

vars == <<breaker, stage, row, marked, copies, replay, up, crashes>>

Stage == {"new", "sent", "landed", "diverted", "failed"}

\* A run of replayOutbox(): the rows of its SELECT it has not dealt with yet,
\* and the one whose INSERT has answered and which it is about to mark.
Replay == [todo : SUBSET Writes, acked : Writes \cup {NoWrite}]
Done == [todo |-> {}, acked |-> NoWrite]

Init ==
  /\ breaker = [p \in Procs |-> Fresh]
  /\ stage = [w \in Writes |-> "new"]
  /\ row = [w \in Writes |-> 0]
  /\ marked = {}
  /\ copies = [w \in Writes |-> 0]
  /\ replay = [k \in Replays |-> Done]
  /\ up = TRUE
  /\ crashes = 0

Enqueued == {w \in Writes : row[w] # 0}
Pending == Enqueued \ marked

\* INSERT ... ON CONFLICT DO NOTHING.
Inserted(ws) ==
  [w \in Writes |-> IF w \notin ws THEN copies[w]
                    ELSE IF w \in Keyed \/ copies[w] = 0 THEN 1 ELSE 2]

\* The answer to an INSERT is lost; it may have taken effect all the same.
Unanswered(ws) ==
  \E landed \in SUBSET ws :
    /\ landed # {} => LostAnswers
    /\ copies' = Inserted(landed)

\* recordSuccess() in process p.  When it closes the supervisor's breaker, the
\* listener starts a replay then and there: its SELECT runs before the caller
\* of recordSuccess() does anything else.  runs is replay but for that.
Succeed(p, runs) ==
  LET starts == {k \in Replays : runs[k] = Done}
  IN  /\ breaker' = [breaker EXCEPT ![p] = AfterSuccess(@)]
      /\ IF p = Supervisor /\ breaker[p].state # "closed" /\ starts # {}
           THEN \E k \in starts : replay' = [runs EXCEPT ![k].todo = Pending]
           ELSE replay' = runs

\* A failure in process p, laid at PostgreSQL's door or not.
Fail(p) ==
  \/ ~up /\ breaker' = [breaker EXCEPT ![p] = AfterFailure(@)]
  \/ UNCHANGED breaker

-----------------------------------------------------------------------------
\* shouldDivertSoulWrites() is false: the write is attempted.
Send(w) ==
  LET p == Writer[w] IN
  /\ stage[w] = "new"
  /\ Allows(breaker[p])
  /\ breaker' = [breaker EXCEPT ![p] = AfterRequest(@)]
  /\ stage' = [stage EXCEPT ![w] = "sent"]
  /\ UNCHANGED <<row, marked, copies, replay, up, crashes>>

\* It is true: enqueueOutboxWrite, which SQLite serialises.
Divert(w) ==
  /\ stage[w] = "new"
  /\ ~Allows(breaker[Writer[w]])
  /\ stage' = [stage EXCEPT ![w] = "diverted"]
  /\ row' = [row EXCEPT ![w] = Cardinality(Enqueued) + 1]
  /\ UNCHANGED <<breaker, marked, copies, replay, up, crashes>>

Landed(w) ==
  /\ stage[w] = "sent"
  /\ up
  /\ stage' = [stage EXCEPT ![w] = "landed"]
  /\ copies' = Inserted({w})
  /\ Succeed(Writer[w], replay)
  /\ UNCHANGED <<row, marked, up, crashes>>

\* The caller gets the error (or swallows it); nothing retries the write.
Failed(w) ==
  /\ stage[w] = "sent"
  /\ stage' = [stage EXCEPT ![w] = "failed"]
  /\ Unanswered({w})
  /\ Fail(Writer[w])
  /\ UNCHANGED <<row, marked, replay, up, crashes>>

\* getDb() and tx() are not gated: every other soul query, COMMIT or connect.
Query(p) ==
  /\ up
  /\ Succeed(p, replay)
  /\ UNCHANGED <<stage, row, marked, copies, up, crashes>>

QueryFailed(p) ==
  /\ ~up
  /\ breaker' = [breaker EXCEPT ![p] = AfterFailure(@)]
  /\ UNCHANGED <<stage, row, marked, copies, replay, up, crashes>>

-----------------------------------------------------------------------------
\* The sweep looks for "open" only: a half-open breaker does not hold it back.
Sweep(k) ==
  /\ breaker[Supervisor].state # "open"
  /\ Pending # {}
  /\ replay[k] = Done
  /\ replay' = [replay EXCEPT ![k].todo = Pending]
  /\ UNCHANGED <<breaker, stage, row, marked, copies, up, crashes>>

\* The row replay k is at: ORDER BY id ASC.
Current(k, w) == w \in replay[k].todo /\ \A v \in replay[k].todo : row[w] <= row[v]

\* Its INSERT has been sent.
Inserting(k, w) == Current(k, w) /\ replay[k].acked = NoWrite

Without(k, w) == [todo |-> replay[k].todo \ {w}, acked |-> NoWrite]

ReplayInsert(k, w) ==
  /\ Inserting(k, w)
  /\ up
  /\ copies' = Inserted({w})
  /\ Succeed(Supervisor, [replay EXCEPT ![k].acked = w])
  /\ UNCHANGED <<stage, row, marked, up, crashes>>

\* Mutant of ReplayFail: a row that could not be inserted is marked as well.
ReplayFailMarks(k, w) ==
  /\ Inserting(k, w)
  /\ Unanswered({w})
  /\ Fail(Supervisor)
  /\ marked' = marked \cup {w}
  /\ replay' = [replay EXCEPT ![k] = Without(k, w)]
  /\ UNCHANGED <<stage, row, up, crashes>>

\* Mutant of ReplayFail: a row that cannot be inserted ends the whole replay.
ReplayFailStops(k, w) ==
  /\ Inserting(k, w)
  /\ Unanswered({w})
  /\ Fail(Supervisor)
  /\ replay' = [replay EXCEPT ![k] = Done]
  /\ UNCHANGED <<stage, row, marked, up, crashes>>

\* In an outage, or because PostgreSQL refuses the row: it is left for the next
\* replay and this one goes on.  (The placeholder chats row a message needs is
\* one of Query's statements.)
ReplayFail(k, w) ==
  /\ Inserting(k, w)
  /\ Unanswered({w})
  /\ Fail(Supervisor)
  /\ replay' = [replay EXCEPT ![k] = Without(k, w)]
  /\ UNCHANGED <<stage, row, marked, up, crashes>>

\* Back from the await: UPDATE pg_outbox SET replayed_at.
ReplayMark(k, w) ==
  /\ replay[k].acked = w
  /\ marked' = marked \cup {w}
  /\ replay' = [replay EXCEPT ![k] = Without(k, w)]
  /\ UNCHANGED <<breaker, stage, row, copies, up, crashes>>

\* The UPDATE throws (SQLite is busy): the row has landed and stays pending.
ReplayMarkFail(k, w) ==
  /\ replay[k].acked = w
  /\ replay' = [replay EXCEPT ![k] = Without(k, w)]
  /\ UNCHANGED <<breaker, stage, row, marked, copies, up, crashes>>

-----------------------------------------------------------------------------
Tick(p) ==
  /\ breaker[p].cooldown > 0
  /\ breaker' = [breaker EXCEPT ![p] = AfterTick(@)]
  /\ UNCHANGED <<stage, row, marked, copies, replay, up, crashes>>

\* What process p has on the wire.
OnTheWire(p) ==
  {w \in Writes : stage[w] = "sent" /\ Writer[w] = p}
  \cup {w \in Writes : p = Supervisor /\ \E k \in Replays : Inserting(k, w)}

\* A process dies and is started again: its breaker and replays are gone.
Crash(p) ==
  /\ crashes < MaxCrashes
  /\ crashes' = crashes + 1
  /\ Unanswered(OnTheWire(p))
  /\ breaker' = [breaker EXCEPT ![p] = Fresh]
  /\ stage' = [w \in Writes |-> IF stage[w] = "sent" /\ Writer[w] = p THEN "failed"
                                                                     ELSE stage[w]]
  /\ replay' = IF p = Supervisor THEN [k \in Replays |-> Done] ELSE replay
  /\ UNCHANGED <<row, marked, up>>

\* PostgreSQL stops or starts answering.
Toggle ==
  /\ up' = ~up
  /\ UNCHANGED <<breaker, stage, row, marked, copies, replay, crashes>>

Write(w) == Send(w) \/ Divert(w) \/ Landed(w) \/ Failed(w)
ReplayStep(k) ==
  \E w \in Writes : \/ ReplayInsert(k, w)
                   \/ ReplayFail(k, w)
                   \/ ReplayMark(k, w)
                   \/ ReplayMarkFail(k, w)
Process(p) == Query(p) \/ QueryFailed(p) \/ Tick(p) \/ Crash(p)

Next ==
  \/ \E w \in Writes : Write(w)
  \/ \E k \in Replays : Sweep(k) \/ ReplayStep(k)
  \/ \E p \in Procs : Process(p)
  \/ Toggle

Spec == Init /\ [][Next]_vars

\* The sweep is a timer, a replay awaits statements with timeouts, and every
\* process goes on making ungated queries (messages polled, schedules read).
FairSpec ==
  /\ Spec
  /\ \A k \in Replays : WF_vars(Sweep(k)) /\ WF_vars(ReplayStep(k))
  /\ \A p \in Procs : WF_vars(Query(p))

-----------------------------------------------------------------------------
\* Every breaker, outbox row and replay has its type.
TypeOK ==
  /\ breaker \in [Procs -> Breaker]
  /\ stage \in [Writes -> Stage]
  /\ row \in [Writes -> Nat]
  /\ marked \subseteq Writes
  /\ copies \in [Writes -> 0 .. 2]
  /\ replay \in [Replays -> Replay]
  /\ up \in BOOLEAN
  /\ crashes \in 0 .. MaxCrashes

\* A write its caller was told is accepted is in PostgreSQL or waits in the
\* outbox, through outages, crashes of either process, lost answers and
\* overlapping replays: replayed_at is never set on a row that did not land.
AcceptedNeverLost ==
  \A w \in Writes :
    stage[w] \in {"landed", "diverted"} => copies[w] > 0 \/ w \in Pending

\* Row w stays in the outbox although PostgreSQL answers: it is refused, or
\* landed and could not be marked.
Refused(w) == \E k \in Replays : (up /\ ReplayFail(k, w)) \/ ReplayMarkFail(k, w)

\* Once PostgreSQL answers for good, a row that is not itself refused for ever
\* leaves the backlog, though other rows are refused at every replay and the
\* supervisor may have crashed or never seen the outage itself.
BacklogDrains ==
  \A w \in Writes : <>[]up /\ <>[][~Refused(w)]_vars => <>[](w \notin Pending)

\* Once PostgreSQL answers for good no process goes on diverting: ungated
\* queries close even a breaker whose probe was never answered for.
DiversionEnds == <>[]up => <>[](\A p \in Procs : breaker[p].state = "closed")

\* "a re-run only ever retries what genuinely never landed" (replayOutbox):
\* no row lands twice where no process crashes and no answer is lost.
LandsOnce == \A w \in Writes : copies[w] < 2

=============================================================================
