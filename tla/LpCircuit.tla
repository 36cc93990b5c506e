----------------------------- MODULE LpCircuit -----------------------------
(***************************************************************************)
(* The callers of the shared LP pool behind lpCircuit (core/db.ts: lpTx,   *)
(* getLpDb, pgExecutor, the pool's error event).  A call passes the gate   *)
(* once and then reports some of its outcomes to the breaker: statements   *)
(* run through pgExecutor and a COMMIT that succeeds do, but a BEGIN, a    *)
(* COMMIT or a callback that throws does not, nor does a failure that      *)
(* shouldCountAsCircuitFailure lays at the door of SQL or of a stalled     *)
(* event loop.                                                             *)
(***************************************************************************)
EXTENDS PgCircuitBreaker

CONSTANT Calls   \* callers in flight at a time

VARIABLES
  lpCircuit,  \* the breaker of that name
  calling,    \* [Calls -> Calling]: how far each call is
  probe,      \* history: {the call that claimed the last probe slot}
  pgUp        \* PostgreSQL answers

lpVars == <<lpCircuit, calling, probe, pgUp>>

Calling == {"idle",       \* not calling
          "connecting", \* lpTx: waiting for pool.connect()
          "begin",      \* lpTx: BEGIN sent on the raw client
          "body",       \* lpTx: inside fn, statements go through pgExecutor
          "executor"}   \* getLpDb() returned an executor on the pool

LpInit ==
  /\ lpCircuit = Fresh
  /\ calling = [c \in Calls |-> "idle"]
  /\ probe = {}
  /\ pgUp = TRUE

Goto(c, s) == calling' = [calling EXCEPT ![c] = s]

Leave(c) == Goto(c, "idle")

-----------------------------------------------------------------------------
\* The gate of lpTx() and getLpDb(): past it, or PgUnavailableError.
Enter(c, s) ==
  /\ calling[c] = "idle"
  /\ Allows(lpCircuit)
  /\ lpCircuit' = AfterRequest(lpCircuit)
  /\ probe' = IF lpCircuit.state = "closed" THEN probe ELSE {c}
  /\ Goto(c, s)
  /\ UNCHANGED pgUp

LpTx(c) == Enter(c, "connecting")
GetLpDb(c) == Enter(c, "executor")

Connected(c) ==
  /\ calling[c] = "connecting"
  /\ pgUp
  /\ Goto(c, "begin")
  /\ UNCHANGED <<lpCircuit, probe, pgUp>>

\* BEGIN and the ROLLBACK after it report nothing.
Begun(c) ==
  /\ calling[c] = "begin"
  /\ pgUp
  /\ Goto(c, "body")
  /\ UNCHANGED <<lpCircuit, probe, pgUp>>

\* pgExecutor: a statement that works closes the breaker.
StatementOk(c) ==
  /\ calling[c] \in {"body", "executor"}
  /\ pgUp
  /\ lpCircuit' = AfterSuccess(lpCircuit)
  /\ UNCHANGED <<calling, probe, pgUp>>

\* connect() or a statement fails and the failure counts.
CountedFailure(c) ==
  /\ calling[c] \in {"connecting", "body", "executor"}
  /\ ~pgUp
  /\ lpCircuit' = AfterFailure(lpCircuit)
  /\ Leave(c)
  /\ UNCHANGED <<probe, pgUp>>

\* The call ends and the breaker hears nothing of it: an SQL error, a failure
\* while the event loop was blocked, a raw BEGIN or COMMIT that fails, a
\* callback that throws or an executor nobody queries.
SilentEnd(c) ==
  /\ calling[c] # "idle"
  /\ Leave(c)
  /\ UNCHANGED <<lpCircuit, probe, pgUp>>

\* COMMIT answers, or an executor has been used for the last time.
Commit(c) ==
  /\ calling[c] = "body"
  /\ pgUp
  /\ lpCircuit' = AfterSuccess(lpCircuit)
  /\ Leave(c)
  /\ UNCHANGED <<probe, pgUp>>

\* An idle pooled connection is reset: the pool's error event.
PoolError ==
  /\ ~pgUp
  /\ lpCircuit' = AfterFailure(lpCircuit)
  /\ UNCHANGED <<calling, probe, pgUp>>

LpTick ==
  /\ lpCircuit.cooldown > 0
  /\ lpCircuit' = AfterTick(lpCircuit)
  /\ UNCHANGED <<calling, probe, pgUp>>

\* PostgreSQL stops or starts answering.
LpToggle ==
  /\ pgUp' = ~pgUp
  /\ UNCHANGED <<lpCircuit, calling, probe>>

Step(c) ==
  \/ LpTx(c)
  \/ GetLpDb(c)
  \/ Connected(c)
  \/ Begun(c)
  \/ StatementOk(c)
  \/ CountedFailure(c)
  \/ SilentEnd(c)
  \/ Commit(c)

LpNext == (\E c \in Calls : Step(c)) \/ PoolError \/ LpTick \/ LpToggle

LpSpec == LpInit /\ [][LpNext]_lpVars

\* Time passes, and callers keep coming (the schedulers and chat commands go
\* on calling the LP store) and end: connect() and statements have timeouts.
Progress(c) == Connected(c) \/ Begun(c) \/ Commit(c) \/ CountedFailure(c) \/ SilentEnd(c)

LpFairSpec ==
  /\ LpSpec
  /\ WF_lpVars(LpTick)
  /\ \A c \in Calls : WF_lpVars(LpTx(c)) /\ WF_lpVars(Progress(c))

-----------------------------------------------------------------------------
LpTypeOK ==
  /\ lpCircuit \in Breaker
  /\ calling \in [Calls -> Calling]
  /\ probe \subseteq Calls
  /\ pgUp \in BOOLEAN

\* The probe slot is taken exactly while the breaker is half-open: no success,
\* failure or late answer from an earlier call ever leaves a slot claimed in a
\* closed or open breaker, or frees it within a half-open window.
SlotIsTheWindow == lpCircuit.probing <=> lpCircuit.state = "half-open"

\* "half-open (exactly one probe allowed through)": while the breaker is
\* half-open nobody passes the gate, so a burst of callers cannot turn the
\* probe into a stampede.
OneProbePerWindow ==
  [][\A c \in Calls :
       lpCircuit.state = "half-open" /\ calling[c] = "idle" => calling'[c] = "idle"]_lpVars

\* The call that claimed the half-open breaker's slot has ended and reported
\* nothing (as in LpHalfOpen's trace): nobody but a straggler can close it.
Forsaken == lpCircuit.state = "half-open" /\ \A c \in probe : calling[c] = "idle"

\* Once PostgreSQL answers for good, calls are let through for good: the breaker
\* does not stay open, nor half-open with its probe under way, nor keep coming
\* back to either.  The one way it goes on refusing is a probe that ended
\* without recordSuccess() or recordFailure(); failures of earlier calls that
\* come in late, lost timers and bursts of callers are none.
OutageEnds == <>[]pgUp => <>[](lpCircuit.state = "closed" \/ Forsaken)

\* "half-open ... -> closed again on that probe's success, or straight back to
\* open on its failure" (class comment): a half-open breaker is left again.
HalfOpenResolves == lpCircuit.state = "half-open" ~> lpCircuit.state # "half-open"

=============================================================================
