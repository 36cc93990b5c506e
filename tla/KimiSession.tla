----------------------------- MODULE KimiSession -----------------------------
(***************************************************************************)
(* The kimi sessions of one chat (core/agent.ts, core/kimi-session.ts) and *)
(* what keeps a poisoned one from costing an answer.  A session whose wire *)
(* has a tool.call without its tool.result is rejected when it is resumed; *)
(* an interrupted turn leaves one behind, perhaps without an index line.   *)
(* The worker repairs inline and at its start, the janitor of another      *)
(* process sweeps on a timer, and kimi itself may outlive its worker.      *)
(***************************************************************************)
EXTENDS Naturals, FiniteSets, FiniteSetsExt

CONSTANTS
  Sessions,      \* bound: 1 .. n, in the order of their creation
  MaxRetries,    \* kimiProfile.maxRetries (1 in the code)
  MaxFailures    \* bound: interrupted turns and deaths of the worker

VARIABLES
  dir,        \* [Sessions -> ...]: the session's directory and its wire
  lines,      \* the sessions with a line in session_index.jsonl
  alive,      \* the sessions a kimi process is running in
  turn,       \* the message being answered (runWithHealAsync)
  working,    \* the worker runs
  janitor,    \* [found, mid, read]: the sweep
  troubles    \* bound

\* kimiProfile.maxRetries: a failed attempt is repeated at least once.
KimiAssumption ==
  MaxRetries \in Nat \ {0} /\ Sessions \subseteq Nat \ {0} /\ IsFiniteSet(Sessions)

sessionVars == <<dir, lines, alive, turn, working, janitor, troubles>>

Kinds == {"corrupt-session", "session-missing", "transient", "timeout", "content-rejected",
          "unknown"}

\* KimiError.retryable (empty-output is taken with transient).
Retryable == {"corrupt-session", "session-missing", "transient"}

NoTurn == [at |-> "idle", on |-> 0, cont |-> TRUE, attempt |-> 1, reduced |-> FALSE,
           kind |-> "unknown", hurt |-> FALSE]
Resting == [found |-> {}, mid |-> 0, read |-> {}]

Init ==
  /\ dir = [s \in Sessions |-> "none"]
  /\ lines = {} /\ alive = {}
  /\ turn = NoTurn /\ working = TRUE
  /\ janitor = Resting /\ troubles = 0

OnDisk == {s \in Sessions : dir[s] \in {"paired", "orphan"}}

\* siblingSessionDirs(), and the workDir scanCorruptSessions() looks up: a chat
\* none of whose sessions is in the index is not seen.
Seen == IF lines = {} THEN {} ELSE OnDisk

\* validateSession().
Corrupt == {s \in Seen : dir[s] = "orphan"}

\* quarantineSession() of each: the index lines, then the directories.
Quarantine(gone) ==
  /\ lines' = lines \ gone
  /\ dir' = [s \in Sessions |-> IF s \in gone THEN "moved" ELSE dir[s]]

\* resolveSessionDir(): by the index alone.
Resolved == {s \in lines \cap OnDisk : \A t \in lines \cap OnDisk : t <= s}

-----------------------------------------------------------------------------
\* respondAsync() with a session.
Ask ==
  /\ working /\ turn.at = "idle"
  /\ turn' = [NoTurn EXCEPT !.at = "launch"]
  /\ UNCHANGED <<dir, lines, alive, working, janitor, troubles>>

\* runKimiAsync(): --continue resumes the newest directory, in the index or not.
Resume ==
  /\ turn.at = "launch" /\ turn.cont /\ OnDisk # {}
  /\ IF dir[Max(OnDisk)] = "orphan"
       THEN /\ turn' = [turn EXCEPT !.at = "failed", !.kind = "corrupt-session"]
            /\ UNCHANGED alive
       ELSE /\ turn' = [turn EXCEPT !.at = "run", !.on = Max(OnDisk)]
            /\ alive' = alive \cup {Max(OnDisk)}
  /\ UNCHANGED <<dir, lines, working, janitor, troubles>>

\* Without it, or with nothing to resume, a session is created ...
Create ==
  /\ turn.at = "launch" /\ (turn.cont => OnDisk = {})
  /\ \E s \in Sessions :
       /\ dir[s] = "none" /\ \A t \in Sessions : dir[t] = "none" => s <= t
       /\ dir' = [dir EXCEPT ![s] = "paired"]
       /\ alive' = alive \cup {s}
       /\ turn' = [turn EXCEPT !.at = "run", !.on = s]
  /\ UNCHANGED <<lines, working, janitor, troubles>>

\* ... or, of --continue, kimi says that there is none.
NoneToResume ==
  /\ turn.at = "launch" /\ turn.cont /\ OnDisk = {}
  /\ turn' = [turn EXCEPT !.at = "failed", !.kind = "session-missing"]
  /\ UNCHANGED <<dir, lines, alive, working, janitor, troubles>>

\* A tool call and its result, of the turn's kimi or of one that was left behind.
Call(s) ==
  /\ s \in alive
  /\ \/ dir[s] = "paired" /\ dir' = [dir EXCEPT ![s] = "orphan"]
     \/ dir[s] = "orphan" /\ dir' = [dir EXCEPT ![s] = "paired"]
  /\ UNCHANGED <<lines, alive, turn, working, janitor, troubles>>

\* The turn is over: the index has its session.  In a directory that was moved
\* away the process carries on with what it has.
Answer ==
  /\ turn.at = "run" /\ dir[turn.on] # "orphan"
  /\ lines' = lines \cup {turn.on}
  /\ alive' = alive \ {turn.on}
  /\ turn' = NoTurn
  /\ UNCHANGED <<dir, working, janitor, troubles>>

\* Or the process ends early; its line is written or it is not.
KimiEnds(s) ==
  /\ alive' = alive \ {s}
  /\ lines' \in {lines, lines \cup {s}}

Interrupted(kind) ==
  /\ turn.at = "run" /\ troubles < MaxFailures
  /\ kind \notin {"corrupt-session", "session-missing"}
  /\ KimiEnds(turn.on)
  /\ turn' = [turn EXCEPT !.at = "failed", !.kind = kind, !.hurt = TRUE]
  /\ troubles' = troubles + 1
  /\ UNCHANGED <<dir, working, janitor>>

TakenAway ==
  /\ turn.at = "run" /\ dir[turn.on] = "moved"
  /\ KimiEnds(turn.on)
  /\ \E kind \in {"session-missing", "unknown"} :
       turn' = [turn EXCEPT !.at = "failed", !.kind = kind, !.hurt = TRUE]
  /\ UNCHANGED <<dir, working, janitor, troubles>>

\* healSession() of processAttemptError(): all the corrupt ones of the chat, or
\* the newest of the index after a timeout.
Heal ==
  /\ turn.at = "failed"
  /\ CASE turn.kind = "corrupt-session" -> Quarantine(Corrupt)
       [] turn.kind = "timeout" -> Quarantine(Resolved \cap Corrupt)
       [] OTHER -> UNCHANGED <<dir, lines>>
  /\ turn' = [turn EXCEPT !.at = "healed"]
  /\ UNCHANGED <<alive, working, janitor, troubles>>

WillRetry == turn.kind \in Retryable /\ turn.attempt <= MaxRetries /\ ~turn.reduced
WillReduce == turn.kind = "content-rejected" /\ ~turn.reduced

\* Mutated Retry: after a repair the session is resumed again.
RetryResuming ==
  /\ turn.at = "healed" /\ WillRetry
  /\ turn' = [turn EXCEPT !.at = "launch", !.attempt = @ + 1]
  /\ UNCHANGED <<dir, lines, alive, working, janitor, troubles>>

\* Once recordFailure() returns: again, afresh when the session was at fault.
Retry ==
  /\ turn.at = "healed" /\ WillRetry
  /\ turn' = [turn EXCEPT !.at = "launch", !.attempt = @ + 1,
                          !.cont = @ /\ turn.kind = "transient"]
  /\ UNCHANGED <<dir, lines, alive, working, janitor, troubles>>

\* The reduced prompt, once, in a fresh session.
Reduce ==
  /\ turn.at = "healed" /\ WillReduce
  /\ turn' = [turn EXCEPT !.at = "launch", !.cont = FALSE, !.reduced = TRUE]
  /\ UNCHANGED <<dir, lines, alive, working, janitor, troubles>>

\* finalHeal(); the user gets an apology.
GiveUp ==
  /\ turn.at = "healed" /\ ~WillRetry /\ ~WillReduce
  /\ Quarantine(Corrupt)
  /\ turn' = [turn EXCEPT !.at = "sorry"]
  /\ UNCHANGED <<alive, working, janitor, troubles>>

Apologise ==
  /\ turn.at = "sorry"
  /\ turn' = NoTurn
  /\ UNCHANGED <<dir, lines, alive, working, janitor, troubles>>

-----------------------------------------------------------------------------
\* The worker dies or is replaced in the middle of a turn, with its kimi or
\* without it.
Fall ==
  /\ working /\ troubles < MaxFailures
  /\ working' = FALSE /\ turn' = NoTurn /\ troubles' = troubles + 1
  /\ \/ turn.at = "run" /\ KimiEnds(turn.on)
     \/ UNCHANGED <<alive, lines>>
  /\ UNCHANGED <<dir, janitor>>

\* One that was left behind ends.
LeftBehind(s) ==
  /\ s \in alive /\ (turn.at = "run" => s # turn.on)
  /\ KimiEnds(s)
  /\ UNCHANGED <<dir, turn, working, janitor, troubles>>

\* runWorker(): the startup cleanup; when the skills changed, reloadSoulIfChanged()
\* takes every session.
Rise ==
  /\ ~working
  /\ working' = TRUE
  /\ Quarantine(Corrupt) \/ Quarantine(Seen)
  /\ UNCHANGED <<alive, turn, janitor, troubles>>

\* The janitor (and doctor --fix): the list, then for each the index is read,
\* and written without that line; lines added in between are lost.
Sweep ==
  /\ janitor = Resting /\ Corrupt # {}
  /\ janitor' = [Resting EXCEPT !.found = Corrupt]
  /\ UNCHANGED <<dir, lines, alive, turn, working, troubles>>

SweepRead(s) ==
  /\ janitor.mid = 0 /\ s \in janitor.found
  /\ janitor' = IF s \in OnDisk
                  THEN [found |-> janitor.found \ {s}, mid |-> s, read |-> lines]
                  ELSE [janitor EXCEPT !.found = @ \ {s}]
  /\ UNCHANGED <<dir, lines, alive, turn, working, troubles>>

SweepWrite ==
  /\ janitor.mid # 0
  /\ lines' = janitor.read \ {janitor.mid}
  /\ dir' = [dir EXCEPT ![janitor.mid] = "moved"]
  /\ janitor' = [Resting EXCEPT !.found = janitor.found]
  /\ UNCHANGED <<alive, turn, working, troubles>>

Next ==
  \/ Ask \/ Resume \/ Create \/ NoneToResume \/ Answer \/ TakenAway
  \/ \E kind \in Kinds : Interrupted(kind)
  \/ Heal \/ Retry \/ Reduce \/ GiveUp \/ Apologise
  \/ Fall \/ Rise \/ Sweep \/ SweepWrite
  \/ \E s \in Sessions : Call(s) \/ LeftBehind(s) \/ SweepRead(s)

-----------------------------------------------------------------------------
\* The types of the sessions and the turn.
TypeOK ==
  /\ dir \in [Sessions -> {"none", "paired", "orphan", "moved"}]
  /\ {lines, alive} \subseteq SUBSET Sessions
  /\ turn \in [at : {"idle", "launch", "run", "failed", "healed", "sorry"},
               on : Sessions \cup {0}, cont : BOOLEAN, attempt : 1 .. MaxRetries + 1,
               reduced : BOOLEAN, kind : Kinds, hurt : BOOLEAN]
  /\ working \in BOOLEAN
  /\ janitor \in [found : SUBSET Sessions, mid : Sessions \cup {0}, read : SUBSET Sessions]

\* "Ensure the next inbound message never inherits a poisoned session": a user is
\* told that the answer failed only after a fault of that very turn, whatever
\* earlier turns, workers and sweeps left in the directory and the index.
PoisonIsNotInherited == turn.at = "sorry" => turn.hurt

Spec == Init /\ [][Next]_sessionVars

=============================================================================
