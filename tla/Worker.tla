------------------------------- MODULE Worker -------------------------------
(***************************************************************************)
(* The supervisor's processes and the channel they run: the channel's      *)
(* memory is the serving worker's, and goes with it.                       *)
(***************************************************************************)
EXTENDS BotChannel

CONSTANTS
  Supervisors, Slots, Nobody, MaxBuilds, MaxFaults,
  MaxTrouble  \* bound: slips, faults and builds together

VARIABLES stage, pidFile, child, reloadQueued, debounce, respawns, proc, built, asked, faults

S == INSTANCE Supervisor

ASSUME Processes == S!ProcessesAssumption

processes == <<stage, pidFile, child, reloadQueued, debounce, respawns, proc,
               built, asked, faults>>
vars == <<channel, processes>>

InitAll == Init /\ S!Init

\* runWorker() reaches the channels' run().
Start(w) == S!Ready(w) /\ Boot

\* A worker with a running channel ends.
End(w) ==
  /\ recovery # NotBooted
  /\ S!Crash(w) \/ S!Stop(w)
  /\ Forget

\* One that had none ends.
EndEarly(w) ==
  /\ proc[w].at = "booting"
  /\ S!Crash(w)
  /\ UNCHANGED channel

Manage ==
  /\ \/ \E s \in Supervisors : S!Begin(s) \/ S!Supervise(s) \/ S!Shutdown(s)
     \/ \E w \in Slots : S!Block(w) \/ S!Unblock(w) \/ S!Interrupt(w)
     \/ S!Build
     \/ S!Hangup
  /\ UNCHANGED channel

\* One step of the channel, in the worker that serves.  A SIGTERM's handler
\* runs before any other step.
Serving == \E w \in Slots : proc[w].at = "serving"
Hosted(A) == Serving /\ A /\ UNCHANGED processes

\* The connection is made again every RECYCLE_MS, 20 minutes: while a worker
\* serves, only backfills that do not get to a message let it get too old.
Chat ==
  /\ \E m \in Msgs : Post(m) \/ Overlook(m) \/ (~Serving /\ Elapse(m))
  /\ UNCHANGED processes

Next ==
  /\ \/ Manage
     \/ \E w \in Slots : Start(w) \/ End(w) \/ EndEarly(w)
     \/ Hosted(Work)
     \/ Chat
  /\ slips' + faults' + built' <= MaxTrouble

\* Timers fire, exits are seen, workers that start get there or fail; the
\* connection is made again every RECYCLE_MS, so that a backfill comes to what
\* it still finds; the awaits of the lanes, of the pump and of recover() end.
Fairness ==
  /\ \A s \in Supervisors : WF_vars((S!Begin(s) \/ S!Supervise(s)) /\ UNCHANGED channel)
  /\ \A w \in Slots : WF_vars(Start(w)) /\ WF_vars(S!Stop(w) /\ Forget)
                      /\ WF_vars(S!Unblock(w) /\ UNCHANGED channel)
  /\ \A l \in Lanes : WF_vars(Hosted(Check(l) \/ Mark(l) \/ Intercept(l) \/ Persist(l) \/ Push(l)))
  /\ \A m \in Msgs : WF_vars(Hosted(Take("scan", m)))
  /\ WF_vars(Hosted(Pump))
  /\ WF_vars(Hosted(Recover))

Spec == InitAll /\ [][Next]_vars /\ Fairness

-----------------------------------------------------------------------------
\* A message passes the gate once in each lane, and one that keeps killing its
\* worker is given up after a fixed number of runs.
WorkIsNotRepeated == TakenUpOncePerLane /\ RetriesAreBounded

\* Nobody is left to answer: the supervisor is gone, or it took a SIGTERM
\* from outside to a starting worker for its own shutdown, or the listing of
\* interrupted replies failed and waits for another restart.
Forsaken ==
  \/ \A s \in Supervisors : stage[s] = "down"
  \/ \E s \in Supervisors : stage[s] = "up" /\ child[s] = Nobody /\ respawns[s] = 0 /\ ~debounce[s]
  \/ recovery.at = "failed"

\* Every mention is seen to, though events get lost, workers crash, hang, are
\* reloaded in the middle of an answer or of a recovery: at once when an event
\* came through, and otherwise when a backfill finds it within its look-back.
MentionsAreSeenTo ==
  \A m \in Msgs : m \in posted ~> SeenTo(m) \/ Forsaken \/ Missed(m)

=============================================================================
