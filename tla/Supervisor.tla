----------------------------- MODULE Supervisor -----------------------------
(***************************************************************************)
(* The life of serve's processes (core/supervisor.ts, runSupervisor):      *)
(* a supervisor guards the pid file, runs one worker at a time in a child  *)
(* process, starts it again when it crashes and swaps it for a new one     *)
(* when SIGHUP announces a new build.  Signals, exits, exit events and     *)
(* timers come in any order.                                               *)
(***************************************************************************)
EXTENDS Naturals

CONSTANTS
  Supervisors,  \* invocations of `serve --sup`
  Slots,        \* bound: worker processes at a time, as numbers
  Nobody,
  MaxBuilds,    \* bound: successful `agent update`s
  MaxFaults     \* bound: crashes, signals from outside and blocked event loops

ProcessesAssumption ==
  /\ Nobody \notin Supervisors \cup Slots
  /\ Slots \subseteq Nat
  /\ MaxBuilds \in Nat
  /\ MaxFaults \in Nat

VARIABLES
  stage,         \* [Supervisors -> {"off", "checked", "up", "down"}]
  pidFile,       \* whose pid serve.pid holds
  child,         \* [Supervisors -> Slots or Nobody]
  reloadQueued,  \* [Supervisors -> BOOLEAN]
  debounce,      \* [Supervisors -> BOOLEAN]: the SIGHUP timer is set
  respawns,      \* [Supervisors -> Nat]: crash timers that have not fired
  proc,          \* [Slots -> Process]
  built,         \* the build on disk
  asked,         \* [Supervisors -> Nat]: the build of its last SIGHUP
  faults

processes == <<stage, pidFile, child, reloadQueued, debounce, respawns, proc,
               built, asked, faults>>

\* A worker process: where it is, who spawned it, its build, whether kill()
\* has set child.killed, whether a grace timer waits for it, and whether
\* SIGTERM itself ended it.
Running == {"booting", "serving", "blocked", "told"}
Process == [at : Running \cup {"free", "gone"}, by : Supervisors \cup {Nobody},
            born : 0 .. MaxBuilds, killed : BOOLEAN, grace : BOOLEAN, term : BOOLEAN]
Free == [at |-> "free", by |-> Nobody, born |-> 0,
         killed |-> FALSE, grace |-> FALSE, term |-> FALSE]

Init ==
  /\ stage = [s \in Supervisors |-> "off"]
  /\ pidFile = Nobody
  /\ child = [s \in Supervisors |-> Nobody]
  /\ reloadQueued = [s \in Supervisors |-> FALSE]
  /\ debounce = [s \in Supervisors |-> FALSE]
  /\ respawns = [s \in Supervisors |-> 0]
  /\ proc = [w \in Slots |-> Free]
  /\ built = 0
  /\ asked = [s \in Supervisors |-> 0]
  /\ faults = 0

Up(s) == stage[s] = "up"
Alive == {w \in Slots : proc[w].at \in Running}

-----------------------------------------------------------------------------
\* startChild() of s, with `others` what the processes are otherwise.
StartChild(s, others) ==
  \E w \in Slots :
    /\ others[w] = Free
    /\ \A v \in Slots : others[v] = Free => w <= v
    /\ proc' = [others EXCEPT ![w] = [Free EXCEPT !.at = "booting", !.by = s, !.born = built]]
    /\ child' = [child EXCEPT ![s] = w]

\* SIGTERM: nothing to a process that is gone; the end of one without a
\* handler; a blocked event loop runs its handler when it comes back.
Termed(p) ==
  CASE p.at = "booting" -> [p EXCEPT !.at = "gone", !.term = TRUE]
    [] p.at = "serving" -> [p EXCEPT !.at = "told"]
    [] OTHER -> p

\* runSupervisor() reads the pid file; only a living owner stops it.
Check(s) ==
  /\ stage[s] = "off"
  /\ ~(pidFile # Nobody /\ Up(pidFile))
  /\ stage' = [stage EXCEPT ![s] = "checked"]
  /\ UNCHANGED <<pidFile, child, reloadQueued, debounce, respawns, proc, built, asked, faults>>

Serve(s) ==
  /\ stage[s] = "checked"
  /\ stage' = [stage EXCEPT ![s] = "up"]
  /\ pidFile' = s
  /\ asked' = [asked EXCEPT ![s] = built]
  /\ StartChild(s, proc)
  /\ UNCHANGED <<reloadQueued, debounce, respawns, built, faults>>

Move(w, to) ==
  /\ proc' = [proc EXCEPT ![w].at = to]
  /\ UNCHANGED <<stage, pidFile, child, reloadQueued, debounce, respawns, built, asked>>

Fault ==
  /\ faults < MaxFaults
  /\ faults' = faults + 1

\* The channels run: the worker has its signal handlers.
Ready(w) == proc[w].at = "booting" /\ Move(w, "serving") /\ UNCHANGED faults

\* A worker crashes, or gives up while it starts (process.exit(1)).
Crash(w) == w \in Alive /\ Move(w, "gone") /\ Fault

\* Its event loop hangs in a synchronous call (or comes back and runs what
\* waited, the SIGTERM of a reload first).
Block(w) == proc[w].at = "serving" /\ Move(w, "blocked") /\ Fault
Unblock(w) ==
  /\ proc[w].at = "blocked"
  /\ Move(w, IF proc[w].killed THEN "told" ELSE "serving")
  /\ UNCHANGED faults

\* The channel's stop(): process.exit(0) from the handler.
Stop(w) == proc[w].at = "told" /\ Move(w, "gone") /\ UNCHANGED faults

\* SIGTERM from outside (an operator's kill).
Interrupt(w) ==
  /\ proc[w].at \in {"booting", "serving"}
  /\ Fault
  /\ proc' = [proc EXCEPT ![w] = Termed(@)]
  /\ UNCHANGED <<stage, pidFile, child, reloadQueued, debounce, respawns, built, asked>>

-----------------------------------------------------------------------------
\* The 'exit' event of the child.  A grace timer outlives the worker, but
\* finds it is no longer the child.
Buried(s) == [proc EXCEPT ![child[s]] = Free]
OnExit(s) ==
  /\ Up(s)
  /\ child[s] # Nobody
  /\ proc[child[s]].at = "gone"
  /\ \/ /\ reloadQueued[s]
        /\ reloadQueued' = [reloadQueued EXCEPT ![s] = FALSE]
        /\ StartChild(s, Buried(s))
        /\ UNCHANGED respawns
     \/ /\ ~reloadQueued[s]
        /\ child' = [child EXCEPT ![s] = Nobody]
        /\ proc' = Buried(s)
        /\ respawns' = [respawns EXCEPT ![s] = IF proc[child[s]].term THEN @ ELSE @ + 1]
        /\ UNCHANGED reloadQueued
  /\ UNCHANGED <<stage, pidFile, debounce, built, asked, faults>>

\* Mutated Respawn: a worker that a reload brought meanwhile is not looked for.
RespawnBlindly(s) ==
  /\ Up(s)
  /\ respawns[s] > 0
  /\ respawns' = [respawns EXCEPT ![s] = @ - 1]
  /\ StartChild(s, proc)
  /\ UNCHANGED <<stage, pidFile, reloadQueued, debounce, built, asked, faults>>

\* The crash timer.
Respawn(s) ==
  /\ Up(s)
  /\ respawns[s] > 0
  /\ respawns' = [respawns EXCEPT ![s] = @ - 1]
  /\ \/ child[s] = Nobody /\ StartChild(s, proc)
     \/ child[s] # Nobody /\ UNCHANGED <<proc, child>>
  /\ UNCHANGED <<stage, pidFile, reloadQueued, debounce, built, asked, faults>>

\* `agent update`: the build is on disk, then SIGHUP goes to serve.pid.
Build ==
  /\ built < MaxBuilds
  /\ built' = built + 1
  /\ UNCHANGED <<stage, pidFile, child, reloadQueued, debounce, respawns, proc, asked, faults>>

Hangup ==
  /\ pidFile # Nobody
  /\ Up(pidFile)
  /\ asked[pidFile] < built
  /\ asked' = [asked EXCEPT ![pidFile] = built]
  /\ debounce' = [debounce EXCEPT ![pidFile] = TRUE]
  /\ UNCHANGED <<stage, pidFile, child, reloadQueued, respawns, proc, built, faults>>

\* Mutated Reload: the old worker goes, the flag for a new one is not set.
ReloadUnqueued(s) ==
  /\ Up(s)
  /\ debounce[s]
  /\ child[s] # Nobody
  /\ debounce' = [debounce EXCEPT ![s] = FALSE]
  /\ proc' = [proc EXCEPT ![child[s]] = [Termed(@) EXCEPT !.killed = TRUE, !.grace = TRUE]]
  /\ UNCHANGED <<stage, pidFile, child, reloadQueued, respawns, built, asked, faults>>

\* The debounce timer: reload().
Reload(s) ==
  /\ Up(s)
  /\ debounce[s]
  /\ debounce' = [debounce EXCEPT ![s] = FALSE]
  /\ \/ /\ child[s] # Nobody
        /\ reloadQueued' = [reloadQueued EXCEPT ![s] = TRUE]
        /\ proc' = [proc EXCEPT ![child[s]] =
                      [Termed(proc[child[s]]) EXCEPT !.killed = @ \/ child[s] \in Alive, !.grace = TRUE]]
        /\ UNCHANGED child
     \/ /\ child[s] = Nobody
        /\ StartChild(s, proc)
        /\ UNCHANGED reloadQueued
  /\ UNCHANGED <<stage, pidFile, respawns, built, asked, faults>>

\* The grace timer: SIGKILL to a child that is still there, unless kill() has
\* set `killed`.
GraceEnds(s) ==
  LET w == child[s] IN
  /\ Up(s)
  /\ w # Nobody
  /\ proc[w].grace
  /\ proc' = [proc EXCEPT ![w].grace = FALSE, ![w].at = IF proc[w].killed THEN @ ELSE "gone"]
  /\ UNCHANGED <<stage, pidFile, child, reloadQueued, debounce, respawns, built, asked, faults>>

\* shutdown(): SIGTERM to the child, the pid file if it is one's own, exit.
Shutdown(s) ==
  /\ Up(s)
  /\ Fault
  /\ stage' = [stage EXCEPT ![s] = "down"]
  /\ pidFile' = IF pidFile = s THEN Nobody ELSE pidFile
  /\ proc' = [w \in Slots |-> IF w = child[s] THEN [Termed(proc[w]) EXCEPT !.killed = TRUE]
                              ELSE proc[w]]
  /\ UNCHANGED <<child, reloadQueued, debounce, respawns, built, asked>>

\* A supervisor is killed: its worker lives on, its pid stays in the file.
Killed(s) ==
  /\ Up(s)
  /\ Fault
  /\ stage' = [stage EXCEPT ![s] = "down"]
  /\ UNCHANGED <<pidFile, child, reloadQueued, debounce, respawns, proc, built, asked>>

-----------------------------------------------------------------------------
\* Steps of a supervisor, and of a worker, that no one else takes part in.
Begin(s) == Check(s) \/ Serve(s)
Supervise(s) == OnExit(s) \/ Respawn(s) \/ Reload(s) \/ GraceEnds(s)
Live(w) == Ready(w) \/ Unblock(w) \/ Stop(w)

Next ==
  \/ \E s \in Supervisors : Begin(s) \/ Supervise(s) \/ Shutdown(s) \/ Killed(s)
  \/ \E w \in Slots : Live(w) \/ Crash(w) \/ Block(w) \/ Interrupt(w)
  \/ Build
  \/ Hangup

Spec == Init /\ [][Next]_processes

-----------------------------------------------------------------------------
\* The supervisors, their timers and the processes have their types.
TypeOK ==
  /\ stage \in [Supervisors -> {"off", "checked", "up", "down"}]
  /\ pidFile \in Supervisors \cup {Nobody}
  /\ child \in [Supervisors -> Slots \cup {Nobody}]
  /\ reloadQueued \in [Supervisors -> BOOLEAN]
  /\ debounce \in [Supervisors -> BOOLEAN]
  /\ respawns \in [Supervisors -> Nat]
  /\ proc \in [Slots -> Process]
  /\ built \in 0 .. MaxBuilds
  /\ asked \in [Supervisors -> 0 .. MaxBuilds]
  /\ faults \in 0 .. MaxFaults

\* A supervisor that is up runs one worker at a time and never loses sight of
\* it: whatever it spawned and is alive is its child, however crash timers,
\* reloads and exits interleave (startChild has no guard of its own).
OneWorkerAtATime ==
  \A w \in Alive : Up(proc[w].by) => child[proc[w].by] = w

\* A reload is never lost: once its timers and flag are spent, the worker in
\* place was started from a build at least as new as the last SIGHUP's.
ReloadBringsTheNewBuild ==
  \A s \in Supervisors :
    Up(s) /\ child[s] # Nobody /\ ~debounce[s] /\ ~reloadQueued[s]
      => proc[child[s]].born >= asked[s]

=============================================================================
