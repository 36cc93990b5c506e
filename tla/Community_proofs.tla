-------------------------- MODULE Community_proofs --------------------------
(***************************************************************************)
(* Theorems about the parts that Community puts side by side, for every    *)
(* value of their constants that the parts' assumptions allow.  A section  *)
(* is about one component: its types, its inductive invariant, that every  *)
(* step keeps it, and the property it implies.  The last section shows that*)
(* Community is a behaviour of its parts, so that what is proved of a part *)
(* holds of the whole that TLC runs.                                       *)
(***************************************************************************)
EXTENDS Community, Integers, FiniteSets, SumTheorems, SequenceTheorems

-----------------------------------------------------------------------------
(***************************************************************************)
(* Supervisor: one worker per supervisor, and no reload is lost.           *)
(***************************************************************************)

\* A process of s that has not been buried.
Child(w, s) == proc[w].at # "free" /\ proc[w].by = s
\* The inductive invariant: whatever a supervisor spawned it has as its child,
\* while it is up; one that has not started has neither; nobody was asked for a
\* build that does not exist.
SupInv ==
  /\ Z!TypeOK
  /\ \A w \in Slots : proc[w].at # "free" => proc[w].by \in Supervisors
  /\ \A s \in Supervisors, w \in Slots : Z!Up(s) /\ Child(w, s) => child[s] = w
  /\ \A s \in Supervisors : Z!Up(s) /\ child[s] # Nobody => Child(child[s], s)
  /\ \A s \in Supervisors : stage[s] \in {"off", "checked"} => child[s] = Nobody /\ \A w \in Slots : ~Child(w, s)
  /\ \A s \in Supervisors : asked[s] <= built
  /\ Z!ReloadBringsTheNewBuild

\* A process that differs in signals and state alone.
Alike(p, q) == q \in Z!Process /\ q.by = p.by /\ q.born = p.born /\ (q.at = "free" <=> p.at = "free")

\* A free slot is a process.
LEMMA FreeTyped == Z!Free \in Z!Process /\ Z!Free.at = "free"
BY Processes DEF Z!Free, Z!Process, Z!ProcessesAssumption

\* SIGTERM changes neither parent nor build.
LEMMA Signalled ==
  ASSUME NEW p \in Z!Process
  PROVE  /\ Alike(p, Z!Termed(p))
         /\ \A k, g \in BOOLEAN : Alike(p, [Z!Termed(p) EXCEPT !.killed = k, !.grace = g])
         /\ \A k \in BOOLEAN : Alike(p, [Z!Termed(p) EXCEPT !.killed = k])
<1>1. Alike(p, Z!Termed(p))
  <2>1. CASE p.at = "booting"
    <3>1. Z!Termed(p) = [p EXCEPT !.at = "gone", !.term = TRUE]
      BY <2>1 DEF Z!Termed
    <3> QED
      BY <2>1, <3>1 DEF Alike, Z!Process, Z!Running
  <2>2. CASE p.at = "serving"
    <3>1. Z!Termed(p) = [p EXCEPT !.at = "told"]
      BY <2>2 DEF Z!Termed
    <3> QED
      BY <2>2, <3>1 DEF Alike, Z!Process, Z!Running
  <2>3. CASE p.at \notin {"booting", "serving"}
    BY <2>3 DEF Z!Termed, Alike
  <2> QED
    BY <2>1, <2>2, <2>3
<1> DEFINE q == Z!Termed(p)
<1>2. q \in Z!Process /\ q.by = p.by /\ q.born = p.born /\ (q.at = "free" <=> p.at = "free")
  BY <1>1 DEF Alike
<1> HIDE DEF q
<1>3. \A k, g \in BOOLEAN : Alike(p, [q EXCEPT !.killed = k, !.grace = g])
  BY <1>2 DEF Alike, Z!Process
<1>4. \A k \in BOOLEAN : Alike(p, [q EXCEPT !.killed = k])
  BY <1>2 DEF Alike, Z!Process
<1> QED
  BY <1>1, <1>3, <1>4 DEF q

\* What a step does to the processes: nothing that matters here, a new child, or no child any more.
Kept == proc' \in [Slots -> Z!Process] /\ (\A w \in Slots : Alike(proc[w], proc'[w])) /\ child' = child
Fresh(s) == [Z!Free EXCEPT !.at = "booting", !.by = s, !.born = built]
Spawned(s) ==
  /\ proc' \in [Slots -> Z!Process]
  /\ \E w \in Slots :
       /\ proc[w].at = "free" \/ w = child[s]
       /\ Child(w, s)' /\ proc'[w].born = built
       /\ child' = [child EXCEPT ![s] = w]
       /\ \A v \in Slots \ {w} : IF v = child[s] THEN proc'[v].at = "free" ELSE proc'[v] = proc[v]
Emptied(s) ==
  /\ proc' \in [Slots -> Z!Process]
  /\ child' = [child EXCEPT ![s] = Nobody]
  /\ \A v \in Slots : IF v = child[s] THEN proc'[v].at = "free" ELSE proc'[v] = proc[v]

\* startChild(): a slot that was free, or the one just given up.
LEMMA Spawning ==
  ASSUME SupInv, NEW s \in Supervisors,
         \/ child[s] = Nobody /\ Z!StartChild(s, proc)
         \/ child[s] # Nobody /\ Z!StartChild(s, Z!Buried(s))
  PROVE  Spawned(s)
<1>0. proc \in [Slots -> Z!Process] /\ child[s] \in Slots \cup {Nobody} /\ Nobody \notin Slots /\ built \in 0 .. MaxBuilds
  BY Processes DEF SupInv, Z!TypeOK, Z!ProcessesAssumption
<1>1. PICK w \in Slots, others \in [Slots -> Z!Process] :
        /\ \A v \in Slots : others[v] = IF v = child[s] THEN Z!Free ELSE proc[v]
        /\ others[w] = Z!Free
        /\ proc' = [others EXCEPT ![w] = Fresh(s)]
        /\ child' = [child EXCEPT ![s] = w]
  <2>1. CASE child[s] = Nobody /\ Z!StartChild(s, proc)
    BY <1>0, <2>1 DEF Z!StartChild, Fresh
  <2>2. CASE child[s] # Nobody /\ Z!StartChild(s, Z!Buried(s))
    <3>1. Z!Buried(s) \in [Slots -> Z!Process]
      BY <1>0, FreeTyped DEF Z!Buried
    <3>2. \A v \in Slots : Z!Buried(s)[v] = IF v = child[s] THEN Z!Free ELSE proc[v]
      BY <1>0 DEF Z!Buried
    <3> QED
      BY <2>2, <3>1, <3>2 DEF Z!StartChild, Fresh
  <2> QED
    BY <2>1, <2>2
<1>2. Fresh(s) \in Z!Process /\ Fresh(s).at = "booting" /\ Fresh(s).by = s /\ Fresh(s).born = built
  BY <1>0, FreeTyped DEF Fresh, Z!Process, Z!Running
<1>3. proc' \in [Slots -> Z!Process] /\ proc'[w] = Fresh(s) /\ \A v \in Slots \ {w} : proc'[v] = others[v]
  BY <1>1, <1>2
<1>4. proc[w].at = "free" \/ w = child[s]
  BY <1>1, FreeTyped
<1>5. Child(w, s)' /\ proc'[w].born = built
  BY <1>2, <1>3 DEF Child
<1>6. \A v \in Slots \ {w} : IF v = child[s] THEN proc'[v].at = "free" ELSE proc'[v] = proc[v]
  BY <1>1, <1>3, FreeTyped
<1> QED
  BY <1>1, <1>3, <1>4, <1>5, <1>6 DEF Spawned

\* Nothing runs at the start.
LEMMA SupInit == Z!Init => SupInv
<1> SUFFICES ASSUME Z!Init PROVE SupInv
  OBVIOUS
<1>1. Z!TypeOK
  <2>1. proc \in [Slots -> Z!Process]
    BY FreeTyped DEF Z!Init
  <2>2. 0 \in 0 .. MaxBuilds /\ 0 \in 0 .. MaxFaults /\ 0 \in Nat
    BY Processes DEF Z!ProcessesAssumption
  <2> QED
    BY <2>1, <2>2 DEF Z!Init, Z!TypeOK
<1>2. \A w \in Slots : proc[w].at = "free"
  BY FreeTyped DEF Z!Init
<1>3. \A s \in Supervisors : stage[s] = "off" /\ child[s] = Nobody /\ asked[s] = 0 /\ built = 0
  BY DEF Z!Init
<1> QED
  BY <1>1, <1>2, <1>3 DEF SupInv, Child, Z!Up, Z!ReloadBringsTheNewBuild

\* A step that keeps the processes apart from their signals.
LEMMA KeptHolds ==
  ASSUME SupInv, Z!TypeOK', Kept,
         \A s \in Supervisors :
           /\ stage'[s] \in {stage[s], "down"} \/ (stage[s] = "off" /\ stage'[s] = "checked")
           /\ asked'[s] <= built'
           /\ stage'[s] = "up" /\ ~debounce'[s] /\ ~reloadQueued'[s]
                => ~debounce[s] /\ ~reloadQueued[s] /\ asked'[s] = asked[s]
  PROVE  SupInv'
<1>0. /\ proc \in [Slots -> Z!Process] /\ child \in [Supervisors -> Slots \cup {Nobody}]
      /\ Nobody \notin Slots /\ stage \in [Supervisors -> {"off", "checked", "up", "down"}]
  BY Processes DEF SupInv, Z!TypeOK, Z!ProcessesAssumption
<1>1. \A w \in Slots : proc'[w].by = proc[w].by /\ proc'[w].born = proc[w].born /\ (proc'[w].at = "free" <=> proc[w].at = "free")
  BY DEF Kept, Alike
<1>2. \A w \in Slots, s \in Supervisors : Child(w, s)' <=> Child(w, s)
  BY <1>1 DEF Child
<1>3. \A w \in Slots : proc'[w].at # "free" => proc'[w].by \in Supervisors
  BY <1>1 DEF SupInv
<1>4. \A s \in Supervisors : Z!Up(s)' => Z!Up(s)
  BY <1>0 DEF Z!Up
<1>5. \A s \in Supervisors, w \in Slots : Z!Up(s)' /\ Child(w, s)' => child'[s] = w
  BY <1>2, <1>4 DEF SupInv, Kept
<1>6. \A s \in Supervisors : Z!Up(s)' /\ child'[s] # Nobody => Child(child[s], s)'
  BY <1>0, <1>2, <1>4 DEF SupInv, Kept
<1>7. \A s \in Supervisors : stage'[s] \in {"off", "checked"} => child'[s] = Nobody /\ \A w \in Slots : ~Child(w, s)'
  BY <1>0, <1>2 DEF SupInv, Kept
<1>8. Z!ReloadBringsTheNewBuild'
  BY <1>0, <1>1, <1>4 DEF SupInv, Kept, Z!ReloadBringsTheNewBuild, Z!Up
<1> QED
  BY <1>3, <1>5, <1>6, <1>7, <1>8 DEF SupInv, Kept, Child

\* A supervisor without a child spawns one: no other supervisor loses its own.
LEMMA SpawnedHolds ==
  ASSUME SupInv, Z!TypeOK', NEW s \in Supervisors, Spawned(s), stage[s] \in {"checked", "up"}, stage'[s] = "up",
         built' = built,
         \A t \in Supervisors : asked'[t] <= built',
         \A t \in Supervisors \ {s} :
           stage'[t] = stage[t] /\ debounce'[t] = debounce[t] /\ reloadQueued'[t] = reloadQueued[t] /\ asked'[t] = asked[t]
  PROVE  SupInv'
<1>0. /\ proc \in [Slots -> Z!Process] /\ child \in [Supervisors -> Slots \cup {Nobody}]
      /\ Nobody \notin Slots
  BY Processes DEF SupInv, Z!TypeOK, Z!ProcessesAssumption
<1>1. PICK w \in Slots :
       /\ proc[w].at = "free" \/ w = child[s]
       /\ Child(w, s)' /\ proc'[w].born = built
       /\ child' = [child EXCEPT ![s] = w]
       /\ \A v \in Slots \ {w} : IF v = child[s] THEN proc'[v].at = "free" ELSE proc'[v] = proc[v]
  BY DEF Spawned
<1>2. child'[s] = w /\ \A t \in Supervisors \ {s} : child'[t] = child[t]
  BY <1>0, <1>1
\* No other supervisor that is up has this slot, or the one given up.
<1>3. \A v \in Slots, t \in Supervisors : t # s /\ Child(v, t) => v # w /\ v # child[s]
  BY <1>0, <1>1 DEF SupInv, Child, Z!Up
<1>4. \A v \in Slots, t \in Supervisors : t # s => (Child(v, t)' <=> Child(v, t))
  <2>1. ASSUME NEW v \in Slots, NEW t \in Supervisors, t # s PROVE Child(v, t)' <=> Child(v, t)
    <3>1. CASE v = w
      BY <1>1, <1>3, <2>1, <3>1 DEF Child
    <3>2. CASE v # w /\ v = child[s]
      BY <1>1, <1>3, <2>1, <3>2 DEF Child
    <3>3. CASE v # w /\ v # child[s]
      BY <1>1, <2>1, <3>3 DEF Child
    <3> QED
      BY <3>1, <3>2, <3>3
  <2> QED
    BY <2>1
<1>5. \A v \in Slots : Child(v, s)' => v = w
  <2>1. ASSUME NEW v \in Slots, v # w PROVE ~Child(v, s)'
    <3>1. CASE v = child[s]
      BY <1>1, <2>1, <3>1 DEF Child
    <3>2. CASE v # child[s]
      <4>1. proc'[v] = proc[v] /\ ~Child(v, s)
        BY <1>1, <2>1, <3>2 DEF SupInv, Z!Up
      <4> QED
        BY <4>1 DEF Child
    <3> QED
      BY <3>1, <3>2
  <2> QED
    BY <2>1
<1>6. \A v \in Slots : proc'[v].at # "free" => proc'[v].by \in Supervisors
  BY <1>1 DEF SupInv, Child
<1>7. \A t \in Supervisors, v \in Slots : Z!Up(t)' /\ Child(v, t)' => child'[t] = v
  BY <1>2, <1>4, <1>5 DEF SupInv, Z!Up
<1>8. \A t \in Supervisors : Z!Up(t)' /\ child'[t] # Nobody => Child(child[t], t)'
  <2>1. ASSUME NEW t \in Supervisors, t # s, Z!Up(t)', child'[t] # Nobody PROVE Child(child[t], t)'
    <3>1. PICK v \in Slots : v = child[t]
      BY <1>0, <1>2, <2>1
    <3>2. Child(v, t)
      BY <1>2, <2>1, <3>1 DEF SupInv, Z!Up
    <3>3. Child(v, t)'
      BY <1>4, <2>1, <3>2
    <3> QED
      BY <1>2, <2>1, <3>1, <3>3 DEF Child
  <2> QED
    BY <1>1, <1>2, <2>1 DEF Child
<1>9. \A t \in Supervisors : stage'[t] \in {"off", "checked"} => child'[t] = Nobody /\ \A v \in Slots : ~Child(v, t)'
  BY <1>2, <1>4 DEF SupInv
<1>10. Z!ReloadBringsTheNewBuild'
  <2>1. ASSUME NEW t \in Supervisors, t # s, Z!Up(t)', child'[t] # Nobody, ~debounce'[t], ~reloadQueued'[t]
        PROVE  proc'[child'[t]].born >= asked'[t]
    <3>1. PICK v \in Slots : v = child[t]
      BY <1>0, <1>2, <2>1
    <3>2. Child(v, t) /\ proc[v].born >= asked[t]
      BY <1>2, <2>1, <3>1 DEF SupInv, Z!Up, Z!ReloadBringsTheNewBuild
    <3>3. proc'[v] = proc[v]
      BY <1>1, <1>3, <2>1, <3>2
    <3> QED
      BY <1>2, <2>1, <3>1, <3>2, <3>3
  <2>2. proc'[w].born >= asked'[s]
    <3>1. built \in Nat /\ asked'[s] \in Nat
      BY DEF SupInv, Z!TypeOK
    <3> QED
      BY <1>1, <3>1
  <2> QED
    BY <1>2, <2>1, <2>2 DEF Z!ReloadBringsTheNewBuild
<1> QED
  BY <1>2, <1>6, <1>7, <1>8, <1>9, <1>10 DEF SupInv, Child

\* A supervisor buries its child and has none.
LEMMA EmptiedHolds ==
  ASSUME SupInv, Z!TypeOK', NEW s \in Supervisors, Emptied(s), Z!Up(s),
         UNCHANGED <<stage, built, asked, debounce, reloadQueued>>
  PROVE  SupInv'
<1>0. /\ proc \in [Slots -> Z!Process] /\ child \in [Supervisors -> Slots \cup {Nobody}]
      /\ Nobody \notin Slots
  BY Processes DEF SupInv, Z!TypeOK, Z!ProcessesAssumption
<1>1. child'[s] = Nobody /\ \A t \in Supervisors \ {s} : child'[t] = child[t]
  BY <1>0 DEF Emptied
<1>2. \A v \in Slots : IF v = child[s] THEN proc'[v].at = "free" ELSE proc'[v] = proc[v]
  BY DEF Emptied
<1>3. \A v \in Slots : ~Child(v, s)'
  BY <1>2 DEF SupInv, Child
<1>4. \A v \in Slots, t \in Supervisors : t # s /\ Child(v, t) => v # child[s]
  BY <1>0 DEF SupInv, Child
<1>5. \A v \in Slots, t \in Supervisors : t # s => (Child(v, t)' <=> Child(v, t))
  BY <1>2, <1>4 DEF Child
<1>6. \A v \in Slots : proc'[v].at # "free" => proc'[v].by \in Supervisors
  BY <1>2 DEF SupInv
<1>7. \A t \in Supervisors, v \in Slots : Z!Up(t)' /\ Child(v, t)' => child'[t] = v
  BY <1>1, <1>3, <1>5 DEF SupInv, Z!Up
<1>8. ASSUME NEW t \in Supervisors, Z!Up(t)', child'[t] # Nobody
      PROVE  /\ child'[t] = child[t] /\ child[t] \in Slots /\ Child(child[t], t)
             /\ proc'[child[t]] = proc[child[t]]
  <2>1. t # s
    BY <1>1, <1>8
  <2>2. PICK v \in Slots : v = child[t]
    BY <1>0, <1>1, <1>8, <2>1
  <2>3. Child(v, t)
    BY <1>1, <1>8, <2>1, <2>2 DEF SupInv, Z!Up
  <2>4. proc'[v] = proc[v]
    BY <1>2, <1>4, <2>1, <2>3
  <2> QED
    BY <1>1, <2>1, <2>2, <2>3, <2>4
<1>9. \A t \in Supervisors : Z!Up(t)' /\ child'[t] # Nobody => Child(child[t], t)'
  BY <1>8 DEF Child
<1>10. \A t \in Supervisors : stage'[t] \in {"off", "checked"} => child'[t] = Nobody /\ \A v \in Slots : ~Child(v, t)'
  BY <1>1, <1>3, <1>5 DEF SupInv
<1>11. Z!ReloadBringsTheNewBuild'
  BY <1>8 DEF SupInv, Z!Up, Z!ReloadBringsTheNewBuild
<1> QED
  BY <1>6, <1>7, <1>9, <1>10, <1>11 DEF SupInv, Child

\* Types.
LEMMA SupTypeStep ==
  ASSUME SupInv, Z!Next, Kept \/ \E s \in Supervisors : Spawned(s) \/ Emptied(s)
  PROVE  Z!TypeOK'
<1>0. Z!TypeOK
  BY DEF SupInv
<1>1. proc' \in [Slots -> Z!Process]
  BY DEF Kept, Spawned, Emptied
<1>2. child' \in [Supervisors -> Slots \cup {Nobody}]
  <2>1. child \in [Supervisors -> Slots \cup {Nobody}]
    BY <1>0 DEF Z!TypeOK
  <2>2. \/ child' = child
        \/ \E s \in Supervisors, w \in Slots \cup {Nobody} : child' = [child EXCEPT ![s] = w]
    BY DEF Kept, Spawned, Emptied
  <2> QED
    BY <2>1, <2>2
<1> USE DEF Z!Next, Z!Begin, Z!Supervise, Z!Live, Z!Check, Z!Serve, Z!OnExit, Z!Respawn, Z!Reload, Z!GraceEnds,
            Z!Shutdown, Z!Killed, Z!Ready, Z!Unblock, Z!Stop, Z!Crash, Z!Block, Z!Interrupt, Z!Build, Z!Hangup, Z!Move,
            Z!Fault
<1>3. stage' \in [Supervisors -> {"off", "checked", "up", "down"}]
  BY <1>0 DEF Z!TypeOK
<1>4. pidFile' \in Supervisors \cup {Nobody}
  BY <1>0 DEF Z!TypeOK
<1>5. reloadQueued' \in [Supervisors -> BOOLEAN]
  BY <1>0 DEF Z!TypeOK
<1>6. debounce' \in [Supervisors -> BOOLEAN]
  BY <1>0 DEF Z!TypeOK
<1>7. respawns' \in [Supervisors -> Nat]
  <2>1. respawns \in [Supervisors -> Nat]
    BY <1>0 DEF Z!TypeOK
  <2>2. ASSUME NEW s \in Supervisors, Z!OnExit(s)
        PROVE  respawns' \in {respawns, [respawns EXCEPT ![s] = @ + 1]}
    <3>1. CASE reloadQueued[s]
      BY <2>2, <3>1
    <3>2. CASE ~reloadQueued[s] /\ proc[child[s]].term
      BY <2>1, <2>2, <3>2
    <3>3. CASE ~reloadQueued[s] /\ ~proc[child[s]].term
      BY <2>2, <3>3
    <3> QED
      BY <3>1, <3>2, <3>3
  <2>3. ASSUME NEW s \in Supervisors, Z!Respawn(s)
        PROVE  respawns[s] > 0 /\ respawns' = [respawns EXCEPT ![s] = @ - 1]
    BY <2>3
  <2>4. \/ respawns' = respawns
        \/ \E s \in Supervisors : \/ respawns' = [respawns EXCEPT ![s] = @ + 1]
                                  \/ respawns[s] > 0 /\ respawns' = [respawns EXCEPT ![s] = @ - 1]
    <3> HIDE DEF Z!OnExit, Z!Respawn
    <3> QED
      BY <2>2, <2>3
  <2> HIDE DEF Z!Next
  <2> QED
    BY <2>1, <2>4
<1>8. built' \in 0 .. MaxBuilds
  <2>1. built' = built \/ Z!Build
    OBVIOUS
  <2>2. built' = built \/ (built < MaxBuilds /\ built' = built + 1)
    BY <2>1
  <2>3. built \in 0 .. MaxBuilds /\ MaxBuilds \in Nat
    BY <1>0, Processes DEF Z!TypeOK, Z!ProcessesAssumption
  <2> HIDE DEF Z!Next
  <2> QED
    BY <2>2, <2>3
<1>9. asked' \in [Supervisors -> 0 .. MaxBuilds]
  BY <1>0 DEF Z!TypeOK
<1>10. faults' \in 0 .. MaxFaults
  <2>1. faults' = faults \/ Z!Fault
    <3> HIDE DEF Z!Fault
    <3> QED
      OBVIOUS
  <2>2. faults' = faults \/ (faults < MaxFaults /\ faults' = faults + 1)
    BY <2>1
  <2>3. faults \in 0 .. MaxFaults /\ MaxFaults \in Nat
    BY <1>0, Processes DEF Z!TypeOK, Z!ProcessesAssumption
  <2> HIDE DEF Z!Next
  <2> QED
    BY <2>2, <2>3
<1> QED
  BY <1>1, <1>2, <1>3, <1>4, <1>5, <1>6, <1>7, <1>8, <1>9, <1>10 DEF Z!TypeOK

\* Every step of supervisors, processes and signals keeps the invariant.
LEMMA SupStep ==
  ASSUME SupInv, [Z!Next]_Z!processes
  PROVE  SupInv'
<1>0. /\ proc \in [Slots -> Z!Process] /\ child \in [Supervisors -> Slots \cup {Nobody}]
      /\ Nobody \notin Slots /\ stage \in [Supervisors -> {"off", "checked", "up", "down"}]
      /\ debounce \in [Supervisors -> BOOLEAN] /\ reloadQueued \in [Supervisors -> BOOLEAN]
      /\ asked \in [Supervisors -> 0 .. MaxBuilds] /\ built \in 0 .. MaxBuilds /\ MaxBuilds \in Nat
      /\ pidFile \in Supervisors \cup {Nobody}
  BY Processes DEF SupInv, Z!TypeOK, Z!ProcessesAssumption
<1>1. \A s \in Supervisors : asked[s] <= built
  BY DEF SupInv
<1>2. \A w \in Slots : Alike(proc[w], proc[w])
  BY <1>0 DEF Alike
\* Steps that change one process at most, and not who it is.
<1>3. ASSUME NEW w \in Slots, NEW p, Alike(proc[w], p), proc' = [proc EXCEPT ![w] = p], child' = child PROVE Kept
  <2>1. p \in Z!Process
    BY <1>3 DEF Alike
  <2> QED
    BY <1>0, <1>2, <1>3, <2>1 DEF Kept
<1>4. ASSUME proc' = proc, child' = child PROVE Kept
  BY <1>0, <1>2, <1>4 DEF Kept
<1>5. ASSUME NEW s \in Supervisors, Z!Check(s) PROVE SupInv'
  <2>1. Kept /\ Z!TypeOK'
    BY <1>4, <1>5, SupTypeStep DEF Z!Check, Z!Next, Z!Begin
  <2> QED
    BY <1>0, <1>1, <1>5, <2>1, KeptHolds DEF Z!Check
<1>6. ASSUME NEW s \in Supervisors, Z!Serve(s) PROVE SupInv'
  <2>0. child[s] = Nobody
    BY <1>6 DEF Z!Serve, SupInv
  <2>1. Spawned(s)
    BY <1>6, <2>0, Spawning DEF Z!Serve
  <2>2. Z!TypeOK'
    BY <1>6, <2>1, SupTypeStep DEF Z!Next, Z!Begin
  <2>3. \A t \in Supervisors : asked'[t] <= built'
    BY <1>0, <1>1, <1>6 DEF Z!Serve
  <2> QED
    BY <1>0, <1>6, <2>1, <2>2, <2>3, SpawnedHolds DEF Z!Serve
<1>7. ASSUME NEW s \in Supervisors, Z!OnExit(s) PROVE SupInv'
  <2>1. CASE reloadQueued[s]
    <3>1. Spawned(s)
      BY <1>7, <2>1, Spawning DEF Z!OnExit
    <3>2. Z!TypeOK'
      BY <1>7, <3>1, SupTypeStep DEF Z!Next, Z!Supervise
    <3> QED
      BY <1>0, <1>1, <1>7, <2>1, <3>1, <3>2, SpawnedHolds DEF Z!OnExit, Z!Up
  <2>2. CASE ~reloadQueued[s]
    <3>1. Emptied(s)
      BY <1>0, <1>7, <2>2, FreeTyped DEF Z!OnExit, Z!Buried, Emptied
    <3>2. Z!TypeOK'
      BY <1>7, <3>1, SupTypeStep DEF Z!Next, Z!Supervise
    <3> QED
      BY <1>7, <2>2, <3>1, <3>2, EmptiedHolds DEF Z!OnExit
  <2> QED
    BY <2>1, <2>2
<1>8. ASSUME NEW s \in Supervisors, Z!Respawn(s) PROVE SupInv'
  <2>1. CASE child[s] = Nobody
    <3>1. Spawned(s)
      BY <1>8, <2>1, Spawning DEF Z!Respawn
    <3>2. Z!TypeOK'
      BY <1>8, <3>1, SupTypeStep DEF Z!Next, Z!Supervise
    <3> QED
      BY <1>0, <1>1, <1>8, <3>1, <3>2, SpawnedHolds DEF Z!Respawn, Z!Up
  <2>2. CASE child[s] # Nobody
    <3>1. Kept
      BY <1>4, <1>8, <2>2 DEF Z!Respawn
    <3>2. Z!TypeOK'
      BY <1>8, <3>1, SupTypeStep DEF Z!Next, Z!Supervise
    <3> QED
      BY <1>0, <1>1, <1>8, <3>1, <3>2, KeptHolds DEF Z!Respawn
  <2> QED
    BY <2>1, <2>2
<1>9. ASSUME NEW s \in Supervisors, Z!Reload(s) PROVE SupInv'
  <2>1. CASE child[s] = Nobody
    <3>1. Spawned(s)
      BY <1>9, <2>1, Spawning DEF Z!Reload
    <3>2. Z!TypeOK'
      BY <1>9, <3>1, SupTypeStep DEF Z!Next, Z!Supervise
    <3> QED
      BY <1>0, <1>1, <1>9, <2>1, <3>1, <3>2, SpawnedHolds DEF Z!Reload, Z!Up
  <2>2. CASE child[s] # Nobody
    <3>1. PICK w \in Slots : w = child[s]
      BY <1>0, <2>2
    <3>2. PICK p : p = [Z!Termed(proc[w]) EXCEPT !.killed = @ \/ w \in Z!Alive, !.grace = TRUE]
      OBVIOUS
    <3>3. Alike(proc[w], p)
      <4>1. PICK k \in BOOLEAN : k = (Z!Termed(proc[w]).killed \/ w \in Z!Alive)
        OBVIOUS
      <4>2. p = [Z!Termed(proc[w]) EXCEPT !.killed = k, !.grace = TRUE]
        BY <3>2, <4>1
      <4> QED
        BY <1>0, <4>2, Signalled
    <3>4. Kept
      BY <1>3, <1>9, <2>2, <3>1, <3>2, <3>3 DEF Z!Reload
    <3>5. Z!TypeOK'
      BY <1>9, <3>4, SupTypeStep DEF Z!Next, Z!Supervise
    <3>6. reloadQueued' = [reloadQueued EXCEPT ![s] = TRUE] /\ debounce' = [debounce EXCEPT ![s] = FALSE]
          /\ UNCHANGED <<stage, asked, built>>
      BY <1>9, <2>2 DEF Z!Reload
    <3> QED
      BY <1>0, <1>1, <3>4, <3>5, <3>6, KeptHolds
  <2> QED
    BY <2>1, <2>2
<1>10. ASSUME NEW s \in Supervisors, Z!GraceEnds(s) PROVE SupInv'
  <2>1. PICK w \in Slots : w = child[s]
    BY <1>0, <1>10 DEF Z!GraceEnds
  <2>2. proc[w] \in Z!Process /\ proc[w].at # "free"
    BY <1>0, <1>10, <2>1 DEF Z!GraceEnds, SupInv, Child
  <2>3. PICK at \in {proc[w].at, "gone"} : at = IF proc[w].killed THEN proc[w].at ELSE "gone"
    OBVIOUS
  <2>4. PICK p : p = [proc[w] EXCEPT !.grace = FALSE, !.at = at]
    OBVIOUS
  <2>5. Alike(proc[w], p)
    BY <2>2, <2>3, <2>4 DEF Alike, Z!Process
  <2>6. proc' = [proc EXCEPT ![w] = p] /\ child' = child
    BY <1>0, <1>10, <2>1, <2>3, <2>4 DEF Z!GraceEnds
  <2>7. Kept
    BY <1>3, <2>5, <2>6
  <2>8. Z!TypeOK'
    BY <1>10, <2>7, SupTypeStep DEF Z!Next, Z!Supervise
  <2> QED
    BY <1>0, <1>1, <1>10, <2>7, <2>8, KeptHolds DEF Z!GraceEnds
<1>11. ASSUME NEW s \in Supervisors, Z!Shutdown(s) PROVE SupInv'
  <2>1. proc' \in [Slots -> Z!Process] /\ \A w \in Slots : Alike(proc[w], proc'[w])
    <3>1. \A w \in Slots : Alike(proc[w], [Z!Termed(proc[w]) EXCEPT !.killed = TRUE])
      BY <1>0, Signalled
    <3>2. \A w \in Slots : Alike(proc[w], proc'[w])
      BY <1>2, <1>11, <3>1 DEF Z!Shutdown
    <3>3. proc' = [w \in Slots |-> proc'[w]]
      BY <1>11 DEF Z!Shutdown
    <3> QED
      BY <3>2, <3>3 DEF Alike
  <2>2. Kept
    BY <1>11, <2>1 DEF Z!Shutdown, Kept
  <2>3. Z!TypeOK'
    BY <1>11, <2>2, SupTypeStep DEF Z!Next
  <2> QED
    BY <1>0, <1>1, <1>11, <2>2, <2>3, KeptHolds DEF Z!Shutdown
<1>12. ASSUME NEW s \in Supervisors, Z!Killed(s) PROVE SupInv'
  <2>1. Kept
    BY <1>4, <1>12 DEF Z!Killed
  <2>2. Z!TypeOK'
    BY <1>12, <2>1, SupTypeStep DEF Z!Next
  <2> QED
    BY <1>0, <1>1, <1>12, <2>1, <2>2, KeptHolds DEF Z!Killed
<1>13. ASSUME NEW w \in Slots, Z!Live(w) \/ Z!Crash(w) \/ Z!Block(w) \/ Z!Interrupt(w) PROVE SupInv'
  <2>1. UNCHANGED <<stage, pidFile, child, reloadQueued, debounce, respawns, built, asked>>
    BY <1>13 DEF Z!Live, Z!Ready, Z!Unblock, Z!Stop, Z!Crash, Z!Block, Z!Interrupt, Z!Move
  <2>2. proc[w] \in Z!Process
    BY <1>0
  <2>3. CASE Z!Interrupt(w)
    <3>1. PICK p : p = Z!Termed(proc[w])
      OBVIOUS
    <3>2. Alike(proc[w], p)
      BY <2>2, <3>1, Signalled
    <3>3. proc' = [proc EXCEPT ![w] = p]
      BY <2>3, <3>1 DEF Z!Interrupt
    <3>4. Kept
      BY <1>3, <2>1, <3>2, <3>3
    <3>5. Z!TypeOK'
      BY <1>13, <3>4, SupTypeStep DEF Z!Next
    <3> QED
      BY <1>0, <1>1, <2>1, <3>4, <3>5, KeptHolds
  <2>4. ASSUME NEW at \in Z!Running \cup {"gone"}, proc[w].at # "free", proc' = [proc EXCEPT ![w].at = at] PROVE Kept
    <3>1. PICK p : p = [proc[w] EXCEPT !.at = at]
      OBVIOUS
    <3>2. Alike(proc[w], p)
      BY <2>2, <2>4, <3>1 DEF Alike, Z!Process, Z!Running
    <3>3. proc' = [proc EXCEPT ![w] = p]
      BY <1>0, <2>4, <3>1
    <3> QED
      BY <1>3, <2>1, <3>2, <3>3
  <2>5. CASE Z!Live(w) \/ Z!Crash(w) \/ Z!Block(w)
    <3>1. \E at \in Z!Running \cup {"gone"} : proc[w].at # "free" /\ proc' = [proc EXCEPT ![w].at = at]
      BY <2>5 DEF Z!Live, Z!Ready, Z!Unblock, Z!Stop, Z!Crash, Z!Block, Z!Move, Z!Running, Z!Alive
    <3>2. Kept
      BY <2>4, <3>1
    <3>3. Z!TypeOK'
      BY <1>13, <3>2, SupTypeStep DEF Z!Next
    <3> QED
      BY <1>0, <1>1, <2>1, <3>2, <3>3, KeptHolds
  <2> QED
    BY <1>13, <2>3, <2>5
<1>14. CASE Z!Build
  <2>1. Kept
    BY <1>4, <1>14 DEF Z!Build
  <2>2. Z!TypeOK'
    BY <1>14, <2>1, SupTypeStep DEF Z!Next
  <2>3. \A s \in Supervisors : asked[s] \in Nat /\ built \in Nat
    BY <1>0
  <2> QED
    BY <1>0, <1>1, <1>14, <2>1, <2>2, <2>3, KeptHolds DEF Z!Build
<1>15. CASE Z!Hangup
  <2>1. Kept
    BY <1>4, <1>15 DEF Z!Hangup
  <2>2. Z!TypeOK'
    BY <1>15, <2>1, SupTypeStep DEF Z!Next
  <2> QED
    BY <1>0, <1>1, <1>15, <2>1, <2>2, KeptHolds DEF Z!Hangup
<1>16. CASE UNCHANGED Z!processes
  BY <1>16 DEF Z!processes, SupInv, Z!TypeOK, Child, Z!Up, Z!ReloadBringsTheNewBuild
<1> QED
  BY <1>5, <1>6, <1>7, <1>8, <1>9, <1>10, <1>11, <1>12, <1>13, <1>14, <1>15, <1>16
     DEF Z!Next, Z!Begin, Z!Supervise

\* The inductive invariant, for any number of supervisors, slots and faults.
THEOREM SupervisorInvariant == Z!Spec => []SupInv
BY SupInit, SupStep, PTL DEF Z!Spec

\* One worker at a time (supervisor.ts, startChild): whatever a supervisor that is
\* up has spawned and is alive is its child.
THEOREM OneWorkerPerSupervisor == Z!Spec => []OneWorkerAtATime
<1>1. SupInv => OneWorkerAtATime
  <2>1. \A w \in Z!Alive : w \in Slots /\ proc[w].at # "free"
    BY DEF Z!Alive, Z!Running
  <2> QED
    BY <2>1 DEF SupInv, Child, OneWorkerAtATime, Z!OneWorkerAtATime
<1> QED
  BY <1>1, SupervisorInvariant, PTL

\* A reload is never lost (supervisor.ts, reload and the exit event): with its
\* timers and flag spent, the worker in place is at least as new as the last SIGHUP.
THEOREM ReloadsAreNotLost == Z!Spec => []ReloadBringsTheNewBuild
BY SupervisorInvariant, PTL DEF SupInv, ReloadBringsTheNewBuild

-----------------------------------------------------------------------------
(***************************************************************************)
(* TreasureChest: LP moves between accounts and is not made or lost.       *)
(***************************************************************************)

\* The library's operators, as the chests' instance sees them, are this module's.
LEMMA ChestsCount ==
  /\ \A S : C!IsFiniteSet(S) <=> IsFiniteSet(S)
  /\ \A S : C!Cardinality(S) = Cardinality(S)
  /\ \A f : C!SumFunction(f) = SumFunction(f)
<1>1. \A S : C!IsFiniteSet(S) <=> IsFiniteSet(S)
  BY DEF IsFiniteSet, C!IsFiniteSet
<1>2. \A S : C!Cardinality(S) = Cardinality(S)
  BY DEF Cardinality, C!Cardinality
<1>3. \A f : C!SumFunction(f) = SumFunction(f)
  BY DEF SumFunction, SumFunctionOnSet, FoldFunctionOnSet, MapThenFoldSet,
         C!SumFunction, C!SumFunctionOnSet, C!FoldFunctionOnSet, C!MapThenFoldSet
<1> QED
  BY <1>1, <1>2, <1>3

\* ChestsAssumption in this module's words
LEMMA ChestConstants ==
  /\ IsFiniteSet(Members) /\ IsFiniteSet(ChestCommands) /\ IsFiniteSet(C!Accounts)
  /\ Newcomers \subseteq Members
  /\ Chest \notin Members /\ Nobody \notin Members \cup {Chest}
  /\ \A a \in Amounts : a \in Nat
  /\ {StartLp, Gift, MaxChestFailures} \subseteq Nat
<1>1. IsFiniteSet(Members) /\ IsFiniteSet(ChestCommands)
  BY ChestsCount, Chests DEF C!ChestsAssumption
<1>2. IsFiniteSet(C!Accounts)
  BY <1>1, FS_AddElement DEF C!Accounts
<1> QED
  BY <1>1, <1>2, Chests DEF C!ChestsAssumption

Totals ==
  SumFunction(balance) + SumFunction(C!OnTheWay) + lost
    = StartLp * Cardinality(Members \ Newcomers) + Gift * Cardinality(gifted)

ChestOrders == [at : {"idle", "seed", "debit", "credit"},
                from : C!Accounts \cup {Nobody}, to : C!Accounts \cup {Nobody},
                amount : Amounts \cup {0}]

Carried(c) == IF c.at = "credit" THEN c.amount ELSE 0

ChestInv ==
  /\ C!TypeOK
  /\ Totals
  /\ gifted \subseteq opened
  /\ Chest \in gifted => hurried
  /\ owner # Nobody => \/ Chest \in opened \/ hurried
                       \/ \E s \in ChestCommands : command[s].at = "seed"
  /\ \A s \in ChestCommands : command[s].at \in {"debit", "credit"} =>
       /\ command[s].from \in C!Accounts /\ command[s].to \in C!Accounts
       /\ owner # Nobody

\* The invariant holds where the chests start.
LEMMA ChestInit ==
  ASSUME C!Init
  PROVE  ChestInv
<1> DEFINE w == C!OnTheWay
<1>0. /\ IsFiniteSet(Members) /\ IsFiniteSet(ChestCommands) /\ IsFiniteSet(C!Accounts)
      /\ Newcomers \subseteq Members /\ Chest \notin Members
      /\ StartLp \in Nat /\ Gift \in Nat
  BY ChestConstants
<1>a. /\ owner = Nobody /\ opened = Members \ Newcomers /\ gifted = {} /\ hurried = FALSE
      /\ balance = [a \in C!Accounts |-> IF a \in opened THEN StartLp ELSE 0]
      /\ command = [s \in ChestCommands |-> C!Idle]
      /\ lost = 0 /\ chestFailures = 0
  BY DEF C!Init
<1>1. C!TypeOK
  <2>1. balance \in [C!Accounts -> Nat] /\ opened \subseteq C!Accounts
    BY <1>0, <1>a DEF C!Accounts
  <2>2. C!Idle \in [at : {"idle", "seed", "debit", "credit"},
                    from : C!Accounts \cup {Nobody}, to : C!Accounts \cup {Nobody},
                    amount : Amounts \cup {0}]
    BY DEF C!Idle
  <2> HIDE DEF C!Idle, C!Accounts
  <2> QED
    <3>1. command \in [ChestCommands -> [at : {"idle", "seed", "debit", "credit"},
                      from : C!Accounts \cup {Nobody}, to : C!Accounts \cup {Nobody},
                      amount : Amounts \cup {0}]]
      BY <1>a, <2>2
    <3>2. /\ owner \in Members \cup {Nobody} /\ gifted \subseteq C!Accounts
          /\ hurried \in BOOLEAN /\ {lost, chestFailures} \subseteq Nat
      <4>1. hurried \in BOOLEAN
        BY <1>a, Zenon
      <4>2. owner \in Members \cup {Nobody} /\ gifted \subseteq C!Accounts
        BY <1>a
      <4>3. {lost, chestFailures} \subseteq Nat
        BY <1>a
      <4> QED
        BY <4>1, <4>2, <4>3
    <3> QED
      BY <1>a, <2>1, <3>1, <3>2 DEF C!TypeOK
<1>2. SumFunction(C!OnTheWay) = 0
  <2>1. DOMAIN w = ChestCommands /\ \A s \in ChestCommands : w[s] = 0
    BY <1>a DEF C!OnTheWay, C!Idle
  <2> HIDE DEF w
  <2>6. SumFunctionOnSet(w, ChestCommands) = 0
    BY <1>0, <2>1, SumZero
  <2> QED
    BY <2>1, <2>6 DEF w, SumFunction
<1>3. SumFunction(balance) = StartLp * Cardinality(Members \ Newcomers)
  <2>1. DOMAIN balance = C!Accounts
    BY <1>a
  <2>2. Members \ Newcomers \in SUBSET C!Accounts /\ StartLp \in Int
    BY <1>0 DEF C!Accounts
  <2>3. /\ \A a \in Members \ Newcomers : balance[a] = StartLp
        /\ \A a \in C!Accounts : a \notin Members \ Newcomers => balance[a] = 0
    BY <1>a, <2>2
  <2>4. SumFunctionOnSet(balance, C!Accounts) = StartLp * Cardinality(Members \ Newcomers)
    BY <1>0, <2>2, <2>3, SumCount
  <2> QED
    BY <2>1, <2>4 DEF SumFunction
<1>4. Totals
  <2>1. Cardinality(gifted) = 0 /\ lost = 0
    BY <1>a, FS_EmptySet
  <2>2. IsFiniteSet(Members \ Newcomers)
    BY <1>0, FS_Difference
  <2>3. Cardinality(Members \ Newcomers) \in Nat
    BY <2>2, FS_CardinalityType
  <2>4. \A n \in Nat : StartLp * n + 0 + 0 = StartLp * n + Gift * 0
    BY <1>0
  <2> QED
    BY <1>2, <1>3, <2>1, <2>3, <2>4 DEF Totals
<1> QED
  BY <1>1, <1>4, <1>a DEF ChestInv, C!Idle

\* What an order carries enters and leaves the sum of what is on the way.
LEMMA OnTheWayMoves ==
  ASSUME command \in [ChestCommands -> ChestOrders],
         NEW s \in ChestCommands, NEW r \in ChestOrders,
         command' = [command EXCEPT ![s] = r]
  PROVE  /\ SumFunction(C!OnTheWay') = SumFunction(C!OnTheWay) - Carried(command[s]) + Carried(r)
         /\ SumFunction(C!OnTheWay) \in Int
         /\ Carried(command[s]) \in Nat /\ Carried(r) \in Nat
<1> DEFINE w == C!OnTheWay
<1>0. IsFiniteSet(ChestCommands)
  BY ChestConstants
<1>1. \A c \in ChestOrders : Carried(c) \in Nat
  BY ChestConstants DEF ChestOrders, Carried
<1>2. w \in [ChestCommands -> Int] /\ w[s] = Carried(command[s])
  <2>1. \A t \in ChestCommands : w[t] = Carried(command[t])
    BY DEF C!OnTheWay, Carried
  <2>2. w = [t \in ChestCommands |-> w[t]]
    BY DEF C!OnTheWay
  <2> HIDE DEF w
  <2> QED
    BY <1>1, <2>1, <2>2
<1>3. C!OnTheWay' = [w EXCEPT ![s] = Carried(r)]
  BY DEF C!OnTheWay, Carried
<1>4. SumFunction(w) \in Int
  <2> HIDE DEF w
  <2> QED
    BY <1>0, <1>2, SumType DEF SumFunction
<1>5. Carried(r) \in Int
  BY <1>1
<1>6. SumFunction([w EXCEPT ![s] = Carried(r)]) = SumFunction(w) - w[s] + Carried(r)
  <2> HIDE DEF w
  <2> QED
    BY <1>0, <1>2, <1>5, SumUpdate
<1>7. Carried(command[s]) \in Nat /\ Carried(r) \in Nat
  BY <1>1
<1> QED
  BY <1>2, <1>3, <1>4, <1>6, <1>7

\* The balances have a sum.
LEMMA BalanceIsSummed ==
  ASSUME balance \in [C!Accounts -> Nat]
  PROVE  SumFunction(balance) \in Int
<1>1. IsFiniteSet(C!Accounts)
  BY ChestConstants
<1>2. balance \in [C!Accounts -> Int]
  OBVIOUS
<1> QED
  BY <1>1, <1>2, SumType DEF SumFunction

\* One account set anew moves the sum by the difference.
LEMMA BalanceMoves ==
  ASSUME balance \in [C!Accounts -> Nat],
         NEW a \in C!Accounts, NEW v \in Nat, balance' = [balance EXCEPT ![a] = v]
  PROVE  /\ SumFunction(balance') = SumFunction(balance) - balance[a] + v
         /\ SumFunction(balance) \in Int
<1>1. IsFiniteSet(C!Accounts)
  BY ChestConstants
<1>2. balance \in [C!Accounts -> Int] /\ v \in Int
  OBVIOUS
<1>3. SumFunction(balance) \in Int
  BY BalanceIsSummed
<1> QED
  BY <1>1, <1>2, <1>3, SumUpdate

ChestAt(s, r) == command' = [command EXCEPT ![s] = r]

\* The types of the invariant, one by one.
LEMMA ChestTypes ==
  ASSUME ChestInv
  PROVE  /\ owner \in Members \cup {Nobody}
         /\ opened \subseteq C!Accounts /\ gifted \subseteq opened /\ gifted \subseteq C!Accounts
         /\ balance \in [C!Accounts -> Nat]
         /\ command \in [ChestCommands -> ChestOrders]
         /\ hurried \in BOOLEAN /\ lost \in Nat /\ chestFailures \in Nat
         /\ IsFiniteSet(gifted) /\ Cardinality(gifted) \in Nat
<1>1. /\ owner \in Members \cup {Nobody}
      /\ opened \subseteq C!Accounts /\ gifted \subseteq opened /\ gifted \subseteq C!Accounts
      /\ balance \in [C!Accounts -> Nat]
      /\ command \in [ChestCommands -> ChestOrders]
      /\ hurried \in BOOLEAN /\ lost \in Nat /\ chestFailures \in Nat
  BY DEF ChestInv, C!TypeOK, ChestOrders
<1>2. IsFiniteSet(gifted)
  BY <1>1, ChestConstants, FS_Subset
<1> QED
  BY <1>1, <1>2, FS_CardinalityType

\* Steps that move no LP.
LEMMA LpRests ==
  ASSUME ChestInv, NEW s \in ChestCommands, NEW r \in ChestOrders,
         ChestAt(s, r), Carried(command[s]) = 0, Carried(r) = 0,
         UNCHANGED <<balance, gifted, lost>>
  PROVE  Totals'
<1>1. /\ SumFunction(C!OnTheWay') = SumFunction(C!OnTheWay) - Carried(command[s]) + Carried(r)
      /\ SumFunction(C!OnTheWay) \in Int
  BY ChestTypes, OnTheWayMoves DEF ChestAt
<1>2. SumFunction(C!OnTheWay') = SumFunction(C!OnTheWay)
  BY <1>1
<1> QED
  BY <1>2 DEF Totals, ChestInv

\* A chest is claimed: no LP moves.
LEMMA ChestCreates ==
  ASSUME ChestInv, NEW s \in ChestCommands, NEW m \in Members, C!Create(s, m)
  PROVE  ChestInv'
<1> PICK r : r = [command[s] EXCEPT !.at = "seed"]
  OBVIOUS
<1>1. command[s] = C!Idle /\ command[s] \in ChestOrders /\ r \in ChestOrders /\ r.at = "seed"
  BY ChestTypes DEF C!Create, ChestOrders
<1>2. ChestAt(s, r)
  BY DEF C!Create, ChestAt
<1>3. Totals'
  BY <1>1, <1>2, LpRests DEF C!Create, C!Idle, Carried
<1>4. command' \in [ChestCommands -> ChestOrders]
  BY <1>1, <1>2, ChestTypes DEF ChestAt
<1>5. C!TypeOK'
  BY <1>4, ChestTypes DEF C!Create, C!TypeOK, ChestOrders
<1>6. owner' # Nobody => \E t \in ChestCommands : command'[t].at = "seed"
  BY <1>1, <1>2, ChestTypes DEF ChestAt
<1>7. \A t \in ChestCommands : command'[t].at \in {"debit", "credit"} =>
        /\ command'[t].from \in C!Accounts /\ command'[t].to \in C!Accounts
        /\ owner' # Nobody
  BY <1>1, <1>2, ChestTypes, ChestConstants DEF ChestAt, ChestInv, C!Create
<1> QED
  BY <1>3, <1>5, <1>6, <1>7 DEF ChestInv, C!Create, C!Accounts

\* What the steps after an order leave alone.
LEMMA OrdersKeep ==
  ASSUME ChestInv, NEW s \in ChestCommands, NEW r \in ChestOrders,
         ChestAt(s, r), owner' = owner,
         r.at \in {"debit", "credit"} =>
           r.from \in C!Accounts /\ r.to \in C!Accounts /\ owner # Nobody
  PROVE  /\ command' \in [ChestCommands -> ChestOrders]
         /\ command'[s] = r
         /\ \A t \in ChestCommands : t # s => command'[t] = command[t]
         /\ \A t \in ChestCommands : command'[t].at \in {"debit", "credit"} =>
              /\ command'[t].from \in C!Accounts /\ command'[t].to \in C!Accounts
              /\ owner' # Nobody
<1>1. /\ command' \in [ChestCommands -> ChestOrders]
      /\ command'[s] = r
      /\ \A t \in ChestCommands : t # s => command'[t] = command[t]
  BY ChestTypes DEF ChestAt
<1> QED
  BY <1>1 DEF ChestInv

\* A command at rest carries nothing.
LEMMA IdleIsAnOrder == C!Idle \in ChestOrders /\ C!Idle.at = "idle" /\ Carried(C!Idle) = 0
  BY DEF C!Idle, ChestOrders, Carried

\* The chest's account is opened, or that fails.
LEMMA ChestIsSeeded ==
  ASSUME ChestInv, NEW s \in ChestCommands, C!Seed(s) \/ C!SeedFails(s)
  PROVE  ChestInv'
<1>1. ChestAt(s, C!Idle) /\ command[s].at = "seed"
  BY DEF C!Seed, C!SeedFails, C!Done, ChestAt
<1>2. UNCHANGED <<owner, balance, gifted, lost>>
  BY DEF C!Seed, C!SeedFails
<1>3. Totals'
  BY <1>1, <1>2, LpRests, IdleIsAnOrder DEF Carried
<1>4. /\ command' \in [ChestCommands -> ChestOrders]
      /\ \A t \in ChestCommands : command'[t].at \in {"debit", "credit"} =>
           /\ command'[t].from \in C!Accounts /\ command'[t].to \in C!Accounts
           /\ owner' # Nobody
  BY <1>1, <1>2, OrdersKeep, IdleIsAnOrder
<1>5. \/ opened' = opened \cup {Chest} /\ hurried' = hurried /\ chestFailures' = chestFailures
      \/ opened' = opened /\ hurried' = TRUE /\ chestFailures' = chestFailures + 1
  BY DEF C!Seed, C!SeedFails, C!Fails
<1>6. /\ opened' \subseteq C!Accounts /\ hurried' \in BOOLEAN /\ chestFailures' \in Nat
      /\ gifted \subseteq opened' /\ (Chest \in opened' \/ hurried') /\ (hurried => hurried')
  <2>1. opened' \subseteq C!Accounts /\ gifted \subseteq opened'
    BY <1>5, ChestTypes DEF C!Accounts
  <2>2. hurried' \in BOOLEAN /\ (Chest \in opened' \/ hurried') /\ (hurried => hurried')
    <3>1. hurried \in BOOLEAN
      BY ChestTypes
    <3>2. Chest \in opened \cup {Chest}
      OBVIOUS
    <3>3. CASE opened' = opened \cup {Chest} /\ hurried' = hurried
      BY <3>1, <3>2, <3>3, Zenon
    <3>4. CASE hurried' = TRUE
      BY <3>4, Zenon
    <3> QED
      BY <1>5, <3>3, <3>4, Zenon
  <2>3. chestFailures' \in Nat
    BY <1>5, ChestTypes
  <2> QED
    BY <2>1, <2>2, <2>3
<1>7. C!TypeOK'
  <2>1. /\ owner' \in Members \cup {Nobody} /\ balance' \in [C!Accounts -> Nat]
        /\ gifted' \subseteq C!Accounts /\ lost' \in Nat
    BY <1>2, ChestTypes
  <2> QED
    BY <1>4, <1>6, <2>1 DEF C!TypeOK, ChestOrders
<1>8. Chest \in gifted' => hurried'
  BY <1>2, <1>6 DEF ChestInv
<1> QED
  BY <1>2, <1>3, <1>4, <1>6, <1>7, <1>8 DEF ChestInv

\* A command takes up an order.
LEMMA ChestIsOrdered ==
  ASSUME ChestInv, NEW s \in ChestCommands,
         NEW from \in C!Accounts, NEW to \in C!Accounts, NEW amount \in Amounts,
         C!Order(s, from, to, amount)
  PROVE  ChestInv'
<1> PICK r : r = [at |-> "debit", from |-> from, to |-> to, amount |-> amount]
  OBVIOUS
<1>1. ChestAt(s, r) /\ command[s] = C!Idle /\ owner # Nobody
  BY DEF C!Order, ChestAt
<1>2. r \in ChestOrders /\ r.at = "debit" /\ r.from = from /\ r.to = to
  BY DEF ChestOrders
<1>3. UNCHANGED <<owner, opened, balance, gifted, hurried, lost, chestFailures>>
  BY DEF C!Order
<1>4. Totals'
  BY <1>1, <1>2, <1>3, LpRests, IdleIsAnOrder DEF Carried
<1>5. /\ command' \in [ChestCommands -> ChestOrders]
      /\ \A t \in ChestCommands : t # s => command'[t] = command[t]
      /\ \A t \in ChestCommands : command'[t].at \in {"debit", "credit"} =>
           /\ command'[t].from \in C!Accounts /\ command'[t].to \in C!Accounts
           /\ owner' # Nobody
  BY <1>1, <1>2, <1>3, OrdersKeep
<1>6. \A t \in ChestCommands : command[t].at = "seed" => command'[t].at = "seed"
  BY <1>1, <1>5, IdleIsAnOrder
<1>7. C!TypeOK'
  BY <1>3, <1>5, ChestTypes DEF C!TypeOK, ChestOrders
<1> QED
  BY <1>3, <1>4, <1>5, <1>6, <1>7 DEF ChestInv

\* What a gift adds to the total of the gifts.
LEMMA GiftsCount ==
  ASSUME ChestInv, NEW a \in C!Accounts, NEW added,
         added = C!Seeded(a),
         gifted' = IF a \in opened THEN gifted ELSE gifted \cup {a}
  PROVE  /\ added \in Nat
         /\ Gift * Cardinality(gifted') = Gift * Cardinality(gifted) + added
         /\ Gift * Cardinality(gifted) \in Nat
<1> PICK g : g = Gift
  OBVIOUS
<1> PICK n : n = Cardinality(gifted)
  OBVIOUS
<1>1. g \in Nat /\ n \in Nat
  BY ChestConstants, ChestTypes
<1>2. g * n \in Nat /\ g * (n + 1) = g * n + g /\ g * n = g * n + 0
  BY <1>1
<1>3. CASE a \in opened
  BY <1>1, <1>2, <1>3 DEF C!Seeded
<1>4. CASE a \notin opened
  <2>1. a \notin gifted /\ gifted' = gifted \cup {a} /\ added = g
    BY <1>4, ChestTypes DEF C!Seeded
  <2>2. Cardinality(gifted') = n + 1
    BY <2>1, ChestTypes, FS_AddElement
  <2> QED
    BY <1>1, <1>2, <2>1, <2>2
<1> QED
  BY <1>3, <1>4

\* What the members started with is a number.
LEMMA LpToBeginWith ==
  StartLp * Cardinality(Members \ Newcomers) \in Int
<1> PICK n : n = Cardinality(Members \ Newcomers)
  OBVIOUS
<1>1. IsFiniteSet(Members \ Newcomers)
  <2>1. IsFiniteSet(Members)
    BY ChestConstants
  <2> QED
    BY <2>1, FS_Difference
<1>2. n \in Nat
  BY <1>1, FS_CardinalityType
<1>3. StartLp \in Nat
  BY ChestConstants
<1> QED
  BY <1>2, <1>3

\* The first transaction: the amount leaves, and is on the way.
LEMMA OrderIsDebited ==
  ASSUME ChestInv, NEW s \in ChestCommands, C!Debit(s)
  PROVE  ChestInv'
<1> PICK c : c = command[s]
  OBVIOUS
<1> PICK added : added = C!Seeded(c.from)
  OBVIOUS
<1> PICK held : held = balance[c.from] + added
  OBVIOUS
<1>1. /\ c.at = "debit"
      /\ opened' = opened \cup {c.from}
      /\ gifted' = IF c.from \in opened THEN gifted ELSE gifted \cup {c.from}
      /\ UNCHANGED <<owner, lost, chestFailures>>
  BY DEF C!Debit
<1>2. hurried' = (hurried \/ (c.from = Chest /\ \E t \in ChestCommands : command[t].at = "seed"))
  BY DEF C!Debit
<1>3. c \in ChestOrders /\ c.from \in C!Accounts /\ c.to \in C!Accounts /\ owner # Nobody
  BY <1>1, ChestTypes DEF ChestInv
<1>4. c.amount \in Nat /\ balance[c.from] \in Nat
  BY <1>3, ChestTypes, ChestConstants DEF ChestOrders
<1>5. /\ added \in Nat
      /\ Gift * Cardinality(gifted') = Gift * Cardinality(gifted) + added
      /\ Gift * Cardinality(gifted) \in Nat
  BY <1>1, <1>3, GiftsCount
<1>6. held \in Nat
  BY <1>4, <1>5
<1>7. \E r \in ChestOrders, v \in Nat :
        /\ ChestAt(s, r) /\ balance' = [balance EXCEPT ![c.from] = v]
        /\ v + Carried(r) = held
        /\ r.at \in {"debit", "credit"} => r.from = c.from /\ r.to = c.to
  <2>1. CASE held >= c.amount /\ balance' = [balance EXCEPT ![c.from] = held - c.amount]
             /\ command' = [command EXCEPT ![s].at = "credit"]
    <3> PICK r : r = [c EXCEPT !.at = "credit"]
      OBVIOUS
    <3>1. /\ r \in ChestOrders /\ r.at = "credit" /\ r.amount = c.amount
          /\ r.from = c.from /\ r.to = c.to
      BY <1>3 DEF ChestOrders
    <3>2. ChestAt(s, r)
      BY <2>1 DEF ChestAt
    <3>3. Carried(r) = c.amount
      BY <3>1 DEF Carried
    <3>4. held - c.amount \in Nat /\ held - c.amount + Carried(r) = held
      BY <1>4, <1>6, <2>1, <3>3
    <3> QED
      BY <2>1, <3>1, <3>2, <3>4
  <2>2. CASE balance' = [balance EXCEPT ![c.from] = held] /\ C!Done(s)
    <3>1. ChestAt(s, C!Idle) /\ held + Carried(C!Idle) = held
      BY <1>6, <2>2, IdleIsAnOrder DEF C!Done, ChestAt
    <3> QED
      BY <1>6, <2>2, <3>1, IdleIsAnOrder
  <2> QED
    BY <2>1, <2>2 DEF C!Debit
<1>8. PICK r \in ChestOrders, v \in Nat :
        /\ ChestAt(s, r) /\ balance' = [balance EXCEPT ![c.from] = v]
        /\ v + Carried(r) = held
        /\ r.at \in {"debit", "credit"} => r.from = c.from /\ r.to = c.to
  BY <1>7
<1>9. Totals'
  <2> PICK sb : sb = SumFunction(balance)
    OBVIOUS
  <2> PICK sw : sw = SumFunction(C!OnTheWay)
    OBVIOUS
  <2>1. SumFunction(balance') = sb - balance[c.from] + v /\ sb \in Int
    BY <1>3, <1>8, ChestTypes, BalanceMoves
  <2>2. /\ SumFunction(C!OnTheWay') = sw - Carried(command[s]) + Carried(r)
        /\ sw \in Int /\ Carried(r) \in Nat
    BY <1>8, ChestTypes, OnTheWayMoves DEF ChestAt
  <2>3. Carried(command[s]) = 0
    BY <1>1 DEF Carried
  <2>4. SumFunction(balance') + SumFunction(C!OnTheWay') = sb + sw + added
    BY <1>4, <1>5, <1>6, <1>8, <2>1, <2>2, <2>3
  <2>5. sb + sw + lost = StartLp * Cardinality(Members \ Newcomers) + Gift * Cardinality(gifted)
    BY DEF ChestInv, Totals
  <2>6. StartLp * Cardinality(Members \ Newcomers) \in Int
    BY LpToBeginWith
  <2>7. lost \in Int /\ lost' = lost
    BY <1>1, ChestTypes
  <2>8. SumFunction(balance') + SumFunction(C!OnTheWay') + lost'
          = StartLp * Cardinality(Members \ Newcomers) + Gift * Cardinality(gifted')
    <3> PICK before : before = Gift * Cardinality(gifted)
      OBVIOUS
    <3> PICK after : after = Gift * Cardinality(gifted')
      OBVIOUS
    <3> PICK start : start = StartLp * Cardinality(Members \ Newcomers)
      OBVIOUS
    <3> PICK total : total = SumFunction(balance') + SumFunction(C!OnTheWay')
      OBVIOUS
    <3>1. before \in Nat /\ added \in Nat /\ start \in Int /\ after = before + added
      BY <1>5, <2>6
    <3>2. total = sb + sw + added /\ sb + sw + lost = start + before
      BY <2>4, <2>5
    <3>3. total + lost = start + after
      BY <2>1, <2>2, <2>7, <3>1, <3>2
    <3> QED
      BY <2>7, <3>3
  <2> QED
    BY <2>8 DEF Totals
<1>10. /\ command' \in [ChestCommands -> ChestOrders]
       /\ \A t \in ChestCommands : t # s => command'[t] = command[t]
       /\ \A t \in ChestCommands : command'[t].at \in {"debit", "credit"} =>
            /\ command'[t].from \in C!Accounts /\ command'[t].to \in C!Accounts
            /\ owner' # Nobody
  BY <1>1, <1>3, <1>8, OrdersKeep
<1>11. hurried' \in BOOLEAN /\ (hurried => hurried')
  BY <1>2, Zenon
<1>12. gifted' \subseteq opened' /\ opened' \subseteq C!Accounts /\ opened \subseteq opened'
  BY <1>1, <1>3, ChestTypes
<1>13. C!TypeOK'
  <2>1. balance' \in [C!Accounts -> Nat] /\ gifted' \subseteq C!Accounts
        /\ owner' \in Members \cup {Nobody} /\ lost' \in Nat /\ chestFailures' \in Nat
    BY <1>1, <1>8, <1>12, ChestTypes
  <2> QED
    BY <1>10, <1>11, <1>12, <2>1 DEF C!TypeOK, ChestOrders
<1>14. owner' # Nobody => \/ Chest \in opened' \/ hurried'
                          \/ \E t \in ChestCommands : command'[t].at = "seed"
  <2>1. CASE Chest \in opened
    BY <2>1, <1>12
  <2>2. CASE hurried
    BY <2>2, <1>11
  <2>3. ASSUME NEW t \in ChestCommands, command[t].at = "seed"
        PROVE  \E q \in ChestCommands : command'[q].at = "seed"
    BY <1>1, <1>10, <2>3
  <2> QED
    BY <1>1, <2>1, <2>2, <2>3 DEF ChestInv
<1>15. Chest \in gifted' => hurried'
  <2>1. CASE Chest \in gifted
    BY <2>1, <1>11 DEF ChestInv
  <2>2. CASE Chest \notin gifted
    <3> SUFFICES ASSUME Chest \in gifted' PROVE hurried'
      OBVIOUS
    <3>1. c.from = Chest /\ Chest \notin opened
      BY <1>1, <2>2
    <3>2. hurried \/ \E t \in ChestCommands : command[t].at = "seed"
      BY <1>3, <3>1 DEF ChestInv
    <3> QED
      BY <1>2, <3>1, <3>2, Zenon
  <2> QED
    BY <2>1, <2>2
<1> QED
  BY <1>9, <1>10, <1>12, <1>13, <1>14, <1>15 DEF ChestInv

\* The second transaction, done or not.
LEMMA OrderIsCredited ==
  ASSUME ChestInv, NEW s \in ChestCommands,
         C!Credit(s) \/ C!CreditFails(s)
  PROVE  ChestInv'
<1> PICK c : c = command[s]
  OBVIOUS
<1>1. /\ c.at = "credit" /\ ChestAt(s, C!Idle)
      /\ UNCHANGED <<owner, gifted, hurried>>
  BY DEF C!Credit, C!CreditFails, C!Done, ChestAt
<1>2. c \in ChestOrders /\ c.to \in C!Accounts
  BY <1>1, ChestTypes DEF ChestInv
<1>3. c.amount \in Nat /\ balance[c.to] \in Nat /\ lost \in Nat
  BY <1>2, ChestTypes, ChestConstants DEF ChestOrders
<1>4. /\ balance' \in [C!Accounts -> Nat] /\ lost' \in Nat /\ chestFailures' \in Nat
      /\ opened \subseteq opened' /\ opened' \subseteq C!Accounts
      /\ SumFunction(balance') + lost' = SumFunction(balance) + lost + c.amount
      /\ SumFunction(balance) \in Int /\ SumFunction(balance') \in Int
  <2>0. SumFunction(balance) \in Int
    BY <1>2, <1>3, ChestTypes, BalanceIsSummed
  <2>1. CASE C!Credit(s)
    <3>1. /\ opened' = opened \cup {c.to} /\ UNCHANGED <<lost, chestFailures>>
          /\ balance' = [balance EXCEPT ![c.to] = balance[c.to] + c.amount]
      BY <2>1 DEF C!Credit
    <3> PICK v : v = balance[c.to] + c.amount
      OBVIOUS
    <3>2. v \in Nat /\ balance' = [balance EXCEPT ![c.to] = v]
      BY <1>3, <3>1
    <3>3. SumFunction(balance') = SumFunction(balance) - balance[c.to] + v
      BY <1>2, <3>2, ChestTypes, BalanceMoves
    <3>4. /\ SumFunction(balance') + lost = SumFunction(balance) + lost + c.amount
          /\ SumFunction(balance') \in Int
      BY <1>3, <2>0, <3>2, <3>3
    <3>5. balance' \in [C!Accounts -> Nat]
      BY <3>2, ChestTypes
    <3>6. lost' \in Nat /\ chestFailures' \in Nat
      BY <3>1, ChestTypes
    <3>7. opened \subseteq opened' /\ opened' \subseteq C!Accounts
      BY <1>2, <3>1, ChestTypes
    <3>8. SumFunction(balance') + lost' = SumFunction(balance) + lost + c.amount
      BY <3>1, <3>4
    <3> QED
      BY <2>0, <3>4, <3>5, <3>6, <3>7, <3>8
  <2>2. CASE C!CreditFails(s)
    <3>1. /\ UNCHANGED <<opened, balance>> /\ lost' = lost + c.amount
          /\ chestFailures' = chestFailures + 1
      BY <2>2 DEF C!CreditFails, C!Fails
    <3> QED
      BY <1>3, <2>0, <3>1, ChestTypes
  <2> QED
    BY <2>1, <2>2
<1>5. Totals'
  <2> PICK sw : sw = SumFunction(C!OnTheWay)
    OBVIOUS
  <2> PICK was : was = StartLp * Cardinality(Members \ Newcomers) + Gift * Cardinality(gifted)
    OBVIOUS
  <2>1. /\ SumFunction(C!OnTheWay') = sw - Carried(command[s]) + Carried(C!Idle)
        /\ sw \in Int
    BY <1>1, ChestTypes, IdleIsAnOrder, OnTheWayMoves DEF ChestAt
  <2>2. Carried(command[s]) = c.amount /\ Carried(C!Idle) = 0
    BY <1>1, IdleIsAnOrder DEF Carried
  <2>3. SumFunction(balance) + sw + lost = was
    BY DEF ChestInv, Totals
  <2>4. SumFunction(balance') + SumFunction(C!OnTheWay') + lost' = was
    BY <1>3, <1>4, <2>1, <2>2, <2>3
  <2> QED
    BY <1>1, <2>4 DEF Totals
<1>6. /\ command' \in [ChestCommands -> ChestOrders]
      /\ \A t \in ChestCommands : t # s => command'[t] = command[t]
      /\ \A t \in ChestCommands : command'[t].at \in {"debit", "credit"} =>
           /\ command'[t].from \in C!Accounts /\ command'[t].to \in C!Accounts
           /\ owner' # Nobody
  BY <1>1, IdleIsAnOrder, OrdersKeep
<1>7. C!TypeOK'
  BY <1>1, <1>4, <1>6, ChestTypes DEF C!TypeOK, ChestOrders
<1>8. owner' # Nobody => \/ Chest \in opened' \/ hurried'
                         \/ \E t \in ChestCommands : command'[t].at = "seed"
  <2>1. ASSUME NEW t \in ChestCommands, command[t].at = "seed"
        PROVE  \E q \in ChestCommands : command'[q].at = "seed"
    BY <1>1, <1>6, <2>1
  <2> QED
    BY <1>1, <1>4, <2>1 DEF ChestInv
<1> QED
  BY <1>1, <1>4, <1>5, <1>6, <1>7, <1>8, ChestTypes DEF ChestInv

\* Every step of a command keeps the invariant.
LEMMA ChestStep ==
  ASSUME ChestInv, [C!Next]_C!chestVars
  PROVE  ChestInv'
<1>1. CASE C!Next
  BY <1>1, ChestCreates, ChestIsSeeded, ChestIsOrdered, OrderIsDebited, OrderIsCredited
  DEF C!Next
<1>2. CASE UNCHANGED C!chestVars
  BY <1>2 DEF C!chestVars, ChestInv, C!TypeOK, Totals, C!OnTheWay
<1> QED
  BY <1>1, <1>2

\* LP is moved and not made (treasure-chest.ts): balances, what is on the way and
\* what a failed credit lost add up to the starts and the gifts, for any members,
\* amounts and commands at once.
THEOREM ChestsKeepTheirLp == C!Spec => []ChestsConserveLp
<1>1. C!Init => ChestInv
  BY ChestInit
<1>2. ChestInv /\ [C!Next]_C!chestVars => ChestInv'
  BY ChestStep
<1>3. ChestInv => ChestsConserveLp
  BY ChestsCount DEF ChestInv, Totals, ChestsConserveLp, C!ChestsConserveLp
<1> QED
  BY <1>1, <1>2, <1>3, PTL DEF C!Spec

-----------------------------------------------------------------------------
(***************************************************************************)
(* EventPlanner: one post per planned day.                                 *)
(***************************************************************************)

PlannerRecords == [at : {"idle", "read", "act"}, lastEval : Int, nextFire : Int]
RollRecords == [at : {"none", "roll", "resolve"}, day : Int]

PlanTyped ==
  /\ clock \in Nat /\ planned \in Int /\ timer \in Int
  /\ schedule \in [lastEval : Int, nextFire : Int]
  /\ planner \in [Planners -> PlannerRecords]
  /\ roll \in [Rolls -> RollRecords]
  /\ sends \in [E!Days -> Nat]

RollsFor(r, d) == roll[r].at # "none" /\ roll[r].day = d
Rolling(d) == \E r \in Rolls : RollsFor(r, d)
Used(d) == sends[d] > 0 \/ Rolling(d)
Ready(p) == planner[p].at = "act" /\ planner[p].nextFire # E!None
Armed == timer # E!None \/ schedule.nextFire # E!None \/ \E p \in Planners : Ready(p)

\* What is known of a day nothing went wrong on: the plan of the day is on
\* record while anything can set it off, and nothing can any more once it was
\* rolled.
DayInv(d) ==
  /\ sends[d] <= 1
  /\ \A r \in Rolls : RollsFor(r, d) /\ roll[r].at = "roll" => sends[d] = 0
  /\ \A q, r \in Rolls : RollsFor(q, d) /\ RollsFor(r, d) => q = r
  /\ d = planned /\ Armed => schedule.lastEval = d
  /\ d = planned /\ Used(d) =>
       /\ timer = E!None /\ schedule.lastEval = d
       /\ \A p \in Planners : planner[p].at = "act" =>
            planner[p].nextFire = E!None /\ planner[p].lastEval = d /\ ~Rolling(d)
       /\ ~Rolling(d) => schedule.nextFire = E!None

PlanInv ==
  /\ PlanTyped
  /\ planned <= E!Today
  /\ \A r \in Rolls : roll[r].at # "none" => roll[r].day <= planned
  /\ \A d \in E!Days : d > planned => sends[d] = 0
  /\ \A d \in E!Days : d \notin flawed => DayInv(d)

\* The day does not fall back as the clock advances.
LEMMA DaysPass ==
  ASSUME NEW n \in Nat
  PROVE  n \div PlanDayLength <= (n + 1) \div PlanDayLength
<1>1. PICK D \in Nat \ {0} : D = PlanDayLength
  BY PlanDays DEF E!DayAssumption
<1>2. PICK a \in Int : a = n \div D
  BY <1>1
<1>3. PICK b \in Int : b = (n + 1) \div D
  BY <1>1
<1>4. D * a <= n /\ n + 1 < D * (b + 1)
  BY <1>1, <1>2, <1>3
<1>5. ~(b < a)
  <2> SUFFICES ASSUME b + 1 <= a PROVE FALSE
    BY <1>1
  <2>1. PICK c \in Nat : a = (b + 1) + c
    <3>1. a - (b + 1) \in Nat /\ a = (b + 1) + (a - (b + 1))
      OBVIOUS
    <3> QED
      BY <3>1
  <2>2. D * a = D * (b + 1) + D * c
    BY <2>1
  <2>3. D * c \in Nat
    OBVIOUS
  <2> QED
    BY <1>4, <2>2, <2>3
<1> QED
  BY <1>1, <1>2, <1>3, <1>5

\* Records at rest are of the types.
LEMMA PlanConstants ==
  /\ E!None = -1 /\ E!None \in Int
  /\ E!Waiting \in PlannerRecords /\ E!Waiting.at = "idle"
  /\ E!NoRoll \in RollRecords /\ E!NoRoll.at = "none"
  BY DEF E!None, E!Waiting, E!NoRoll, PlannerRecords, RollRecords

\* A step that sets nothing off and rolls nothing.
LEMMA PlanStays ==
  ASSUME PlanInv, NEW d \in E!Days, d \notin flawed,
         roll' = roll, sends' = sends, planned' = planned,
         schedule'.lastEval = schedule.lastEval,
         schedule'.nextFire # E!None => schedule.nextFire # E!None,
         timer' # E!None => timer # E!None \/ \E p \in Planners : Ready(p),
         d = planned => \A p \in Planners : planner'[p].at = "act" =>
           \/ planner[p] = planner'[p]
           \/ /\ planner'[p].nextFire = schedule.nextFire
              /\ planner'[p].lastEval = schedule.lastEval
              /\ \A r \in Rolls : roll[r].at = "none"
  PROVE  DayInv(d)'
<1>1. DayInv(d)
  BY DEF PlanInv
<1>2. /\ \A r \in Rolls : RollsFor(r, d)' <=> RollsFor(r, d)
      /\ Rolling(d)' <=> Rolling(d)
      /\ Used(d)' <=> Used(d)
  BY DEF RollsFor, Rolling, Used
<1>3. d = planned /\ Armed' => Armed
  BY DEF Armed, Ready
<1>4. ASSUME d = planned, Used(d)
      PROVE  /\ timer' = E!None /\ schedule'.lastEval = d
             /\ \A p \in Planners : planner'[p].at = "act" =>
                  planner'[p].nextFire = E!None /\ planner'[p].lastEval = d /\ ~Rolling(d)
             /\ ~Rolling(d) => schedule'.nextFire = E!None
  <2>1. /\ timer = E!None /\ schedule.lastEval = d
        /\ \A p \in Planners : planner[p].at = "act" =>
             planner[p].nextFire = E!None /\ planner[p].lastEval = d /\ ~Rolling(d)
        /\ ~Rolling(d) => schedule.nextFire = E!None
    BY <1>1, <1>4 DEF DayInv
  <2>2. timer' = E!None
    BY <2>1 DEF Ready
  <2>3. ASSUME NEW p \in Planners, planner'[p].at = "act"
        PROVE  planner'[p].nextFire = E!None /\ planner'[p].lastEval = d /\ ~Rolling(d)
    <3>1. CASE planner[p] = planner'[p]
      BY <2>1, <2>3, <3>1
    <3>2. CASE /\ planner'[p].nextFire = schedule.nextFire
               /\ planner'[p].lastEval = schedule.lastEval
               /\ \A r \in Rolls : roll[r].at = "none"
      BY <2>1, <3>2 DEF Rolling, RollsFor
    <3> QED
      BY <1>4, <2>3, <3>1, <3>2
  <2> QED
    BY <2>1, <2>2, <2>3
<1>5. /\ sends'[d] <= 1
      /\ \A r \in Rolls : RollsFor(r, d)' /\ roll'[r].at = "roll" => sends'[d] = 0
      /\ \A q, r \in Rolls : RollsFor(q, d)' /\ RollsFor(r, d)' => q = r
  BY <1>1, <1>2 DEF DayInv
<1>6. d = planned' /\ Armed' => schedule'.lastEval = d
  BY <1>1, <1>3 DEF DayInv
<1> QED
  BY <1>2, <1>4, <1>5, <1>6 DEF DayInv

\* The steps that plan nothing anew and roll nothing.
LEMMA PlannerWorks ==
  ASSUME PlanInv,
         \/ E!Tick \/ E!Boot \/ E!NewDay
         \/ \E p \in Planners : E!ReadState(p) \/ E!NothingToPlan(p) \/ E!Arm(p) \/ E!GiveUp(p)
  PROVE  PlanInv'
<1>0. PlanTyped
  BY DEF PlanInv
<1>1. roll' = roll /\ sends' = sends /\ planned' = planned /\ flawed \subseteq flawed'
  BY DEF E!Tick, E!Boot, E!NewDay, E!ReadState, E!NothingToPlan, E!Arm, E!GiveUp
<1>2. clock' \in Nat /\ planned' <= E!Today'
  <2>1. CASE clock' = clock
    BY <1>0, <1>1, <2>1 DEF PlanInv, PlanTyped, E!Today
  <2>2. CASE clock' = clock + 1
    <3>1. PICK a, b : a = clock \div PlanDayLength /\ b = (clock + 1) \div PlanDayLength
      OBVIOUS
    <3>2. a \in Int /\ b \in Int /\ a <= b
      BY <1>0, <3>1, DaysPass, PlanDays DEF PlanTyped, E!DayAssumption
    <3>3. planned <= a /\ planned \in Int
      BY <1>0, <3>1 DEF PlanInv, PlanTyped, E!Today
    <3> QED
      BY <1>0, <1>1, <2>2, <3>1, <3>2, <3>3 DEF PlanTyped, E!Today
  <2> QED
    BY <2>1, <2>2 DEF E!Tick, E!Boot, E!NewDay, E!ReadState, E!NothingToPlan, E!Arm, E!GiveUp
<1>3. CASE E!Tick \/ E!Boot \/ E!NewDay \/ \E p \in Planners : E!NothingToPlan(p)
  <2>1. timer' = timer /\ schedule' = schedule
    BY <1>3 DEF E!Tick, E!Boot, E!NewDay, E!NothingToPlan
  <2>2. /\ planner' \in [Planners -> PlannerRecords]
        /\ \A p \in Planners : planner'[p].at = "act" => planner'[p] = planner[p]
    <3>1. CASE E!Tick
      BY <1>0, <3>1 DEF E!Tick, PlanTyped
    <3>2. CASE E!Boot \/ E!NewDay
      <4>1. PICK k : planner' = [planner EXCEPT ![k].at = "read"]
        BY <3>2 DEF E!Boot, E!NewDay
      <4> QED
        BY <1>0, <4>1 DEF PlanTyped, PlannerRecords
    <3>3. CASE \E p \in Planners : E!NothingToPlan(p)
      <4>1. PICK k : planner' = [planner EXCEPT ![k] = E!Waiting]
        BY <3>3 DEF E!NothingToPlan, E!Done
      <4> QED
        BY <1>0, <4>1, PlanConstants DEF PlanTyped
    <3> QED
      BY <1>3, <3>1, <3>2, <3>3
  <2>3. \A d \in E!Days : d \notin flawed' => DayInv(d)'
    BY <1>1, <2>1, <2>2, PlanStays
  <2>4. PlanTyped'
    BY <1>0, <1>1, <1>2, <2>1, <2>2 DEF PlanTyped
  <2> QED
    BY <1>1, <1>2, <2>3, <2>4 DEF PlanInv
<1>4. ASSUME NEW p \in Planners, E!ReadState(p) PROVE PlanInv'
  <2>1. PICK fails \in BOOLEAN :
          /\ planner' = [planner EXCEPT ![p] = [at |-> "act",
                           lastEval |-> (IF fails THEN E!NoPlan ELSE schedule).lastEval,
                           nextFire |-> (IF fails THEN E!NoPlan ELSE schedule).nextFire]]
          /\ flawed' = IF \/ fails
                          \/ \E q \in Planners \ {p} : planner[q].at # "idle"
                          \/ \E r \in Rolls : roll[r].at # "none"
                      THEN flawed \cup {E!Today, planned} ELSE flawed
    BY <1>4 DEF E!ReadState
  <2>2. PICK k : k = [at |-> "act", lastEval |-> (IF fails THEN E!NoPlan ELSE schedule).lastEval,
                      nextFire |-> (IF fails THEN E!NoPlan ELSE schedule).nextFire]
    OBVIOUS
  <2>3. k \in PlannerRecords
    BY <1>0, <2>2, PlanConstants DEF PlanTyped, E!NoPlan, PlannerRecords
  <2>4. /\ planner' \in [Planners -> PlannerRecords] /\ planner'[p] = k
        /\ \A q \in Planners : q # p => planner'[q] = planner[q]
    BY <1>0, <2>1, <2>2, <2>3 DEF PlanTyped
  <2>5. timer' = timer /\ schedule' = schedule
    BY <1>4 DEF E!ReadState
  <2>6. ASSUME NEW d \in E!Days, d \notin flawed' PROVE DayInv(d)'
    <3>1. ASSUME d = planned, NEW q \in Planners, planner'[q].at = "act"
          PROVE  \/ planner[q] = planner'[q]
                 \/ /\ planner'[q].nextFire = schedule.nextFire
                    /\ planner'[q].lastEval = schedule.lastEval
                    /\ \A r \in Rolls : roll[r].at = "none"
      <4>1. CASE q # p
        BY <2>4, <4>1
      <4>2. CASE q = p
        <5>1. ~(fails \/ \E r \in Rolls : roll[r].at # "none")
          <6> SUFFICES ASSUME fails \/ \E r \in Rolls : roll[r].at # "none" PROVE FALSE
            OBVIOUS
          <6>1. CASE fails = TRUE
            <7>1. flawed' = flawed \cup {E!Today, planned}
              BY <2>1, <6>1
            <7> QED
              BY <2>6, <3>1, <7>1
          <6>2. CASE \E r \in Rolls : roll[r].at # "none"
            <7>1. flawed' = flawed \cup {E!Today, planned}
              BY <2>1, <6>2, Zenon
            <7> QED
              BY <2>6, <3>1, <7>1
          <6> QED
            BY <6>1, <6>2
        <5> QED
          BY <2>2, <2>4, <4>2, <5>1
      <4> QED
        BY <4>1, <4>2
    <3>2. d \notin flawed
      BY <1>1, <2>6
    <3> QED
      BY <1>1, <2>5, <3>1, <3>2, PlanStays
  <2>7. PlanTyped'
    BY <1>0, <1>1, <1>2, <2>4, <2>5 DEF PlanTyped
  <2> QED
    BY <1>1, <1>2, <2>6, <2>7 DEF PlanInv
<1>5. ASSUME NEW p \in Planners, E!Arm(p) \/ E!GiveUp(p) PROVE PlanInv'
  <2>1. /\ planner' = [planner EXCEPT ![p] = E!Waiting]
        /\ schedule' = schedule \/ schedule' = [schedule EXCEPT !.nextFire = E!None]
        /\ timer' = timer \/ (timer' = planner[p].nextFire /\ planner[p].at = "act" /\ planner[p].nextFire > clock)
    BY <1>5 DEF E!Arm, E!GiveUp, E!Done
  <2>2. /\ planner' \in [Planners -> PlannerRecords]
        /\ \A q \in Planners : planner'[q].at = "act" => planner'[q] = planner[q]
    BY <1>0, <2>1, PlanConstants DEF PlanTyped
  <2>3. /\ schedule' \in [lastEval : Int, nextFire : Int] /\ schedule'.lastEval = schedule.lastEval
        /\ (schedule'.nextFire # E!None => schedule.nextFire # E!None)
    BY <1>0, <2>1, PlanConstants DEF PlanTyped
  <2>4. timer' \in Int /\ (timer' # E!None => timer # E!None \/ \E q \in Planners : Ready(q))
    <3>1. planner[p] \in PlannerRecords /\ clock \in Nat /\ timer \in Int
      BY <1>0 DEF PlanTyped
    <3>2. planner[p].nextFire \in Int
      BY <3>1 DEF PlannerRecords
    <3>3. planner[p].nextFire > clock => planner[p].nextFire # E!None
      BY <3>1, <3>2, PlanConstants
    <3> QED
      BY <2>1, <3>1, <3>2, <3>3 DEF Ready
  <2>5. \A d \in E!Days : d \notin flawed' => DayInv(d)'
    BY <1>1, <2>2, <2>3, <2>4, PlanStays
  <2>6. PlanTyped'
    BY <1>0, <1>1, <1>2, <2>2, <2>3, <2>4 DEF PlanTyped
  <2> QED
    BY <1>1, <1>2, <2>5, <2>6 DEF PlanInv
<1> QED
  BY <1>3, <1>4, <1>5

\* The plan is made anew: what was there of an older one is taken for it.
LEMMA PlanIsMade ==
  ASSUME PlanInv, NEW p \in Planners, E!PlanToday(p)
  PROVE  PlanInv'
<1>0. PlanTyped
  BY DEF PlanInv
<1>1. /\ planner[p].at = "act" /\ planner[p].nextFire = E!None /\ planner[p].lastEval # E!Today
      /\ planned' = E!Today /\ clock' = clock /\ timer' = timer /\ roll' = roll /\ sends' = sends
  BY DEF E!PlanToday
<1>2. PICK minute \in WindowStart .. WindowEnd, fails \in BOOLEAN :
        /\ schedule' = IF fails THEN schedule ELSE E!Stamp(E!Today * PlanDayLength + minute)
        /\ flawed' = IF fails THEN flawed \cup {E!Today} ELSE flawed
        /\ planner' = [planner EXCEPT ![p].nextFire = E!Today * PlanDayLength + minute]
  BY DEF E!PlanToday
<1>3. PICK at : at = E!Today * PlanDayLength + minute
  OBVIOUS
<1>4. PICK today : today = E!Today
  OBVIOUS
<1>5. today \in Int /\ at \in Int
  <2>1. today \in Int /\ PlanDayLength \in Int
    BY <1>0, <1>4, PlanDays DEF PlanTyped, E!DayAssumption, E!Today
  <2>2. today * PlanDayLength \in Int
    BY <2>1
  <2> QED
    BY <1>3, <1>4, <2>1, <2>2
<1>6. planned <= today /\ planned' = today /\ planned \in Int
  BY <1>0, <1>1, <1>4 DEF PlanInv, PlanTyped
<1>7. PICK k : k = [planner[p] EXCEPT !.nextFire = at]
  OBVIOUS
<1>8. /\ planner' \in [Planners -> PlannerRecords] /\ planner'[p] = k
      /\ \A q \in Planners : q # p => planner'[q] = planner[q]
  <2>1. planner' = [planner EXCEPT ![p] = k]
    BY <1>2, <1>3, <1>7
  <2>2. k \in PlannerRecords
    BY <1>0, <1>5, <1>7 DEF PlanTyped, PlannerRecords
  <2> QED
    BY <1>0, <2>1, <2>2 DEF PlanTyped
<1>9. schedule' \in [lastEval : Int, nextFire : Int]
  BY <1>0, <1>2, <1>3, <1>4, <1>5 DEF PlanTyped, E!Stamp
<1>10. PlanTyped'
  BY <1>0, <1>1, <1>4, <1>5, <1>8, <1>9 DEF PlanTyped
<1>11. planned' <= E!Today'
  <2>1. E!Today' = today
    BY <1>1, <1>4 DEF E!Today
  <2> QED
    BY <1>5, <1>6, <2>1
<1>12. \A r \in Rolls : roll'[r].at # "none" => roll'[r].day <= planned'
  <2> SUFFICES ASSUME NEW r \in Rolls, roll[r].at # "none" PROVE roll[r].day <= today
    BY <1>1, <1>4
  <2>1. roll[r].day \in Int /\ roll[r].day <= planned
    BY <1>0 DEF PlanInv, PlanTyped, RollRecords
  <2> QED
    BY <1>5, <1>6, <2>1
<1>13. \A d \in E!Days : d > planned' => sends'[d] = 0
  <2> SUFFICES ASSUME NEW d \in E!Days, d > today PROVE sends[d] = 0
    BY <1>1, <1>4
  <2>1. d > planned
    BY <1>5, <1>6 DEF E!Days
  <2> QED
    BY <2>1 DEF PlanInv
<1>14. ASSUME NEW d \in E!Days, d \notin flawed' PROVE DayInv(d)'
  <2>1. DayInv(d)
    BY <1>2, <1>14 DEF PlanInv
  <2>2. /\ \A r \in Rolls : RollsFor(r, d)' <=> RollsFor(r, d)
        /\ Used(d)' <=> Used(d)
    BY <1>1 DEF RollsFor, Rolling, Used
  <2>3. /\ sends'[d] <= 1
        /\ \A r \in Rolls : RollsFor(r, d)' /\ roll'[r].at = "roll" => sends'[d] = 0
        /\ \A q, r \in Rolls : RollsFor(q, d)' /\ RollsFor(r, d)' => q = r
    BY <1>1, <2>1, <2>2 DEF DayInv
  <2>4. d = planned' => schedule'.lastEval = d
    BY <1>2, <1>4, <1>6, <1>14 DEF E!Stamp
  <2>5. d = planned' => ~Used(d)
    <3> SUFFICES ASSUME d = today, Used(d) PROVE FALSE
      BY <1>6
    <3>1. CASE d = planned
      <4>1. planner[p].lastEval = d
        BY <1>1, <2>1, <3>1 DEF DayInv
      <4> QED
        BY <1>1, <1>4, <4>1
    <3>2. CASE d # planned
      <4>1. d > planned
        BY <1>5, <1>6, <3>2
      <4>2. sends[d] = 0
        BY <4>1 DEF PlanInv
      <4>3. \A r \in Rolls : ~RollsFor(r, d)
        <5> SUFFICES ASSUME NEW r \in Rolls, roll[r].at # "none", roll[r].day = d PROVE FALSE
          BY DEF RollsFor
        <5>1. roll[r].day <= planned
          BY DEF PlanInv
        <5> QED
          BY <1>5, <1>6, <4>1, <5>1
      <4> QED
        BY <4>2, <4>3 DEF Used, Rolling
    <3> QED
      BY <3>1, <3>2
  <2> QED
    BY <2>2, <2>3, <2>4, <2>5 DEF DayInv
<1> QED
  BY <1>10, <1>11, <1>12, <1>13, <1>14 DEF PlanInv

\* A roll begins: it is the day's only one, or the day is flawed.
LEMMA RollBegins ==
  ASSUME PlanInv,
         E!GoOff \/ \E p \in Planners : E!CatchUp(p)
  PROVE  PlanInv'
<1>0. PlanTyped
  BY DEF PlanInv
<1>1. /\ planned' = planned /\ clock' = clock /\ schedule' = schedule /\ sends' = sends
  BY DEF E!GoOff, E!CatchUp
<1>2. PICK raced :
        /\ E!Begin(raced)
        /\ planner' \in [Planners -> PlannerRecords]
        /\ timer' \in Int
        /\ Armed /\ (timer # E!None \/ \E p \in Planners : Ready(p))
        /\ ~raced => timer' = E!None /\ \A p \in Planners : planner'[p].at # "act"
        /\ Armed' => Armed
  <2>1. CASE E!GoOff
    <3>1. PICK raced : raced = \E q \in Planners : planner[q].at # "idle"
      OBVIOUS
    <3>2. /\ E!Begin(raced) /\ planner' = planner /\ timer' = E!None /\ timer # E!None
      BY <2>1, <3>1 DEF E!GoOff
    <3>3. ~raced => \A p \in Planners : planner'[p].at # "act"
      BY <3>1, <3>2
    <3>4. Armed
      BY <3>2 DEF Armed
    <3>5. planner' \in [Planners -> PlannerRecords] /\ timer' \in Int
      BY <1>0, <3>2, PlanConstants DEF PlanTyped
    <3> QED
      BY <3>2, <3>3, <3>4, <3>5
  <2>2. CASE \E p \in Planners : E!CatchUp(p)
    <3>1. PICK p \in Planners : E!CatchUp(p)
      BY <2>2
    <3>2. PICK raced : raced = (timer # E!None \/ \E q \in Planners \ {p} : planner[q].at # "idle")
      OBVIOUS
    <3>3. /\ E!Begin(raced) /\ planner' = [planner EXCEPT ![p] = E!Waiting] /\ timer' = timer
          /\ planner[p].at = "act" /\ planner[p].nextFire # E!None
      BY <3>1, <3>2 DEF E!CatchUp, E!Done
    <3>4. /\ planner' \in [Planners -> PlannerRecords] /\ planner'[p].at = "idle"
          /\ \A q \in Planners : q # p => planner'[q] = planner[q]
      BY <1>0, <3>3, PlanConstants DEF PlanTyped
    <3>5. ~raced => timer' = E!None /\ \A q \in Planners : planner'[q].at # "act"
      BY <3>2, <3>3, <3>4
    <3>6. Ready(p) /\ Armed
      BY <3>3 DEF Ready, Armed
    <3>7. timer' \in Int
      BY <1>0, <3>3 DEF PlanTyped
    <3> QED
      BY <3>3, <3>4, <3>5, <3>6, <3>7
  <2> QED
    BY <2>1, <2>2
<1>3. PICK r \in Rolls :
        /\ roll[r] = E!NoRoll
        /\ roll' = [roll EXCEPT ![r] = [at |-> "roll", day |-> planned]]
        /\ flawed' = IF raced \/ \E q \in Rolls : roll[q].at # "none"
                       THEN flawed \cup {planned} ELSE flawed
  BY <1>2 DEF E!Begin
<1>4. /\ roll' \in [Rolls -> RollRecords]
      /\ roll'[r].at = "roll" /\ roll'[r].day = planned
      /\ \A q \in Rolls : q # r => roll'[q] = roll[q]
  <2>1. planned \in Int
    BY <1>0 DEF PlanTyped
  <2>2. [at |-> "roll", day |-> planned] \in RollRecords
    BY <2>1 DEF RollRecords
  <2> QED
    BY <1>0, <1>3, <2>2 DEF PlanTyped
<1>5. PlanTyped'
  BY <1>0, <1>1, <1>2, <1>4 DEF PlanTyped
<1>6. \A q \in Rolls : roll'[q].at # "none" => roll'[q].day <= planned'
  <2> SUFFICES ASSUME NEW q \in Rolls, roll'[q].at # "none" PROVE roll'[q].day <= planned
    BY <1>1
  <2>1. planned \in Int
    BY <1>0 DEF PlanTyped
  <2>2. CASE q = r
    BY <1>4, <2>1, <2>2
  <2>3. CASE q # r
    BY <1>4, <2>3 DEF PlanInv
  <2> QED
    BY <2>2, <2>3
<1>7. ASSUME NEW d \in E!Days, d \notin flawed' PROVE DayInv(d)'
  <2>1. DayInv(d) /\ d \notin flawed
    BY <1>3, <1>7 DEF PlanInv
  <2>2. CASE d # planned
    <3>1. \A q \in Rolls : (RollsFor(q, d)' <=> RollsFor(q, d)) /\ (RollsFor(q, d) => roll'[q] = roll[q])
      <4> TAKE q \in Rolls
      <4>1. CASE q = r
        BY <1>3, <1>4, <2>2, <4>1, PlanConstants DEF RollsFor
      <4>2. CASE q # r
        BY <1>4, <4>2 DEF RollsFor
      <4> QED
        BY <4>1, <4>2
    <3>2. /\ sends'[d] <= 1
          /\ \A q \in Rolls : RollsFor(q, d)' /\ roll'[q].at = "roll" => sends'[d] = 0
          /\ \A p, q \in Rolls : RollsFor(p, d)' /\ RollsFor(q, d)' => p = q
      BY <1>1, <2>1, <3>1 DEF DayInv
    <3> QED
      BY <1>1, <2>2, <3>2 DEF DayInv
  <2>3. CASE d = planned
    <3>1. ~raced /\ \A q \in Rolls : roll[q].at = "none"
      <4> SUFFICES ASSUME raced \/ \E q \in Rolls : roll[q].at # "none" PROVE FALSE
        OBVIOUS
      <4>1. flawed' = flawed \cup {planned}
        BY <1>3
      <4> QED
        BY <1>7, <2>3, <4>1
    <3>2. ~Used(d)
      BY <1>2, <2>1, <2>3 DEF DayInv, Ready
    <3>3. sends[d] = 0
      BY <1>0, <3>2 DEF Used, PlanTyped
    <3>4. \A q \in Rolls : RollsFor(q, d)' => q = r
      BY <1>4, <3>1 DEF RollsFor
    <3>5. schedule'.lastEval = d
      BY <1>1, <1>2, <2>1, <2>3 DEF DayInv
    <3>6. Rolling(d)'
      BY <1>4, <2>3 DEF Rolling, RollsFor
    <3> QED
      BY <1>1, <1>2, <3>1, <3>3, <3>4, <3>5, <3>6 DEF DayInv
  <2> QED
    BY <2>2, <2>3
<1>8. E!Today' = E!Today
  BY <1>1 DEF E!Today
<1> QED
  BY <1>1, <1>5, <1>6, <1>7, <1>8 DEF PlanInv

\* A roll goes on: it posts once, and ends the plan.
LEMMA RollGoesOn ==
  ASSUME PlanInv, NEW r \in Rolls, E!Miss(r) \/ E!Post(r) \/ E!Resolve(r)
  PROVE  PlanInv'
<1>0. PlanTyped
  BY DEF PlanInv
<1>1. /\ planned' = planned /\ clock' = clock /\ timer' = timer /\ planner' = planner
      /\ flawed \subseteq flawed' /\ roll[r].at # "none"
  BY DEF E!Miss, E!Post, E!Resolve
<1>2. roll[r] \in RollRecords /\ E!Today' = E!Today
  BY <1>0, <1>1 DEF PlanTyped, E!Today
<1>3. CASE E!Miss(r) \/ E!Post(r)
  <2>1. PICK k : k = [roll[r] EXCEPT !.at = "resolve"]
    OBVIOUS
  <2>2. /\ roll' = [roll EXCEPT ![r].at = "resolve"] /\ schedule' = schedule
        /\ roll[r].at = "roll" /\ flawed' = flawed
        /\ \/ sends' = sends
           \/ sends' = [sends EXCEPT ![roll[r].day] = @ + 1]
    BY <1>3 DEF E!Miss, E!Post
  <2>3. k \in RollRecords /\ k.at = "resolve" /\ k.day = roll[r].day
    BY <1>2, <2>1 DEF RollRecords
  <2>4. /\ roll' \in [Rolls -> RollRecords] /\ roll'[r] = k
        /\ \A q \in Rolls : q # r => roll'[q] = roll[q]
    <3>1. roll' = [roll EXCEPT ![r] = k]
      BY <2>1, <2>2
    <3> QED
      BY <1>0, <2>3, <3>1 DEF PlanTyped
  <2>5. /\ sends' \in [E!Days -> Nat]
        /\ \A d \in E!Days : sends'[d] = sends[d] \/ (d = roll[r].day /\ sends'[d] = sends[d] + 1)
    <3>1. CASE sends' = sends
      BY <1>0, <3>1 DEF PlanTyped
    <3>2. CASE sends' = [sends EXCEPT ![roll[r].day] = @ + 1]
      <4>1. sends \in [E!Days -> Nat]
        BY <1>0 DEF PlanTyped
      <4>2. CASE roll[r].day \in E!Days
        <5>1. sends[roll[r].day] + 1 \in Nat
          BY <4>1, <4>2
        <5> QED
          BY <3>2, <4>1, <4>2, <5>1
      <4>3. CASE roll[r].day \notin E!Days
        BY <3>2, <4>1, <4>3
      <4> QED
        BY <4>2, <4>3
    <3> QED
      BY <2>2, <3>1, <3>2
  <2>6. PlanTyped'
    BY <1>0, <1>1, <2>2, <2>4, <2>5 DEF PlanTyped
  <2>7. \A q \in Rolls : roll'[q].at # "none" => roll'[q].day <= planned'
    BY <1>1, <2>3, <2>4 DEF PlanInv
  <2>8. \A d \in E!Days : d > planned' => sends'[d] = 0
    <3> SUFFICES ASSUME NEW d \in E!Days, d > planned PROVE sends'[d] = 0
      BY <1>1
    <3>1. roll[r].day <= planned /\ roll[r].day \in Int /\ planned \in Int /\ d \in Int
      BY <1>0, <1>1, <1>2 DEF PlanInv, PlanTyped, RollRecords, E!Days
    <3>2. d # roll[r].day
      BY <3>1
    <3> QED
      BY <2>5, <3>2 DEF PlanInv
  <2>9. ASSUME NEW d \in E!Days, d \notin flawed' PROVE DayInv(d)'
    <3>1. DayInv(d) /\ sends[d] \in Nat
      BY <1>0, <1>1, <2>9 DEF PlanInv, PlanTyped
    <3>2. \A q \in Rolls : RollsFor(q, d)' <=> RollsFor(q, d)
      <4> TAKE q \in Rolls
      <4>1. CASE q = r
        BY <1>1, <2>3, <2>4, <4>1 DEF RollsFor
      <4>2. CASE q # r
        BY <2>4, <4>2 DEF RollsFor
      <4> QED
        BY <4>1, <4>2
    <3>3. Rolling(d)' <=> Rolling(d)
      BY <3>2 DEF Rolling
    <3>4. CASE d # roll[r].day
      <4>1. sends'[d] = sends[d] /\ ~RollsFor(r, d)
        BY <2>5, <3>4 DEF RollsFor
      <4>2. \A q \in Rolls : RollsFor(q, d)' => roll'[q] = roll[q] /\ RollsFor(q, d)
        BY <2>4, <3>2, <4>1
      <4>3. /\ sends'[d] <= 1
            /\ \A q \in Rolls : RollsFor(q, d)' /\ roll'[q].at = "roll" => sends'[d] = 0
            /\ \A p, q \in Rolls : RollsFor(p, d)' /\ RollsFor(q, d)' => p = q
        BY <3>1, <4>1, <4>2 DEF DayInv
      <4>4. Used(d)' <=> Used(d)
        BY <3>3, <4>1 DEF Used
      <4> QED
        BY <1>1, <2>2, <3>1, <3>3, <4>3, <4>4 DEF DayInv, Armed, Ready
    <3>5. CASE d = roll[r].day
      <4>1. RollsFor(r, d) /\ Used(d) /\ sends[d] = 0
        BY <1>1, <2>2, <3>1, <3>5 DEF RollsFor, Rolling, Used, DayInv
      <4>2. sends'[d] <= 1
        BY <2>5, <4>1
      <4>3. \A q \in Rolls : RollsFor(q, d)' => q = r /\ roll'[q].at = "resolve"
        BY <2>3, <2>4, <3>1, <3>2, <4>1 DEF DayInv
      <4> QED
        BY <1>1, <2>2, <3>1, <3>3, <4>1, <4>2, <4>3 DEF DayInv, Armed, Ready
    <3> QED
      BY <3>4, <3>5
  <2> QED
    BY <1>1, <1>2, <2>6, <2>7, <2>8, <2>9 DEF PlanInv
<1>4. CASE E!Resolve(r)
  <2>1. PICK fails \in BOOLEAN :
          /\ schedule' = IF fails THEN schedule ELSE [schedule EXCEPT !.nextFire = E!None]
          /\ flawed' = IF fails THEN flawed \cup {roll[r].day} ELSE flawed
    BY <1>4 DEF E!Resolve
  <2>2. roll' = [roll EXCEPT ![r] = E!NoRoll] /\ sends' = sends
    BY <1>4 DEF E!Resolve
  <2>3. /\ roll' \in [Rolls -> RollRecords] /\ roll'[r].at = "none"
        /\ \A q \in Rolls : q # r => roll'[q] = roll[q]
    BY <1>0, <2>2, PlanConstants DEF PlanTyped
  <2>4. /\ schedule' \in [lastEval : Int, nextFire : Int] /\ schedule'.lastEval = schedule.lastEval
        /\ (schedule'.nextFire # E!None => schedule.nextFire # E!None)
        /\ (~fails => schedule'.nextFire = E!None)
    BY <1>0, <2>1, PlanConstants DEF PlanTyped
  <2>5. PlanTyped'
    BY <1>0, <1>1, <2>2, <2>3, <2>4 DEF PlanTyped
  <2>6. \A q \in Rolls : roll'[q].at # "none" => roll'[q].day <= planned'
    BY <1>1, <2>3 DEF PlanInv
  <2>7. ASSUME NEW d \in E!Days, d \notin flawed' PROVE DayInv(d)'
    <3>1. DayInv(d) /\ d \notin flawed
      BY <1>1, <2>7 DEF PlanInv
    <3>2. \A q \in Rolls : RollsFor(q, d)' => RollsFor(q, d) /\ roll'[q] = roll[q]
      BY <2>3 DEF RollsFor
    <3>3. /\ sends'[d] <= 1
          /\ \A q \in Rolls : RollsFor(q, d)' /\ roll'[q].at = "roll" => sends'[d] = 0
          /\ \A p, q \in Rolls : RollsFor(p, d)' /\ RollsFor(q, d)' => p = q
      BY <2>2, <3>1, <3>2 DEF DayInv
    <3>4. d = planned' /\ Armed' => schedule'.lastEval = d
      BY <1>1, <2>4, <3>1 DEF DayInv, Armed, Ready
    <3>5. ASSUME d = planned, Used(d)'
          PROVE  /\ timer' = E!None /\ schedule'.lastEval = d
                 /\ \A p \in Planners : planner'[p].at = "act" =>
                      planner'[p].nextFire = E!None /\ planner'[p].lastEval = d /\ ~Rolling(d)'
                 /\ ~Rolling(d)' => schedule'.nextFire = E!None
      <4>1. Used(d) /\ (Rolling(d)' => Rolling(d))
        BY <2>2, <3>2, <3>5 DEF Used, Rolling
      <4>2. /\ timer = E!None /\ schedule.lastEval = d
            /\ \A p \in Planners : planner[p].at = "act" =>
                 planner[p].nextFire = E!None /\ planner[p].lastEval = d /\ ~Rolling(d)
            /\ ~Rolling(d) => schedule.nextFire = E!None
        BY <3>1, <3>5, <4>1 DEF DayInv
      <4>3. ~Rolling(d)' => schedule'.nextFire = E!None
        <5> SUFFICES ASSUME ~Rolling(d)', Rolling(d), fails PROVE FALSE
          BY <2>4, <4>2
        <5>1. PICK q \in Rolls : RollsFor(q, d)
          BY DEF Rolling
        <5>2. q = r
          BY <2>3, <5>1 DEF Rolling, RollsFor
        <5> QED
          BY <2>1, <2>7, <5>1, <5>2 DEF RollsFor
      <4> QED
        BY <1>1, <2>4, <4>1, <4>2, <4>3
    <3> QED
      BY <1>1, <3>3, <3>4, <3>5 DEF DayInv
  <2> QED
    BY <1>1, <1>2, <2>2, <2>5, <2>6, <2>7 DEF PlanInv
<1> QED
  BY <1>3, <1>4

\* The supervisor dies: what was posted and not resolved is flawed, what was
\* rolled and not posted was not used.
LEMMA PlanSurvives ==
  ASSUME PlanInv, E!Die
  PROVE  PlanInv'
<1>0. PlanTyped
  BY DEF PlanInv
<1>1. /\ timer' = E!None /\ planner' = [p \in Planners |-> E!Waiting]
      /\ roll' = [r \in Rolls |-> E!NoRoll]
      /\ flawed' = flawed \cup {roll[r].day : r \in {s \in Rolls : roll[s].at = "resolve"}}
      /\ clock' = clock /\ schedule' = schedule /\ sends' = sends /\ planned' = planned
  BY DEF E!Die
<1>2. /\ planner' \in [Planners -> PlannerRecords] /\ \A p \in Planners : planner'[p].at = "idle"
      /\ roll' \in [Rolls -> RollRecords] /\ \A r \in Rolls : roll'[r].at = "none"
  BY <1>1, PlanConstants
<1>3. PlanTyped' /\ E!Today' = E!Today
  BY <1>0, <1>1, <1>2, PlanConstants DEF PlanTyped, E!Today
<1>4. ASSUME NEW d \in E!Days, d \notin flawed' PROVE DayInv(d)'
  <2>1. DayInv(d) /\ d \notin flawed
    BY <1>1, <1>4 DEF PlanInv
  <2>2. \A r \in Rolls : ~RollsFor(r, d)'
    BY <1>2 DEF RollsFor
  <2>3. \A r \in Rolls : ~(roll[r].at = "resolve" /\ roll[r].day = d)
    BY <1>1, <1>4
  <2>4. sends[d] \in Nat
    BY <1>0 DEF PlanTyped
  <2>5. ASSUME sends[d] > 0 PROVE ~Rolling(d)
    <3> SUFFICES ASSUME NEW r \in Rolls, RollsFor(r, d) PROVE FALSE
      BY DEF Rolling
    <3>1. roll[r] \in RollRecords
      BY <1>0 DEF PlanTyped
    <3>2. roll[r].at = "roll"
      BY <2>3, <3>1 DEF RollsFor, RollRecords
    <3> QED
      BY <2>1, <2>5, <3>2 DEF DayInv
  <2>6. d = planned /\ Used(d)' => schedule.nextFire = E!None /\ schedule.lastEval = d
    BY <1>1, <2>1, <2>2, <2>5 DEF DayInv, Used, Rolling
  <2>7. d = planned /\ Armed' => schedule.lastEval = d
    BY <1>1, <1>2, <2>1 DEF DayInv, Armed, Ready
  <2>8. sends'[d] <= 1
    BY <1>1, <2>1 DEF DayInv
  <2> QED
    BY <1>1, <1>2, <2>2, <2>6, <2>7, <2>8 DEF DayInv
<1> QED
  BY <1>1, <1>2, <1>3, <1>4 DEF PlanInv

\* One post per planned day (events.ts, planAndArmEvents), for any number of planners
\* and rolls, unless the day was flawed by an overlap or a failure.
THEOREM PlansFireOnce == E!Spec => []FiresOncePerPlan
<1>1. E!Init => PlanInv
  <2> SUFFICES ASSUME E!Init PROVE PlanInv
    OBVIOUS
  <2>1. /\ planner \in [Planners -> PlannerRecords] /\ \A p \in Planners : planner[p].at = "idle"
        /\ roll \in [Rolls -> RollRecords] /\ \A r \in Rolls : roll[r].at = "none"
    BY PlanConstants DEF E!Init
  <2>2. /\ clock = 0 /\ planned = 0 /\ timer = E!None /\ schedule = E!NoPlan
        /\ sends = [d \in E!Days |-> 0] /\ flawed = {}
    BY DEF E!Init
  <2>3. schedule \in [lastEval : Int, nextFire : Int] /\ schedule.nextFire = E!None
    BY <2>2, PlanConstants DEF E!NoPlan
  <2>4. PlanTyped
    BY <2>1, <2>2, <2>3, PlanConstants DEF PlanTyped
  <2>5. planned <= E!Today
    <3>1. 0 \div PlanDayLength = 0
      BY PlanDays DEF E!DayAssumption
    <3> QED
      BY <2>2, <3>1 DEF E!Today
  <2>6. ~Armed /\ \A d \in E!Days : ~Used(d) /\ ~Rolling(d) /\ sends[d] = 0
    BY <2>1, <2>2, <2>3 DEF Armed, Ready, Used, Rolling, RollsFor
  <2> QED
    BY <2>1, <2>4, <2>5, <2>6 DEF PlanInv, DayInv, RollsFor
<1>2. PlanInv /\ [E!Next]_E!plannerVars => PlanInv'
  <2> SUFFICES ASSUME PlanInv, [E!Next]_E!plannerVars PROVE PlanInv'
    OBVIOUS
  <2>1. CASE E!Next
    BY <2>1, PlannerWorks, PlanIsMade, RollBegins, RollGoesOn, PlanSurvives DEF E!Next
  <2>2. CASE UNCHANGED E!plannerVars
    BY <2>2 DEF E!plannerVars, PlanInv, PlanTyped, DayInv, Used, Rolling, RollsFor, Armed, Ready, E!Today
  <2> QED
    BY <2>1, <2>2
<1>3. PlanInv => FiresOncePerPlan
  BY DEF PlanInv, DayInv, FiresOncePerPlan, E!FiresOncePerPlan
<1> QED
  BY <1>1, <1>2, <1>3, PTL DEF E!Spec

-----------------------------------------------------------------------------
(***************************************************************************)
(* PeerBus: cues wake their watcher, and the hourly cap is kept.           *)
(***************************************************************************)

PeerHandlers == [at : {"free", "judge", "write"}, cue : P!Cue]

\* A soul that no overlap touched this hour writes at most one reply, for
\* which there is room.
OneInTheHour(s) ==
  /\ \A g, h \in Handlers : handler[s][g].at = "write" /\ handler[s][h].at = "write" => g = h
  /\ replies[s] <= PerHour
  /\ (\E h \in Handlers : handler[s][h].at = "write") => replies[s] < PerHour

PeersInv ==
  /\ P!TypeOK
  /\ \A s \in Souls : "watcher" \in rewriting[s] => readCues[s] # <<>>
  /\ P!NoCueSleeps
  /\ \A s \in Souls : s \notin overlapped => OneInTheHour(s)

\* A first cue and a relayed one are cues.
LEMMA CuesRelay ==
  /\ P!FirstCue \in P!Cue /\ P!Free \in PeerHandlers /\ P!Free.at = "free"
  /\ \A c \in P!Cue : c.depth + 1 < MaxDepth /\ c.budget - 1 > 0
       => [depth |-> c.depth + 1, budget |-> c.budget - 1] \in P!Cue
<1>1. P!FirstCue \in P!Cue
  BY PeerCaps DEF P!FirstCue, P!Cue, P!CapsAssumption
<1>2. P!Free \in PeerHandlers /\ P!Free.at = "free"
  BY <1>1 DEF P!Free, PeerHandlers
<1>3. \A c \in P!Cue : c.depth + 1 < MaxDepth /\ c.budget - 1 > 0
              => [depth |-> c.depth + 1, budget |-> c.budget - 1] \in P!Cue
  BY PeerCaps DEF P!Cue, P!CapsAssumption
<1> QED
  BY <1>1, <1>2, <1>3

\* The last cue of an inbox is a cue.
LEMMA LatestCue ==
  ASSUME NEW q \in Seq(P!Cue), q # <<>>
  PROVE  q[Len(q)] \in P!Cue
  OBVIOUS

\* A broadcast reaches inboxes whose watchers then know of it.
LEMMA CueSpreads ==
  ASSUME PeersInv, NEW s \in Souls, NEW c \in P!Cue, P!Broadcast(s, c), rewriting' = rewriting,
         waking' = waking, slept' = slept, up' = up
  PROVE  /\ inbox' \in [Souls -> Seq(P!Cue)] /\ changed' \subseteq up'
         /\ P!NoCueSleeps'
<1>1. /\ inbox \in [Souls -> Seq(P!Cue)] /\ changed \subseteq up /\ up \subseteq Souls
  BY DEF PeersInv, P!TypeOK
<1>2. /\ inbox' = [p \in Souls |-> IF p \in Souls \ {s} THEN Append(inbox[p], c) ELSE inbox[p]]
      /\ changed' = changed \cup ((Souls \ {s}) \cap up)
  BY DEF P!Broadcast
<1>3. inbox' \in [Souls -> Seq(P!Cue)]
  BY <1>1, <1>2
<1>4. P!NoCueSleeps'
  <2> SUFFICES ASSUME NEW p \in up, inbox'[p] # <<>>, rewriting[p] = {}
               PROVE  p \in changed' \cup waking \cup slept
    BY DEF P!NoCueSleeps
  <2>1. CASE p # s
    BY <1>1, <1>2, <2>1
  <2>2. CASE p = s
    <3>1. inbox'[p] = inbox[p]
      BY <1>2, <2>2
    <3> QED
      BY <1>2, <3>1 DEF PeersInv, P!NoCueSleeps
  <2> QED
    BY <2>1, <2>2
<1> QED
  BY <1>1, <1>2, <1>3, <1>4

\* The inbox, the watcher and its timer.
LEMMA WatcherKeeps ==
  ASSUME PeersInv, NEW s \in Souls,
         P!Kick(s) \/ P!Watch(s) \/ P!Collect(s) \/ P!Receive(s) \/ P!Received(s)
  PROVE  PeersInv'
<1>0. P!TypeOK
  BY DEF PeersInv
<1>1. handler' = handler /\ replies' = replies /\ overlapped' = overlapped /\ up' = up
  BY DEF P!Kick, P!Watch, P!Collect, P!Receive, P!Received
<1>2. \A r \in Souls : r \notin overlapped' => OneInTheHour(r)'
  BY <1>1 DEF PeersInv, OneInTheHour
<1>3. CASE P!Kick(s)
  <2>1. /\ P!Broadcast(s, P!FirstCue) /\ rewriting' = rewriting /\ waking' = waking
        /\ slept' = slept /\ readCues' = readCues
    BY <1>3 DEF P!Kick
  <2>2. /\ inbox' \in [Souls -> Seq(P!Cue)] /\ changed' \subseteq up' /\ P!NoCueSleeps'
    BY <1>1, <2>1, CuesRelay, CueSpreads
  <2>3. P!TypeOK'
    BY <1>0, <1>1, <2>1, <2>2 DEF P!TypeOK
  <2> QED
    BY <1>2, <2>1, <2>2, <2>3 DEF PeersInv
<1>4. CASE P!Watch(s)
  <2>1. P!TypeOK'
    BY <1>0, <1>1, <1>4 DEF P!TypeOK, P!Watch
  <2>2. P!NoCueSleeps'
    BY <1>1, <1>4 DEF P!Watch, PeersInv, P!NoCueSleeps
  <2>3. readCues' = readCues /\ rewriting' = rewriting
    BY <1>4 DEF P!Watch
  <2> QED
    BY <1>2, <2>1, <2>2, <2>3 DEF PeersInv
<1>5. CASE P!Collect(s) /\ inbox[s] = <<>>
  <2>1. /\ rewriting' = rewriting /\ readCues' = readCues /\ inbox' = inbox /\ changed' = changed
        /\ waking' = waking \ {s} /\ slept' = slept \ {s}
    BY <1>5 DEF P!Collect
  <2>2. P!TypeOK'
    BY <1>0, <1>1, <2>1 DEF P!TypeOK
  <2>3. P!NoCueSleeps'
    BY <1>1, <1>5, <2>1 DEF PeersInv, P!NoCueSleeps
  <2> QED
    BY <1>2, <2>1, <2>2, <2>3 DEF PeersInv
<1>6. CASE P!Collect(s) /\ inbox[s] # <<>>
  <2>1. /\ rewriting' = [rewriting EXCEPT ![s] = @ \cup {"watcher"}]
        /\ readCues' = [readCues EXCEPT ![s] = inbox[s]]
        /\ inbox' = inbox /\ changed' = changed
        /\ waking' = waking \ {s} /\ slept' = slept \ {s}
    BY <1>6 DEF P!Collect
  <2>2. /\ rewriting \in [Souls -> SUBSET {"watcher", "tool"}] /\ readCues \in [Souls -> Seq(P!Cue)]
        /\ inbox \in [Souls -> Seq(P!Cue)]
    BY <1>0 DEF P!TypeOK
  <2>3. rewriting' \in [Souls -> SUBSET {"watcher", "tool"}] /\ readCues' \in [Souls -> Seq(P!Cue)]
    <3>1. rewriting[s] \cup {"watcher"} \in SUBSET {"watcher", "tool"}
      BY <2>2
    <3> QED
      BY <2>1, <2>2, <3>1
  <2>4. P!TypeOK'
    BY <1>0, <1>1, <2>1, <2>3 DEF P!TypeOK
  <2>5. /\ "watcher" \in rewriting'[s] /\ readCues'[s] = inbox[s]
        /\ \A r \in Souls : r # s => rewriting'[r] = rewriting[r] /\ readCues'[r] = readCues[r]
    BY <2>1, <2>2
  <2>6. P!NoCueSleeps'
    <3> SUFFICES ASSUME NEW r \in up, inbox[r] # <<>>, rewriting'[r] = {}
                 PROVE  r \in changed \cup (waking \ {s}) \cup (slept \ {s})
      BY <1>1, <2>1 DEF P!NoCueSleeps
    <3>1. r # s /\ r \in Souls
      BY <1>0, <2>5 DEF P!TypeOK
    <3>2. rewriting[r] = {}
      BY <2>5, <3>1
    <3> QED
      BY <3>1, <3>2 DEF PeersInv, P!NoCueSleeps
  <2>7. \A r \in Souls : "watcher" \in rewriting'[r] => readCues'[r] # <<>>
    BY <1>6, <2>5 DEF PeersInv
  <2> QED
    BY <1>2, <2>4, <2>6, <2>7 DEF PeersInv
<1>7. CASE P!Receive(s) \/ P!Received(s)
  <2>1. readCues' = readCues /\ waking' = waking /\ slept' = slept
    BY <1>7 DEF P!Receive, P!Received
  <2>2. rewriting \in [Souls -> SUBSET {"watcher", "tool"}] /\ inbox \in [Souls -> Seq(P!Cue)]
    BY <1>0 DEF P!TypeOK
  <2>3. PICK w : /\ rewriting' = [rewriting EXCEPT ![s] = w] /\ w \in SUBSET {"watcher", "tool"}
                 /\ ("watcher" \in w => "watcher" \in rewriting[s])
                 /\ \/ w # {} /\ inbox' = inbox /\ changed' = changed
                    \/ inbox' = [inbox EXCEPT ![s] = <<>>] /\ changed' = changed \cup ({s} \cap up)
    <3>1. CASE P!Receive(s)
      <4>1. rewriting[s] \cup {"tool"} \in SUBSET {"watcher", "tool"}
        <5>1. rewriting[s] \in SUBSET {"watcher", "tool"}
          BY <2>2
        <5> QED
          BY <5>1
      <4>2. rewriting' = [rewriting EXCEPT ![s] = rewriting[s] \cup {"tool"}]
            /\ inbox' = inbox /\ changed' = changed
        BY <3>1 DEF P!Receive
      <4> QED
        BY <4>1, <4>2, ZenonT(60)
    <3>2. CASE P!Received(s)
      <4>1. rewriting[s] \ {"tool"} \in SUBSET {"watcher", "tool"}
        <5>1. rewriting[s] \in SUBSET {"watcher", "tool"}
          BY <2>2
        <5> QED
          BY <5>1
      <4>2. rewriting' = [rewriting EXCEPT ![s] = rewriting[s] \ {"tool"}]
            /\ inbox' = [inbox EXCEPT ![s] = <<>>] /\ changed' = changed \cup ({s} \cap up)
        BY <3>2 DEF P!Received, P!WriteBack
      <4> QED
        BY <4>1, <4>2, ZenonT(60)
    <3> QED
      BY <1>7, <3>1, <3>2
  <2>4. /\ rewriting' \in [Souls -> SUBSET {"watcher", "tool"}] /\ rewriting'[s] = w
        /\ \A r \in Souls : r # s => rewriting'[r] = rewriting[r]
    BY <2>2, <2>3
  <2>5. inbox' \in [Souls -> Seq(P!Cue)]
    <3>1. <<>> \in Seq(P!Cue)
      OBVIOUS
    <3> QED
      BY <2>2, <2>3, <3>1
  <2>6. P!TypeOK'
    BY <1>0, <1>1, <2>1, <2>3, <2>4, <2>5 DEF P!TypeOK
  <2>7. P!NoCueSleeps'
    <3> SUFFICES ASSUME NEW r \in up, inbox'[r] # <<>>, rewriting'[r] = {}
                 PROVE  r \in changed' \cup waking \cup slept
      BY <1>1, <2>1 DEF P!NoCueSleeps
    <3>1. r \in Souls
      BY <1>0 DEF P!TypeOK
    <3>2. r # s
      <4> SUFFICES ASSUME r = s PROVE FALSE
        OBVIOUS
      <4>1. w = {}
        BY <2>4
      <4>2. inbox' = [inbox EXCEPT ![s] = <<>>]
        BY <2>3, <4>1
      <4>3. inbox'[s] = <<>>
        BY <2>2, <4>2
      <4> QED
        BY <4>3
    <3>3. rewriting[r] = {} /\ inbox[r] # <<>>
      <4>1. rewriting[r] = {}
        BY <2>4, <3>1, <3>2
      <4>2. inbox'[r] = inbox[r]
        BY <2>2, <2>3, <3>1, <3>2
      <4> QED
        BY <4>1, <4>2
    <3> QED
      BY <2>3, <3>3 DEF PeersInv, P!NoCueSleeps
  <2>8. \A r \in Souls : "watcher" \in rewriting'[r] => readCues'[r] # <<>>
    BY <2>1, <2>3, <2>4 DEF PeersInv
  <2> QED
    BY <1>2, <2>6, <2>7, <2>8 DEF PeersInv
<1> QED
  BY <1>3, <1>4, <1>5, <1>6, <1>7

\* One handler's record is set.
LEMMA HandlerSet ==
  ASSUME P!TypeOK, NEW s \in Souls, NEW h \in Handlers, NEW r \in PeerHandlers,
         handler' = [handler EXCEPT ![s][h] = r]
  PROVE  /\ handler' \in [Souls -> [Handlers -> PeerHandlers]]
         /\ handler'[s][h] = r
         /\ \A g \in Handlers : g # h => handler'[s][g] = handler[s][g]
         /\ \A q \in Souls : q # s => handler'[q] = handler[q]
<1>1. handler \in [Souls -> [Handlers -> PeerHandlers]]
  BY DEF P!TypeOK, PeerHandlers
<1>2. handler' = [handler EXCEPT ![s] = [handler[s] EXCEPT ![h] = r]]
  OBVIOUS
<1>3. [handler[s] EXCEPT ![h] = r] \in [Handlers -> PeerHandlers]
  BY <1>1
<1> QED
  BY <1>1, <1>2, <1>3

\* A handler that does not write after the step leaves its soul's hour as it
\* was, or fills the room there was.
LEMMA HourGoesOn ==
  ASSUME PeersInv, NEW s \in Souls, NEW h \in Handlers, NEW r \in PeerHandlers,
         handler' = [handler EXCEPT ![s][h] = r], r.at # "write",
         \/ replies' = replies
         \/ handler[s][h].at = "write" /\ replies' = [replies EXCEPT ![s] = @ + 1],
         overlapped' = overlapped
  PROVE  \A q \in Souls : q \notin overlapped' => OneInTheHour(q)'
<1>0. replies \in [Souls -> Nat] /\ PerHour \in Nat \ {0} /\ P!TypeOK
  BY PeerCaps DEF PeersInv, P!TypeOK, P!CapsAssumption
<1>1. /\ handler'[s][h] = r
      /\ \A g \in Handlers : g # h => handler'[s][g] = handler[s][g]
      /\ \A q \in Souls : q # s => handler'[q] = handler[q]
  BY <1>0, HandlerSet, ZenonT(60)
<1>2. \A q \in Souls : q # s => replies'[q] = replies[q]
  <2>1. replies' = replies \/ replies' = [replies EXCEPT ![s] = @ + 1]
    OBVIOUS
  <2>2. replies \in [Souls -> Nat]
    BY <1>0
  <2> QED
    BY <2>1, <2>2
<1> TAKE q \in Souls
<1> HAVE q \notin overlapped'
<1>3. OneInTheHour(q)
  BY DEF PeersInv
<1>4. CASE q # s
  BY <1>1, <1>2, <1>3, <1>4 DEF OneInTheHour
<1>5. CASE q = s
  <2>1. \A g \in Handlers : handler'[s][g].at = "write" => g # h /\ handler[s][g].at = "write"
    BY <1>1
  <2>2. CASE replies' = replies
    BY <1>3, <1>5, <2>1, <2>2 DEF OneInTheHour
  <2>3. CASE handler[s][h].at = "write" /\ replies' = [replies EXCEPT ![s] = @ + 1]
    <3>1. \A g \in Handlers : handler'[s][g].at # "write"
      BY <1>3, <1>5, <2>1, <2>3 DEF OneInTheHour
    <3>2. replies'[s] = replies[s] + 1 /\ replies[s] \in Nat /\ replies[s] < PerHour
      BY <1>0, <1>3, <1>5, <2>3 DEF OneInTheHour
    <3>3. replies'[s] <= PerHour
      BY <1>0, <3>2
    <3> QED
      BY <1>5, <3>1, <3>3 DEF OneInTheHour
  <2> QED
    BY <2>2, <2>3
<1> QED
  BY <1>4, <1>5

\* A handler's steps keep the invariant.
LEMMA HandlersKeep ==
  ASSUME PeersInv, NEW s \in Souls, NEW h \in Handlers,
         P!StaySilent(s, h) \/ P!Reply(s, h) \/ P!Judge(s, h)
  PROVE  PeersInv'
<1>0. P!TypeOK /\ PerHour \in Nat \ {0} /\ replies \in [Souls -> Nat]
  BY PeerCaps DEF PeersInv, P!TypeOK, P!CapsAssumption
<1>1. handler \in [Souls -> [Handlers -> PeerHandlers]] /\ handler[s][h] \in PeerHandlers
  BY <1>0 DEF P!TypeOK, PeerHandlers
<1>2. /\ rewriting' = rewriting /\ waking' = waking /\ readCues' = readCues
      /\ slept' = slept /\ up' = up
  BY DEF P!StaySilent, P!Reply, P!Judge
<1>3. CASE P!StaySilent(s, h) \/ (P!Judge(s, h) /\ P!End(s, h) /\ overlapped' = overlapped)
  <2>1. /\ handler' = [handler EXCEPT ![s][h] = P!Free] /\ replies' = replies
        /\ overlapped' = overlapped /\ inbox' = inbox /\ changed' = changed
    BY <1>3 DEF P!StaySilent, P!Judge, P!End
  <2>2. handler' \in [Souls -> [Handlers -> PeerHandlers]]
    BY <1>0, <2>1, CuesRelay, HandlerSet
  <2>3. P!TypeOK'
    BY <1>0, <1>2, <2>1, <2>2 DEF P!TypeOK, PeerHandlers
  <2>4. \A q \in Souls : q \notin overlapped' => OneInTheHour(q)'
    BY <2>1, CuesRelay, HourGoesOn
  <2> QED
    BY <1>2, <2>1, <2>3, <2>4 DEF PeersInv, P!NoCueSleeps
<1>4. CASE P!Reply(s, h)
  <2>1. PICK c : c = [depth |-> handler[s][h].cue.depth + 1, budget |-> handler[s][h].cue.budget - 1]
    OBVIOUS
  <2>2. /\ handler' = [handler EXCEPT ![s][h] = P!Free] /\ handler[s][h].at = "write"
        /\ replies' = [replies EXCEPT ![s] = @ + 1] /\ overlapped' = overlapped
        /\ IF c.depth < MaxDepth /\ c.budget > 0 THEN P!Broadcast(s, c)
           ELSE inbox' = inbox /\ changed' = changed
    BY <1>4, <2>1 DEF P!Reply, P!End
  <2>3. handler' \in [Souls -> [Handlers -> PeerHandlers]] /\ replies' \in [Souls -> Nat]
    <3>1. handler' \in [Souls -> [Handlers -> PeerHandlers]]
      BY <1>0, <2>2, CuesRelay, HandlerSet
    <3>2. replies[s] + 1 \in Nat
      BY <1>0
    <3> QED
      BY <1>0, <2>2, <3>1, <3>2
  <2>4. \A q \in Souls : q \notin overlapped' => OneInTheHour(q)'
    BY <2>2, CuesRelay, HourGoesOn
  <2>5. /\ inbox' \in [Souls -> Seq(P!Cue)] /\ changed' \subseteq up' /\ P!NoCueSleeps'
    <3>1. CASE c.depth < MaxDepth /\ c.budget > 0
      <4>1. handler[s][h].cue \in P!Cue
        BY <1>1 DEF PeerHandlers
      <4>2. c \in P!Cue
        BY <2>1, <3>1, <4>1, CuesRelay
      <4> QED
        BY <1>2, <2>2, <3>1, <4>2, CueSpreads
    <3>2. CASE ~(c.depth < MaxDepth /\ c.budget > 0)
      <4>1. inbox' = inbox /\ changed' = changed
        BY <2>2, <3>2
      <4> QED
        BY <1>0, <1>2, <4>1 DEF PeersInv, P!NoCueSleeps, P!TypeOK
    <3> QED
      BY <3>1, <3>2
  <2>6. P!TypeOK'
    BY <1>0, <1>2, <2>2, <2>3, <2>5 DEF P!TypeOK, PeerHandlers
  <2> QED
    BY <1>2, <2>4, <2>5, <2>6 DEF PeersInv
<1>5. CASE P!Judge(s, h) /\ ~P!WindsDown(s, handler[s][h].cue)
  <2>1. PICK r : r = [handler[s][h] EXCEPT !.at = "write"]
    OBVIOUS
  <2>2. /\ handler' = [handler EXCEPT ![s][h] = r] /\ replies' = replies
        /\ inbox' = inbox /\ changed' = changed
        /\ overlapped' = IF P!Writing(s) # {} THEN overlapped \cup {s} ELSE overlapped
        /\ ~(replies[s] >= PerHour)
    <3>1. handler' = [handler EXCEPT ![s][h].at = "write"]
      BY <1>5 DEF P!Judge
    <3>2. handler' = [handler EXCEPT ![s][h] = r]
      BY <2>1, <3>1
    <3> QED
      BY <1>5, <3>2 DEF P!Judge, P!WindsDown
  <2>3. r \in PeerHandlers
    BY <1>1, <2>1 DEF PeerHandlers
  <2>4. /\ handler' \in [Souls -> [Handlers -> PeerHandlers]]
        /\ handler'[s][h] = r
        /\ \A g \in Handlers : g # h => handler'[s][g] = handler[s][g]
        /\ \A q \in Souls : q # s => handler'[q] = handler[q]
    BY <1>0, <2>2, <2>3, HandlerSet
  <2>5. overlapped' \subseteq Souls
    BY <1>0, <2>2 DEF P!TypeOK
  <2>6. P!TypeOK'
    BY <1>0, <1>2, <2>2, <2>4, <2>5 DEF P!TypeOK, PeerHandlers
  <2>7. ASSUME NEW q \in Souls, q \notin overlapped' PROVE OneInTheHour(q)'
    <3>1. OneInTheHour(q)
      BY <2>2, <2>7 DEF PeersInv
    <3>2. CASE q # s
      BY <2>2, <2>4, <3>1, <3>2 DEF OneInTheHour
    <3>3. CASE q = s
      <4>1. \A g \in Handlers : handler[s][g].at # "write"
        BY <2>2, <2>7, <3>3 DEF P!Writing
      <4>2. \A g \in Handlers : handler'[s][g].at = "write" => g = h
        BY <2>4, <4>1
      <4>3. replies[s] < PerHour
        BY <1>0, <2>2
      <4>4. replies'[s] <= PerHour /\ replies'[s] < PerHour
        BY <1>0, <2>2, <4>3
      <4> QED
        BY <3>3, <4>2, <4>4 DEF OneInTheHour
    <3> QED
      BY <3>2, <3>3
  <2> QED
    BY <1>2, <2>2, <2>6, <2>7 DEF PeersInv, P!NoCueSleeps
<1> QED
  BY <1>3, <1>4, <1>5 DEF P!Judge

\* What a rewrite of the worker's own collects, and what its death leaves.
LEMMA WorkersKeep ==
  ASSUME PeersInv, NEW s \in Souls, P!Collected(s) \/ P!Die(s) \/ P!Restart(s)
  PROVE  PeersInv'
<1>0. /\ P!TypeOK /\ PerHour \in Nat \ {0} /\ replies \in [Souls -> Nat]
      /\ handler \in [Souls -> [Handlers -> PeerHandlers]]
      /\ rewriting \in [Souls -> SUBSET {"watcher", "tool"}]
      /\ inbox \in [Souls -> Seq(P!Cue)] /\ readCues \in [Souls -> Seq(P!Cue)]
      /\ up \subseteq Souls /\ changed \cup waking \subseteq up
      /\ slept \subseteq Souls /\ overlapped \subseteq Souls
  BY PeerCaps DEF PeersInv, P!TypeOK, P!CapsAssumption, PeerHandlers
<1>1. <<>> \in Seq(P!Cue) /\ P!Free \in PeerHandlers /\ P!Free.at = "free"
  BY CuesRelay
<1>2. CASE P!Collected(s)
  <2>1. PICK h \in Handlers : /\ handler[s][h] = P!Free
                             /\ handler' = [handler EXCEPT ![s][h] = [at |-> "judge", cue |-> readCues[s][Len(readCues[s])]]]
    BY <1>2 DEF P!Collected
  <2>2. PICK r : r = [at |-> "judge", cue |-> readCues[s][Len(readCues[s])]]
    OBVIOUS
  <2>3. /\ "watcher" \in rewriting[s] /\ replies' = replies /\ overlapped' = overlapped
        /\ up' = up /\ waking' = waking /\ slept' = slept
        /\ inbox' = [inbox EXCEPT ![s] = <<>>] /\ readCues' = [readCues EXCEPT ![s] = <<>>]
        /\ rewriting' = [rewriting EXCEPT ![s] = rewriting[s] \ {"watcher"}]
        /\ changed' = changed \cup ({s} \cap up)
    BY <1>2 DEF P!Collected, P!WriteBack
  <2>4. readCues[s] # <<>> /\ readCues[s] \in Seq(P!Cue)
    BY <1>0, <2>3 DEF PeersInv
  <2>5. r \in PeerHandlers /\ r.at = "judge"
    <3>1. readCues[s][Len(readCues[s])] \in P!Cue
      BY <2>4, LatestCue
    <3> QED
      BY <2>2, <3>1 DEF PeerHandlers
  <2>6. handler' = [handler EXCEPT ![s][h] = r]
    BY <2>1, <2>2
  <2>7. handler' \in [Souls -> [Handlers -> PeerHandlers]]
    BY <1>0, <2>5, <2>6, HandlerSet
  <2>8. \A q \in Souls : q \notin overlapped' => OneInTheHour(q)'
    BY <2>3, <2>5, <2>6, HourGoesOn
  <2>9. /\ inbox' \in [Souls -> Seq(P!Cue)] /\ inbox'[s] = <<>>
        /\ \A q \in Souls : q # s => inbox'[q] = inbox[q]
    BY <1>0, <1>1, <2>3
  <2>10. /\ readCues' \in [Souls -> Seq(P!Cue)]
         /\ \A q \in Souls : q # s => readCues'[q] = readCues[q]
    BY <1>0, <1>1, <2>3
  <2>11. /\ rewriting' \in [Souls -> SUBSET {"watcher", "tool"}] /\ "watcher" \notin rewriting'[s]
         /\ \A q \in Souls : q # s => rewriting'[q] = rewriting[q]
    <3>1. rewriting[s] \ {"watcher"} \in SUBSET {"watcher", "tool"}
      BY <1>0
    <3> QED
      BY <1>0, <2>3, <3>1
  <2>12. P!TypeOK'
    BY <1>0, <2>3, <2>7, <2>9, <2>10, <2>11 DEF P!TypeOK, PeerHandlers
  <2>13. \A q \in Souls : "watcher" \in rewriting'[q] => readCues'[q] # <<>>
    BY <2>10, <2>11 DEF PeersInv
  <2>14. P!NoCueSleeps'
    BY <1>0, <2>3, <2>9, <2>11 DEF P!NoCueSleeps, PeersInv
  <2> QED
    BY <2>8, <2>12, <2>13, <2>14 DEF PeersInv
<1>3. CASE P!Die(s)
  <2>1. PICK none : none = [h \in Handlers |-> P!Free]
    OBVIOUS
  <2>2. /\ up' = up \ {s} /\ changed' = changed \ {s} /\ waking' = waking \ {s}
        /\ rewriting' = [rewriting EXCEPT ![s] = rewriting[s] \ {"watcher"}]
        /\ readCues' = [readCues EXCEPT ![s] = <<>>]
        /\ handler' = [handler EXCEPT ![s] = none]
        /\ replies' = [replies EXCEPT ![s] = 0] /\ overlapped' = overlapped \ {s}
        /\ inbox' = inbox /\ slept' = slept
    BY <1>3, <2>1 DEF P!Die
  <2>3. none \in [Handlers -> PeerHandlers] /\ \A h \in Handlers : none[h].at = "free"
    BY <1>1, <2>1
  <2>4. /\ handler' \in [Souls -> [Handlers -> PeerHandlers]] /\ handler'[s] = none
        /\ \A q \in Souls : q # s => handler'[q] = handler[q]
    BY <1>0, <2>2, <2>3
  <2>5. /\ replies' \in [Souls -> Nat] /\ replies'[s] = 0
        /\ \A q \in Souls : q # s => replies'[q] = replies[q]
    BY <1>0, <2>2
  <2>6. /\ readCues' \in [Souls -> Seq(P!Cue)]
        /\ \A q \in Souls : q # s => readCues'[q] = readCues[q]
    BY <1>0, <1>1, <2>2
  <2>7. /\ rewriting' \in [Souls -> SUBSET {"watcher", "tool"}] /\ "watcher" \notin rewriting'[s]
        /\ \A q \in Souls : q # s => rewriting'[q] = rewriting[q]
    <3>1. rewriting[s] \ {"watcher"} \in SUBSET {"watcher", "tool"}
      BY <1>0
    <3> QED
      BY <1>0, <2>2, <3>1
  <2>8. P!TypeOK'
    <3>1. up' \subseteq Souls /\ changed' \cup waking' \subseteq up' /\ overlapped' \subseteq Souls
      BY <1>0, <2>2
    <3> QED
      BY <1>0, <2>2, <2>4, <2>5, <2>6, <2>7, <3>1 DEF P!TypeOK, PeerHandlers
  <2>9. \A q \in Souls : "watcher" \in rewriting'[q] => readCues'[q] # <<>>
    BY <2>6, <2>7 DEF PeersInv
  <2>10. P!NoCueSleeps'
    BY <1>0, <2>2, <2>7 DEF P!NoCueSleeps, PeersInv
  <2>11. ASSUME NEW q \in Souls, q \notin overlapped' PROVE OneInTheHour(q)'
    <3>1. CASE q = s
      <4>1. \A h \in Handlers : handler'[q][h].at # "write"
        BY <2>3, <2>4, <3>1
      <4>2. replies'[q] <= PerHour
        BY <1>0, <2>5, <3>1
      <4> QED
        BY <4>1, <4>2 DEF OneInTheHour
    <3>2. CASE q # s
      <4>1. OneInTheHour(q)
        BY <2>2, <2>11, <3>2 DEF PeersInv
      <4> QED
        BY <2>4, <2>5, <3>2, <4>1 DEF OneInTheHour
    <3> QED
      BY <3>1, <3>2
  <2> QED
    BY <2>8, <2>9, <2>10, <2>11 DEF PeersInv
<1>4. CASE P!Restart(s)
  <2>1. /\ up' = up \cup {s} /\ slept' = (IF inbox[s] # <<>> THEN slept \cup {s} ELSE slept)
        /\ inbox' = inbox /\ changed' = changed /\ waking' = waking /\ rewriting' = rewriting
        /\ readCues' = readCues /\ handler' = handler /\ replies' = replies /\ overlapped' = overlapped
    BY <1>4 DEF P!Restart
  <2>2. P!TypeOK'
    <3>1. up' \subseteq Souls /\ changed' \cup waking' \subseteq up' /\ slept' \subseteq Souls
      BY <1>0, <2>1
    <3> QED
      BY <1>0, <2>1, <3>1 DEF P!TypeOK
  <2>3. P!NoCueSleeps'
    BY <2>1 DEF P!NoCueSleeps, PeersInv
  <2>4. \A q \in Souls : q \notin overlapped' => OneInTheHour(q)'
    BY <2>1 DEF PeersInv, OneInTheHour
  <2>5. \A q \in Souls : "watcher" \in rewriting'[q] => readCues'[q] # <<>>
    BY <2>1 DEF PeersInv
  <2> QED
    BY <2>2, <2>3, <2>4, <2>5 DEF PeersInv
<1> QED
  BY <1>2, <1>3, <1>4

\* A new hour starts its count anew.
LEMMA HourKeeps ==
  ASSUME PeersInv, P!HourPasses
  PROVE  PeersInv'
<1>0. P!TypeOK /\ PerHour \in Nat \ {0}
  BY PeerCaps DEF PeersInv, P!CapsAssumption
<1>1. /\ replies' = [s \in Souls |-> 0]
      /\ overlapped' = {s \in Souls : \E g, h \in P!Writing(s) : g # h}
      /\ inbox' = inbox /\ changed' = changed /\ waking' = waking /\ rewriting' = rewriting
      /\ readCues' = readCues /\ handler' = handler /\ up' = up /\ slept' = slept
  BY DEF P!HourPasses
<1>2. replies' \in [Souls -> Nat] /\ \A s \in Souls : replies'[s] = 0
  BY <1>1
<1>3. overlapped' \subseteq Souls
  BY <1>1
<1>4. P!TypeOK'
  BY <1>0, <1>1, <1>2, <1>3 DEF P!TypeOK
<1>5. ASSUME NEW s \in Souls, s \notin overlapped' PROVE OneInTheHour(s)'
  <2>1. \A g, h \in Handlers : handler[s][g].at = "write" /\ handler[s][h].at = "write" => g = h
    BY <1>1, <1>5 DEF P!Writing
  <2>2. replies'[s] <= PerHour /\ replies'[s] < PerHour
    BY <1>0, <1>2
  <2> QED
    BY <1>1, <2>1, <2>2 DEF OneInTheHour
<1> QED
  BY <1>1, <1>4, <1>5 DEF PeersInv, P!NoCueSleeps

\* The inboxes, their watchers and the replies under way.
LEMMA PeersInvariant == P!Spec => []PeersInv
<1>1. P!Init => PeersInv
  <2> SUFFICES ASSUME P!Init PROVE PeersInv
    OBVIOUS
  <2>0. <<>> \in Seq(P!Cue) /\ P!Free \in PeerHandlers /\ P!Free.at = "free" /\ PerHour \in Nat \ {0}
    BY CuesRelay, PeerCaps DEF P!CapsAssumption
  <2>1. inbox \in [Souls -> Seq(P!Cue)] /\ readCues \in [Souls -> Seq(P!Cue)]
        /\ \A s \in Souls : inbox[s] = <<>>
    BY <2>0 DEF P!Init
  <2>2. /\ handler \in [Souls -> [Handlers -> PeerHandlers]]
        /\ \A s \in Souls, h \in Handlers : handler[s][h].at = "free"
    BY <2>0 DEF P!Init
  <2>3. /\ replies \in [Souls -> Nat] /\ \A s \in Souls : replies[s] = 0
        /\ rewriting \in [Souls -> SUBSET {"watcher", "tool"}] /\ \A s \in Souls : rewriting[s] = {}
        /\ up \subseteq Souls /\ changed \cup waking = {} /\ slept = {} /\ overlapped = {}
    BY DEF P!Init
  <2>4. P!TypeOK
    BY <2>1, <2>2, <2>3 DEF P!TypeOK, PeerHandlers
  <2>5. \A s \in Souls : OneInTheHour(s)
    BY <2>0, <2>2, <2>3 DEF OneInTheHour
  <2> QED
    BY <2>1, <2>3, <2>4, <2>5 DEF PeersInv, P!NoCueSleeps
<1>2. PeersInv /\ [P!Next]_P!peerVars => PeersInv'
  <2> SUFFICES ASSUME PeersInv, [P!Next]_P!peerVars PROVE PeersInv'
    OBVIOUS
  <2>1. CASE P!Next
    BY <2>1, HourKeeps, WatcherKeeps, HandlersKeep, WorkersKeep DEF P!Next
  <2>2. CASE UNCHANGED P!peerVars
    BY <2>2 DEF P!peerVars, PeersInv, P!TypeOK, P!NoCueSleeps, OneInTheHour
  <2> QED
    BY <2>1, <2>2
<1> QED
  BY <1>1, <1>2, PTL DEF P!Spec

\* An unread cue has something that wakes its watcher (peer-bus.ts), whoever
\* writes to the inbox and whenever the worker dies.
LEMMA CuesWakeTheirWatcher == P!Spec => []P!NoCueSleeps
<1>1. PeersInv => P!NoCueSleeps
  BY DEF PeersInv
<1> QED
  BY <1>1, PeersInvariant, PTL

\* Replies exceed the hourly cap only where one was begun beside another.
LEMMA RepliesAreCapped == P!Spec => []P!CapIsExceededByOverlapOnly
<1>1. PeersInv => P!CapIsExceededByOverlapOnly
  <2> SUFFICES ASSUME PeersInv, NEW s \in Souls, s \notin overlapped PROVE ~(replies[s] > PerHour)
    BY DEF P!CapIsExceededByOverlapOnly
  <2>1. replies[s] \in Nat /\ PerHour \in Nat /\ replies[s] <= PerHour
    BY PeerCaps DEF PeersInv, P!TypeOK, P!CapsAssumption, OneInTheHour
  <2> QED
    BY <2>1
<1> QED
  BY <1>1, PeersInvariant, PTL

\* No unread cue is left with nothing to wake its watcher, and the hourly cap is
\* exceeded by overlapping replies only, for any number of souls and handlers.
THEOREM CuesAreSeen == P!Spec => []CuesAreSeenWithinTheCap
  BY CuesWakeTheirWatcher, RepliesAreCapped, PTL DEF CuesAreSeenWithinTheCap

-----------------------------------------------------------------------------
(***************************************************************************)
(* KimiSession: a poisoned session costs no later answer.                  *)
(***************************************************************************)

Turns == [at : {"idle", "launch", "run", "failed", "healed", "sorry"},
          on : KimiSessions \cup {0}, cont : BOOLEAN, attempt : 1 .. MaxRetries + 1,
          reduced : BOOLEAN, kind : K!Kinds, hurt : BOOLEAN]

\* A turn that no fault of its own has hurt has met a session at fault at most
\* once, in its first attempt, and gave up resuming after it.
Unhurt(t) ==
  ~t.hurt =>
    /\ ~t.reduced /\ t.at # "sorry"
    /\ t.cont => t.attempt = 1
    /\ t.at \in {"failed", "healed"} =>
         t.attempt = 1 /\ t.kind \in {"corrupt-session", "session-missing"}

TurnInv == turn \in Turns /\ Unhurt(turn)

\* The newest session on disk is a session.
LEMMA NewestSession ==
  ASSUME K!OnDisk # {}
  PROVE  K!Max(K!OnDisk) \in KimiSessions
<1>1. IsFiniteSet(KimiSessions)
  BY KimiRuns DEF K!KimiAssumption, K!IsFiniteSet, IsFiniteSet
<1>2. K!OnDisk \in SUBSET KimiSessions /\ KimiSessions \subseteq Nat
  BY KimiRuns DEF K!OnDisk, K!KimiAssumption
<1>3. IsFiniteSet(K!OnDisk)
  BY <1>1, <1>2, FS_Subset
<1>4. \A x \in K!OnDisk : x \in Int
  BY <1>2
<1>5. PICK m \in K!OnDisk : \A n \in K!OnDisk : n <= m
  BY <1>3, <1>4, Greatest
<1>6. \A n \in K!OnDisk : m >= n
  BY <1>4, <1>5
<1> QED
  BY <1>2, <1>5, <1>6 DEF K!Max

\* Every step of a turn, a sweep or a file keeps the invariant.
LEMMA KimiStep ==
  ASSUME TurnInv, [K!Next]_K!sessionVars
  PROVE  TurnInv'
<1> USE DEF TurnInv
<1>0. MaxRetries \in Nat /\ MaxRetries >= 1 /\ 1 \in 1 .. MaxRetries + 1 /\ KimiSessions \subseteq Nat
  BY KimiRuns DEF K!KimiAssumption
<1>n. K!NoTurn \in Turns /\ Unhurt(K!NoTurn)
  BY <1>0 DEF K!NoTurn, Turns, K!Kinds, Unhurt
<1>1. CASE turn' = turn
  BY <1>1
<1>2. CASE turn' = K!NoTurn
  BY <1>2, <1>n
<1>3. CASE K!Ask
  <2>1. turn' = [K!NoTurn EXCEPT !.at = "launch"]
    BY <1>3 DEF K!Ask
  <2> QED
    BY <2>1, <1>n DEF Turns, Unhurt, K!NoTurn
<1>4. CASE K!Resume
  <2>0. turn.at = "launch" /\ turn.cont
    BY <1>4 DEF K!Resume
  <2>1. CASE turn' = [turn EXCEPT !.at = "failed", !.kind = "corrupt-session"]
    BY <2>0, <2>1 DEF Turns, Unhurt, K!Kinds
  <2>2. CASE turn' = [turn EXCEPT !.at = "run", !.on = K!Max(K!OnDisk)] /\ K!Max(K!OnDisk) \in KimiSessions
    BY <2>0, <2>2 DEF Turns, Unhurt, K!Kinds
  <2>3. K!Max(K!OnDisk) \in KimiSessions
    BY <1>4, NewestSession DEF K!Resume
  <2> QED
    BY <1>4, <2>1, <2>2, <2>3 DEF K!Resume
<1>5. CASE K!Create
  <2>1. PICK s \in KimiSessions : turn' = [turn EXCEPT !.at = "run", !.on = s]
    BY <1>5 DEF K!Create
  <2> QED
    BY <2>1 DEF Turns, Unhurt
<1>6. CASE K!NoneToResume
  <2>1. turn' = [turn EXCEPT !.at = "failed", !.kind = "session-missing"] /\ turn.cont /\ turn.at = "launch"
    BY <1>6 DEF K!NoneToResume
  <2> QED
    BY <2>1 DEF Turns, Unhurt, K!Kinds
<1>7. ASSUME NEW kind \in K!Kinds,
             turn' = [turn EXCEPT !.at = "failed", !.kind = kind, !.hurt = TRUE]
      PROVE  TurnInv'
  BY <1>7 DEF Turns, Unhurt, K!Kinds
<1>8. CASE K!TakenAway
  BY <1>7, <1>8 DEF K!TakenAway, K!Kinds
<1>9. CASE \E kind \in K!Kinds : K!Interrupted(kind)
  BY <1>7, <1>9 DEF K!Interrupted
<1>10. CASE K!Heal
  <2>1. turn' = [turn EXCEPT !.at = "healed"] /\ turn.at = "failed"
    BY <1>10 DEF K!Heal
  <2> QED
    BY <2>1 DEF Turns, Unhurt
<1>11. CASE K!Retry
  <2>1. turn' = [turn EXCEPT !.at = "launch", !.attempt = turn.attempt + 1,
                             !.cont = turn.cont /\ turn.kind = "transient"]
    BY <1>11 DEF K!Retry
  <2>2. turn.at = "healed" /\ turn.attempt <= MaxRetries
    BY <1>11 DEF K!Retry, K!WillRetry
  <2>3. turn.attempt + 1 \in 1 .. MaxRetries + 1
    BY <1>0, <2>2 DEF Turns
  <2>4. PICK c \in BOOLEAN : c = (turn.cont /\ turn.kind = "transient")
    OBVIOUS
  <2>5. turn' = [turn EXCEPT !.at = "launch", !.attempt = turn.attempt + 1, !.cont = c]
    BY <2>1, <2>4
  <2>6. ~turn.hurt => ~c
    BY <2>2, <2>4 DEF Unhurt
  <2>7. turn' \in Turns
    BY <2>3, <2>5 DEF Turns
  <2>8. turn'.hurt = turn.hurt /\ turn'.cont = c /\ turn'.at = "launch" /\ turn'.reduced = turn.reduced
    BY <2>5 DEF Turns
  <2> QED
    BY <2>6, <2>7, <2>8 DEF Unhurt
<1>12. CASE K!Reduce
  <2>1. turn' = [turn EXCEPT !.at = "launch", !.cont = FALSE, !.reduced = TRUE]
    BY <1>12 DEF K!Reduce
  <2>2. turn.at = "healed" /\ turn.kind = "content-rejected"
    BY <1>12 DEF K!Reduce, K!WillReduce
  <2>3. turn.hurt
    BY <2>2 DEF Unhurt
  <2> QED
    BY <2>1, <2>3 DEF Turns, Unhurt
<1>13. CASE K!GiveUp
  <2>1. turn' = [turn EXCEPT !.at = "sorry"] /\ turn.at = "healed" /\ ~K!WillRetry
    BY <1>13 DEF K!GiveUp
  <2>2. turn.hurt
    BY <1>0, <2>1 DEF Unhurt, K!WillRetry, K!Retryable
  <2> QED
    BY <2>1, <2>2 DEF Turns, Unhurt
<1>14. CASE UNCHANGED K!sessionVars
  BY <1>1, <1>14 DEF K!sessionVars
<1> QED
  BY <1>1, <1>2, <1>3, <1>4, <1>5, <1>6, <1>8, <1>9, <1>10, <1>11, <1>12, <1>13, <1>14
  DEF K!Next, K!Answer, K!Apologise, K!Fall, K!Rise, K!Sweep, K!SweepWrite, K!Call, K!LeftBehind,
      K!SweepRead

\* A poisoned session costs no later answer (runWithHealAsync), whatever its
\* retries, sessions and turns.
THEOREM PoisonCostsNoAnswer == K!Spec => []PoisonIsNotInherited
<1>1. K!Init => TurnInv
  BY KimiRuns DEF K!Init, K!NoTurn, K!KimiAssumption, TurnInv, Turns, Unhurt, K!Kinds
<1>2. TurnInv /\ [K!Next]_K!sessionVars => TurnInv'
  BY KimiStep
<1>3. TurnInv => PoisonIsNotInherited
  BY DEF TurnInv, Unhurt, PoisonIsNotInherited, K!PoisonIsNotInherited
<1> QED
  BY <1>1, <1>2, <1>3, PTL DEF K!Spec

-----------------------------------------------------------------------------
(***************************************************************************)
(* The composition is a behaviour of its parts.                            *)
(***************************************************************************)

\* Community: a step of one part leaves the others where they are.
THEOREM CommunityRunsItsParts ==
  CommunitySpec => Z!Spec /\ C!Spec /\ V!Spec /\ L!Spec /\ E!Spec /\ P!Spec /\ K!Spec
<1>1. CommunityInit => Z!Init /\ C!Init /\ V!Init /\ L!Init /\ E!Init /\ P!Init /\ K!Init
  BY DEF CommunityInit
<1>2. [CommunityNext]_communityVars => [Z!Next]_Z!processes
  BY DEF CommunityNext, communityVars, supervisor, Z!processes
<1>3. [CommunityNext]_communityVars => [C!Next]_C!chestVars
  BY DEF CommunityNext, communityVars, chests, C!chestVars
<1>4. [CommunityNext]_communityVars => [V!Next]_V!visitorVars
  BY DEF CommunityNext, communityVars, visitors, V!visitorVars
<1>5. [CommunityNext]_communityVars => [L!Next]_L!collectorVars
  BY DEF CommunityNext, communityVars, collector, L!collectorVars
<1>6. [CommunityNext]_communityVars => [E!Next]_E!plannerVars
  BY DEF CommunityNext, communityVars, events, E!plannerVars
<1>7. [CommunityNext]_communityVars => [P!Next]_P!peerVars
  BY DEF CommunityNext, communityVars, peers, P!peerVars
<1>8. [CommunityNext]_communityVars => [K!Next]_K!sessionVars
  BY DEF CommunityNext, communityVars, kimi, K!sessionVars
<1> QED
  BY <1>1, <1>2, <1>3, <1>4, <1>5, <1>6, <1>7, <1>8, PTL
     DEF CommunitySpec, Z!Spec, C!Spec, V!Spec, L!Spec, E!Spec, P!Spec, K!Spec

=============================================================================
