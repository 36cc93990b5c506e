---------------------------- MODULE EventPlanner ----------------------------
(***************************************************************************)
(* One scheduled event of the supervisor (core/supervisor.ts,              *)
(* planAndArmEvents; core/events.ts, rollScheduledEvent and fireEvent): a  *)
(* random time in the day's window is planned at 05:00 or at the start,    *)
(* kept in event_schedule_state, armed as a timer, rolled and resolved.    *)
(* The clock goes on, writes fail silently and the supervisor dies between *)
(* any two steps.                                                          *)
(***************************************************************************)
EXTENDS Integers, FiniteSets

CONSTANTS
  DayLength,    \* units of time in a logical day
  WindowStart, WindowEnd,
  Grace,        \* CATCHUP_GRACE_SEC in units
  EveryDays, WeekDays,   \* the cadences: an interval, or the days it falls on
  Horizon,      \* bound: the last day
  Planners,     \* runs of planAndArmEvents: 1 at the start, 2 at 05:00
  Rolls,        \* bound: rolls under way at a time
  MaxFailures

\* A logical day takes time.
DayAssumption == DayLength \in Nat \ {0}

VARIABLES
  cadence,      \* the event's schedule: "days" or "weekly"
  now,
  alive,        \* the supervisor runs
  begun,        \* the day of the latest 05:00 run, or of the start
  planner,      \* [Planners -> [at, lastEval, nextFire]]
  state,        \* event_schedule_state: [lastEval, nextFire]
  timer,        \* the armed time, or None
  roll,         \* [Rolls -> [at, day]]: rolls, for the day they were planned on
  sends,        \* [Days -> Nat]: posts per planned day
  flawed,       \* days whose state was not kept, not seen or rolled at once
  planned,      \* the day the armed or stored plan belongs to
  slips

plannerVars == <<cadence, now, alive, begun, planner, state, timer, roll, sends, flawed,
                 planned, slips>>

None == -1
Days == 0 .. Horizon
Today == now \div DayLength
NoPlan == [lastEval |-> None, nextFire |-> None]
Waiting == [at |-> "idle", lastEval |-> None, nextFire |-> None]
NoRoll == [at |-> "none", day |-> 0]
Slips == slips < MaxFailures /\ slips' = slips + 1
May(fails) == \/ ~fails /\ UNCHANGED slips
              \/ fails /\ Slips

Init ==
  /\ cadence \in {"days", "weekly"}
  /\ now = 0 /\ alive = FALSE /\ begun = None
  /\ planner = [p \in Planners |-> Waiting]
  /\ state = NoPlan /\ timer = None
  /\ roll = [r \in Rolls |-> NoRoll]
  /\ sends = [d \in Days |-> 0]
  /\ flawed = {} /\ planned = 0 /\ slips = 0

-----------------------------------------------------------------------------
\* Time passes; a timer that is due goes off first.
Tick ==
  /\ now + 1 < DayLength * (Horizon + 1)
  /\ alive => timer = None \/ timer > now
  /\ now' = now + 1
  /\ UNCHANGED <<cadence, alive, begun, planner, state, timer, roll, sends, flawed, planned,
                 slips>>

\* The supervisor starts, and plans at once.
Boot ==
  /\ ~alive
  /\ alive' = TRUE /\ begun' = Today
  /\ planner' = [planner EXCEPT ![1].at = "read"]
  /\ UNCHANGED <<cadence, now, state, timer, roll, sends, flawed, planned, slips>>

\* scheduleEventDayPlanner(): the run at 05:00.
NewDay ==
  /\ alive /\ begun < Today /\ planner[2].at = "idle"
  /\ begun' = Today
  /\ planner' = [planner EXCEPT ![2].at = "read"]
  /\ UNCHANGED <<cadence, now, alive, state, timer, roll, sends, flawed, planned, slips>>

\* A roll that has posted and is not resolved is seen again.
Die ==
  /\ alive /\ Slips
  /\ alive' = FALSE /\ timer' = None
  /\ planner' = [p \in Planners |-> Waiting]
  /\ flawed' = flawed \cup {roll[r].day : r \in {s \in Rolls : roll[s].at = "resolve"}}
  /\ roll' = [r \in Rolls |-> NoRoll]
  /\ UNCHANGED <<cadence, now, begun, state, sends, planned>>

-----------------------------------------------------------------------------
\* getScheduleState(): nothing when the query fails.
ReadState(p) ==
  /\ planner[p].at = "read"
  /\ \E fails \in BOOLEAN :
       /\ May(fails)
       /\ LET seen == IF fails THEN NoPlan ELSE state IN
            planner' = [planner EXCEPT ![p] = [at |-> "act", lastEval |-> seen.lastEval,
                                               nextFire |-> seen.nextFire]]
       /\ flawed' = IF \/ fails
                       \/ \E q \in Planners \ {p} : planner[q].at # "idle"
                       \/ \E r \in Rolls : roll[r].at # "none"
                      THEN flawed \cup {Today, planned} ELSE flawed
  /\ UNCHANGED <<cadence, now, alive, begun, state, timer, roll, sends, planned>>

IsDueDay(lastEval) ==
  IF cadence = "days" THEN lastEval = None \/ Today - lastEval >= EveryDays
                      ELSE Today \in WeekDays

Done(p) == planner' = [planner EXCEPT ![p] = Waiting]

\* A roll of the plan begins in a free place, raced by a planner or a timer or
\* not.
Begin(raced) ==
  /\ \E r \in Rolls :
       /\ roll[r] = NoRoll
       /\ \A s \in Rolls : roll[s] = NoRoll => r <= s
       /\ roll' = [roll EXCEPT ![r] = [at |-> "roll", day |-> planned]]
  /\ flawed' = IF raced \/ \E r \in Rolls : roll[r].at # "none"
                 THEN flawed \cup {planned} ELSE flawed

\* armOrCatchUp(): a timer that replaces the armed one, ...
Arm(p) ==
  /\ planner[p].at = "act" /\ planner[p].nextFire > now
  /\ timer' = planner[p].nextFire
  /\ Done(p)
  /\ UNCHANGED <<cadence, now, alive, begun, state, roll, sends, flawed, planned, slips>>

\* ... a roll at once for a time that has just passed, ...
CatchUp(p) ==
  /\ planner[p].at = "act" /\ planner[p].nextFire # None
  /\ planner[p].nextFire \in now - Grace .. now
  /\ Begin(timer # None \/ \E q \in Planners \ {p} : planner[q].at # "idle")
  /\ Done(p)
  /\ UNCHANGED <<cadence, now, alive, begun, state, timer, sends, planned, slips>>

\* ... or resolveScheduleRoll('missed').
GiveUp(p) ==
  /\ planner[p].at = "act" /\ planner[p].nextFire # None
  /\ planner[p].nextFire < now - Grace
  /\ \E fails \in BOOLEAN :
       /\ May(fails)
       /\ state' = IF fails THEN state ELSE [state EXCEPT !.nextFire = None]
       /\ flawed' = IF fails THEN flawed \cup {planned} ELSE flawed
  /\ Done(p)
  /\ UNCHANGED <<cadence, now, alive, begun, timer, roll, sends, planned>>

\* 2), 3) Planned today already, or not due.
NothingToPlan(p) ==
  /\ planner[p].at = "act" /\ planner[p].nextFire = None
  /\ planner[p].lastEval = Today \/ ~IsDueDay(planner[p].lastEval)
  /\ Done(p)
  /\ UNCHANGED <<cadence, now, alive, begun, state, timer, roll, sends, flawed, planned, slips>>

\* Mutated Stamp: the plan is kept without the day it is for.
StampNothing(at) == [state EXCEPT !.nextFire = at]

\* planScheduleFire() consumes the cadence with the plan.
Stamp(at) == [lastEval |-> Today, nextFire |-> at]

\* 4) A random time of today's window is stored; then it is armed like a plan
\* that was pending.
PlanToday(p) ==
  /\ planner[p].at = "act" /\ planner[p].nextFire = None
  /\ planner[p].lastEval # Today /\ IsDueDay(planner[p].lastEval)
  /\ \E minute \in WindowStart .. WindowEnd, fails \in BOOLEAN :
       LET at == Today * DayLength + minute IN
         /\ May(fails)
         /\ state' = IF fails THEN state ELSE Stamp(at)
         /\ flawed' = IF fails THEN flawed \cup {Today} ELSE flawed
         /\ planner' = [planner EXCEPT ![p].nextFire = at]
  /\ planned' = Today
  /\ UNCHANGED <<cadence, now, alive, begun, timer, roll, sends>>

-----------------------------------------------------------------------------
\* The timer goes off.
GoOff ==
  /\ alive /\ timer # None /\ timer <= now
  /\ timer' = None
  /\ Begin(\E q \in Planners : planner[q].at # "idle")
  /\ UNCHANGED <<cadence, now, alive, begun, planner, state, sends, planned, slips>>

\* rollScheduledEvent(): a miss, a skip, a failed render or upload post nothing ...
Miss(r) ==
  /\ roll[r].at = "roll"
  /\ roll' = [roll EXCEPT ![r].at = "resolve"]
  /\ UNCHANGED <<cadence, now, alive, begun, planner, state, timer, sends, flawed, planned, slips>>

\* ... a hit is posted by fireEvent ...
Post(r) ==
  /\ roll[r].at = "roll"
  /\ roll' = [roll EXCEPT ![r].at = "resolve"]
  /\ sends' = [sends EXCEPT ![roll[r].day] = @ + 1]
  /\ UNCHANGED <<cadence, now, alive, begun, planner, state, timer, flawed, planned, slips>>

\* ... and resolveScheduleRoll() ends the plan, whichever it is.
Resolve(r) ==
  /\ roll[r].at = "resolve"
  /\ \E fails \in BOOLEAN :
       /\ May(fails)
       /\ state' = IF fails THEN state ELSE [state EXCEPT !.nextFire = None]
       /\ flawed' = IF fails THEN flawed \cup {roll[r].day} ELSE flawed
  /\ roll' = [roll EXCEPT ![r] = NoRoll]
  /\ UNCHANGED <<cadence, now, alive, begun, planner, timer, sends, planned>>

Next ==
  \/ Tick \/ Boot \/ NewDay \/ Die \/ GoOff
  \/ \E p \in Planners :
       \/ ReadState(p) \/ NothingToPlan(p) \/ PlanToday(p)
       \/ Arm(p) \/ CatchUp(p) \/ GiveUp(p)
  \/ \E r \in Rolls : Miss(r) \/ Post(r) \/ Resolve(r)

Spec == Init /\ [][Next]_plannerVars

-----------------------------------------------------------------------------
\* The types of the plan's state; a timer is armed by a living supervisor.
TypeOK ==
  /\ now \in 0 .. DayLength * (Horizon + 1) - 1
  /\ begun \in Days \cup {None}
  /\ planner \in [Planners -> [at : {"idle", "read", "act"}, lastEval : Days \cup {None},
                               nextFire : Int]]
  /\ state \in [lastEval : Days \cup {None}, nextFire : Int]
  /\ timer # None => alive
  /\ roll \in [Rolls -> [at : {"none", "roll", "resolve"}, day : Days]]
  /\ sends \in [Days -> Nat]
  /\ flawed \subseteq Days /\ planned \in Days

\* "Persisting next_fire_at lets a restart re-arm the same instant rather than
\* re-randomise or double-fire": a day's plan is posted once, unless its state
\* was not kept or not seen, or a planner met a roll or another planner.
FiresOncePerPlan == \A d \in Days \ flawed : sends[d] <= 1

=============================================================================
