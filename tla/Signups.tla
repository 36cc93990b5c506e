------------------------------ MODULE Signups -------------------------------
(***************************************************************************)
(* The signups of one recurring course (channels/feishu-user.ts,           *)
(* syncCalendarEventRsvp; core/lark.ts, listEventAttendees;                *)
(* core/store/analytics.ts, the RSVP rounds): each sweep counts them for   *)
(* the soonest occurrence, keeps the count and sends a reminder when it    *)
(* crosses a threshold.  The series' signups count for every occurrence.   *)
(* To remind is to call fireEvent(), which nobody awaits and may yet fail. *)
(***************************************************************************)
EXTENDS Integers, FiniteSets

CONSTANTS
  People, Leavers,   \* who may sign up, and who of them may withdraw
  Thresholds,        \* CLASS_SIGNUP_THRESHOLDS
  Occurrences,       \* bound: 1 .. Occurrences
  Sweeps,
  Seconds,           \* bound: the seconds at which sweeps begin
  MaxFailures

SignupsAssumption == Thresholds \subseteq Nat \ {0} /\ Occurrences \in Nat \ {0}

VARIABLES
  signed,       \* accept or tentative
  upcoming,     \* the soonest occurrence that has not started
  round,        \* calendar_event_rsvp_rounds: [Occurrences -> the latest]
  clock,
  sweep,        \* [Sweeps -> Sweep]
  already,      \* thresholds the occurrence's first round had reached, and all rounds since
  sinceLow,     \* [Thresholds -> reminders since the count was last known lower], 2 for more
  marred,       \* a failure or an overlap came in the way
  failures

signupVars == <<signed, upcoming, round, clock, sweep, already, sinceLow, marred, failures>>

None == [at |-> 0, n |-> -1]
Idle == [at |-> "idle", second |-> 0, occurrence |-> 0, n |-> 0, prev |-> None]
More(n) == IF n = 0 THEN 1 ELSE 2
Fails == failures < MaxFailures /\ failures' = failures + 1 /\ marred' = TRUE
Fine == UNCHANGED <<failures, marred>>

Init ==
  /\ signed \in SUBSET People
  /\ upcoming = 1 /\ clock = 1
  /\ round = [o \in 1 .. Occurrences |-> None]
  /\ sweep = [s \in Sweeps |-> Idle]
  /\ already = {} /\ sinceLow = [t \in Thresholds |-> 0]
  /\ marred = FALSE /\ failures = 0

-----------------------------------------------------------------------------
SignUp(p) ==
  /\ p \notin signed
  /\ signed' = signed \cup {p}
  /\ UNCHANGED <<upcoming, round, clock, sweep, already, sinceLow, marred, failures>>

Withdraw(p) ==
  /\ p \in signed \cap Leavers
  /\ signed' = signed \ {p}
  /\ UNCHANGED <<upcoming, round, clock, sweep, already, sinceLow, marred, failures>>

\* The occurrence starts.  Its successor has an event id of its own, and no
\* rounds yet: whatever is counted then is new.
Begins ==
  /\ upcoming < Occurrences
  /\ upcoming' = upcoming + 1
  /\ already' = {} /\ sinceLow' = [t \in Thresholds |-> 0]
  /\ marred' = (marred \/ \E s \in Sweeps : sweep[s].at # "idle")
  /\ UNCHANGED <<signed, round, clock, sweep, failures>>

SecondPasses ==
  /\ clock < Seconds
  /\ clock' = clock + 1
  /\ UNCHANGED <<signed, upcoming, round, sweep, already, sinceLow, marred, failures>>

\* listUpcomingCalendarEvents(); one that fails is an agenda without events:
\* the sweep has not begun.  Bound: once a second.
Start(s) ==
  /\ sweep[s].at = "idle" /\ sweep[s].second < clock
  /\ sweep' = [sweep EXCEPT ![s] = [Idle EXCEPT !.at = "count", !.second = clock,
                                     !.occurrence = upcoming]]
  /\ marred' = (marred \/ \E t \in Sweeps \ {s} : sweep[t].at # "idle")
  /\ UNCHANGED <<signed, upcoming, round, clock, already, sinceLow, failures>>

\* listEventAttendees(): all of them, or those of the pages before one failed.
Attendees(s) ==
  /\ sweep[s].at = "count"
  /\ \E n \in 0 .. Cardinality(signed) :
       /\ \/ n = Cardinality(signed) /\ Fine
          \/ n < Cardinality(signed) /\ Fails
       /\ sweep' = [sweep EXCEPT ![s].at = "prev", ![s].n = n]
  /\ UNCHANGED <<signed, upcoming, round, clock, already, sinceLow>>

\* latestCalendarEventRsvpRound(), null on an error too.
Prev(s) ==
  /\ sweep[s].at = "prev"
  /\ \/ sweep' = [sweep EXCEPT ![s].at = "record", ![s].prev = round[sweep[s].occurrence]]
        /\ Fine
     \/ sweep' = [sweep EXCEPT ![s].at = "record"]
        /\ Fails
  /\ UNCHANGED <<signed, upcoming, round, clock, already, sinceLow>>

\* recordCalendarEventRsvpRound(), best effort, one row per second and event.
\* The latest is the one of the latest second.
Record(s) ==
  LET o == sweep[s].occurrence
      n == sweep[s].n
  IN
  /\ sweep[s].at = "record"
  /\ \/ /\ round' = IF sweep[s].second > round[o].at
                      THEN [round EXCEPT ![o] = [at |-> sweep[s].second, n |-> n]]
                      ELSE round
        /\ marred' = (marred \/ sweep[s].second = round[o].at)
        /\ UNCHANGED failures
     \/ Fails /\ UNCHANGED round
  /\ already' = {t \in Thresholds : n >= t /\ (round[o] = None \/ t \in already)}
  /\ sinceLow' = [t \in Thresholds |-> IF n < t THEN 0 ELSE sinceLow[t]]
  /\ sweep' = [sweep EXCEPT ![s].at = "fire"]
  /\ UNCHANGED <<signed, upcoming, clock>>

\* Mutant of Crossed: every threshold reached.
Reaching(s) == {t \in Thresholds : sweep[s].n >= t}

\* The thresholds between the previous round's count and this.  Without a previous round
\* that is 0, so that an occurrence's first round crosses whatever it has reached.
Crossed(s) ==
  {t \in Thresholds : (IF sweep[s].prev = None THEN 0 ELSE sweep[s].prev.n) < t
                      /\ sweep[s].n >= t}

\* fireEvent('class-event-notify'), once for all that were crossed.
Fire(s) ==
  /\ sweep[s].at = "fire"
  /\ sinceLow' = [t \in Thresholds |-> IF t \in Crossed(s) THEN More(sinceLow[t])
                                       ELSE sinceLow[t]]
  /\ sweep' = [sweep EXCEPT ![s] = [Idle EXCEPT !.second = clock]]
  /\ UNCHANGED <<signed, upcoming, round, clock, already, marred, failures>>

WorkerDies ==
  /\ \E s \in Sweeps : sweep[s].at # "idle"
  /\ Fails
  /\ sweep' = [s \in Sweeps |-> [Idle EXCEPT !.second = clock]]
  /\ UNCHANGED <<signed, upcoming, round, clock, already, sinceLow>>

Next ==
  \/ \E p \in People : SignUp(p) \/ Withdraw(p)
  \/ Begins \/ SecondPasses \/ WorkerDies
  \/ \E s \in Sweeps : Start(s) \/ Attendees(s) \/ Prev(s) \/ Record(s) \/ Fire(s)

Spec == Init /\ [][Next]_signupVars

-----------------------------------------------------------------------------
Round == [at : 0 .. Seconds, n : {-1} \cup (0 .. Cardinality(People))]

\* The types of the rounds and the sweeps.
TypeOK ==
  /\ signed \subseteq People /\ upcoming \in 1 .. Occurrences /\ clock \in 1 .. Seconds
  /\ round \in [1 .. Occurrences -> Round]
  /\ sweep \in [Sweeps -> [at : {"idle", "count", "prev", "record", "fire"},
                           second : 0 .. Seconds, occurrence : 0 .. Occurrences,
                           n : 0 .. Cardinality(People), prev : Round]]
  /\ already \subseteq Thresholds /\ sinceLow \in [Thresholds -> 0 .. 2]

\* "a 'limited slots' reminder fires once" when the count "newly crosses a threshold
\* vs the previous round" (feishu-user.ts): as long as no sweep fails or overlaps
\* another, a threshold crossed between two rounds of an occurrence was announced
\* exactly once since the count was last seen below it, or is about to be, and one
\* the latest round has not reached was not.  "Thresholds already passed before
\* tracking began never back-fire", says the comment on it: in the code they do, once,
\* in the first round, and again with every occurrence of the series.  They are not
\* asked for here, and come no more than once.
ReminderFiresOncePerCrossing ==
  ~marred => \A t \in Thresholds :
    IF t \in already THEN sinceLow[t] <= 1
    ELSE \/ sinceLow[t] = IF round[upcoming].n >= t THEN 1 ELSE 0
         \/ \E s \in Sweeps : sweep[s].at = "fire" /\ t \in Crossed(s) /\ sinceLow[t] = 0

=============================================================================
