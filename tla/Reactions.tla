----------------------------- MODULE Reactions ------------------------------
(***************************************************************************)
(* Likes and the like-maniac of the week (channels/feishu-user.ts,         *)
(* syncChatReactions; core/store/reactions.ts; core/events.ts, fireEvent): *)
(* sweeps of the groups' latest messages collect reactions, and a member   *)
(* who reached Threshold of them within the week is announced and rewarded.*)
(* The first sweep after a start and the rescans may overlap; the database *)
(* comes and goes, and the worker may die.                                 *)
(***************************************************************************)
EXTENDS Naturals, FiniteSets

CONSTANTS
  Members,
  PerMember,    \* bound: likes of a member
  Threshold,    \* LIKE_MANIAC_WEEKLY_THRESHOLD (66 in the code)
  Weeks,        \* bound: the weeks, 1 .. Weeks
  Sweeps,       \* sweeps at a time
  MaxFailures

ReactionsAssumption == {Threshold, Weeks} \subseteq Nat \ {0}

VARIABLES
  week,         \* logicalWeekStart(now)
  given,        \* [Likes -> week it was given in, 0 if not yet]
  rows, boxed,  \* chat_reactions, and what waits in the outbox for it
  diverting,    \* shouldDivertSoulWrites()
  seeded,       \* the cursor file feishu-reactions-seed
  sweep,        \* [Sweeps -> Sweep]
  recorded,     \* like_maniac_weeks
  firing,       \* [Awards -> stage of fireEvent('like-maniac-notify')]
  dispatch,     \* [Awards -> status of its last event_dispatches row]
  announced, rewarded,  \* [Awards -> Nat]
  unnoticed,    \* awards no sweep will look at again by itself
  failures

reactionVars == <<week, given, rows, boxed, diverting, seeded, sweep, recorded, firing, dispatch,
                  announced, rewarded, unnoticed, failures>>
feishu == <<week, given>>
table == <<rows, boxed, diverting>>
event == <<firing, dispatch, announced, rewarded>>

Likes == Members \X (1 .. PerMember)
Awards == Members \X (1 .. Weeks)
Idle == [at |-> "idle", seeded |-> FALSE, listed |-> {}, todo |-> {}, award |-> <<>>]
Fails == failures < MaxFailures /\ failures' = failures + 1
May(fails) == \/ ~fails /\ UNCHANGED failures
              \/ fails /\ Fails

\* weeklyMemberReactionCount() has reached the threshold.
Count(ls, a) == Cardinality({l \in ls : l[1] = a[1] /\ given[l] = a[2]})
Reached(a) == Count(rows, a) >= Threshold

Init ==
  /\ week = 1 /\ given = [l \in Likes |-> 0]
  /\ rows = {} /\ boxed = {} /\ diverting = FALSE /\ seeded = FALSE
  /\ sweep = [s \in Sweeps |-> Idle]
  /\ recorded = {} /\ firing = [a \in Awards |-> "none"]
  /\ dispatch = [a \in Awards |-> "none"]
  /\ announced = [a \in Awards |-> 0] /\ rewarded = [a \in Awards |-> 0]
  /\ unnoticed = {} /\ failures = 0

-----------------------------------------------------------------------------
Like(l) ==
  /\ given[l] = 0
  /\ given' = [given EXCEPT ![l] = week]
  /\ UNCHANGED <<week, table, seeded, sweep, recorded, event, unnoticed, failures>>

\* Awards of the old week that are not on record now never will be.
Monday ==
  /\ week < Weeks
  /\ week' = week + 1
  /\ unnoticed' = unnoticed \cup {a \in Awards \ recorded : a[2] = week}
  /\ UNCHANGED <<given, table, seeded, sweep, recorded, event, failures>>

\* The breaker of the soul database opens, and closes again.
Outage ==
  /\ ~diverting /\ diverting' = TRUE
  /\ Fails
  /\ UNCHANGED <<feishu, rows, boxed, seeded, sweep, recorded, event, unnoticed>>
Recovery ==
  /\ diverting /\ diverting' = FALSE
  /\ UNCHANGED <<feishu, rows, boxed, seeded, sweep, recorded, event, unnoticed, failures>>

\* replayOutbox(): the rows land behind the sweeps' backs.
Replay(l) ==
  /\ ~diverting /\ l \in boxed
  /\ boxed' = boxed \ {l} /\ rows' = rows \cup {l}
  /\ unnoticed' = unnoticed \cup {<<l[1], given[l]>>}
  /\ UNCHANGED <<feishu, diverting, seeded, sweep, recorded, event, failures>>

-----------------------------------------------------------------------------
\* A sweep begins: the seed mark is read, then listMessages().
Start(s) ==
  /\ sweep[s].at = "idle"
  /\ sweep' = [sweep EXCEPT ![s] = [Idle EXCEPT !.at = "insert", !.seeded = seeded,
                                     !.listed = {l \in Likes : given[l] # 0}]]
  /\ UNCHANGED <<feishu, table, seeded, recorded, event, unnoticed, failures>>

AwardsOf(ls) == {<<l[1], given[l]>> : l \in ls}

\* recordChatReactions(): those that were not in the table come back as fresh.
\* While diverting all of them do; a failed statement returns none, whether it
\* took effect or not.
Insert(s) ==
  LET ls == sweep[s].listed
      goOn(fresh) == sweep' = [sweep EXCEPT ![s].at = IF sweep[s].seeded THEN "check" ELSE "seed",
                                            ![s].todo = {l[1] : l \in fresh}]
  IN
  /\ sweep[s].at = "insert"
  /\ \/ /\ diverting
        /\ boxed' = boxed \cup ls /\ goOn(ls)
        /\ UNCHANGED <<rows, unnoticed, failures>>
     \/ /\ ~diverting
        /\ rows' = rows \cup ls /\ goOn(ls \ rows)
        /\ UNCHANGED <<boxed, unnoticed, failures>>
     \/ /\ ~diverting /\ Fails
        /\ rows' \in {rows, rows \cup ls}
        /\ unnoticed' = unnoticed \cup AwardsOf(rows' \ rows)
        /\ goOn({})
        /\ UNCHANGED boxed
  /\ UNCHANGED <<feishu, diverting, seeded, recorded, event>>

\* The first round only seeds.
Seed(s) ==
  /\ sweep[s].at = "seed"
  /\ seeded' = TRUE
  /\ unnoticed' = unnoticed \cup {<<m, w>> : m \in sweep[s].todo, w \in 1 .. Weeks}
  /\ sweep' = [sweep EXCEPT ![s] = Idle]
  /\ UNCHANGED <<feishu, table, recorded, event, failures>>

\* One member with new likes: the count of the week and the once-per-week mark,
\* 0 and FALSE when the database does not answer.
Check(s, m) ==
  LET a == <<m, week>> IN
  /\ sweep[s].at = "check" /\ m \in sweep[s].todo
  /\ \E fails \in BOOLEAN :
       /\ May(fails)
       /\ unnoticed' = IF fails THEN unnoticed \cup {a} ELSE unnoticed
       /\ sweep' = [sweep EXCEPT ![s].todo = @ \ {m},
                      ![s].at = IF Reached(a) /\ a \notin recorded /\ ~fails THEN "record"
                                ELSE "check",
                      ![s].award = a]
  /\ UNCHANGED <<feishu, table, seeded, recorded, event>>

\* Mutant of Record: the answer of the INSERT is not asked for.
RecordAlways(s) ==
  LET a == sweep[s].award IN
  /\ sweep[s].at = "record"
  /\ recorded' = recorded \cup {a}
  /\ firing' = [firing EXCEPT ![a] = "begun"]
  /\ sweep' = [sweep EXCEPT ![s].at = "check"]
  /\ UNCHANGED <<feishu, table, seeded, dispatch, announced, rewarded, unnoticed, failures>>

\* recordLikeManiacWeek(): whoever inserts the row fires the event, which
\* nobody awaits.
Record(s) ==
  LET a == sweep[s].award IN
  /\ sweep[s].at = "record"
  /\ \/ /\ a \notin recorded
        /\ recorded' = recorded \cup {a}
        /\ firing' = [firing EXCEPT ![a] = "begun"]
        /\ UNCHANGED <<unnoticed, failures>>
     \/ /\ a \in recorded
        /\ UNCHANGED <<recorded, firing, unnoticed, failures>>
     \/ /\ Fails
        /\ recorded' \in {recorded, recorded \cup {a}}
        /\ unnoticed' = unnoticed \cup {a}
        /\ UNCHANGED firing
  /\ sweep' = [sweep EXCEPT ![s].at = "check"]
  /\ UNCHANGED <<feishu, table, seeded, dispatch, announced, rewarded>>

End(s) ==
  /\ sweep[s].at = "check" /\ sweep[s].todo = {}
  /\ sweep' = [sweep EXCEPT ![s] = Idle]
  /\ UNCHANGED <<feishu, table, seeded, recorded, event, unnoticed, failures>>

-----------------------------------------------------------------------------
\* fireEvent(): the dispatch row, best effort ...
Dispatch(a) ==
  /\ firing[a] = "begun"
  /\ \E fails \in BOOLEAN :
       /\ May(fails)
       /\ dispatch' = IF fails THEN dispatch ELSE [dispatch EXCEPT ![a] = "pending"]
  /\ firing' = [firing EXCEPT ![a] = "sending"]
  /\ UNCHANGED <<feishu, table, seeded, sweep, recorded, announced, rewarded, unnoticed>>

\* ... rendering, uploading and sending the post, any of which may fail ...
Send(a) ==
  /\ firing[a] = "sending"
  /\ \/ /\ announced' = [announced EXCEPT ![a] = @ + 1]
        /\ firing' = [firing EXCEPT ![a] = "sent"]
        /\ UNCHANGED <<unnoticed, failures>>
     \/ /\ Fails
        /\ announced' \in {announced, [announced EXCEPT ![a] = @ + 1]}
        /\ firing' = [firing EXCEPT ![a] = "failed"]
        /\ unnoticed' = unnoticed \cup {a}
  /\ UNCHANGED <<feishu, table, seeded, sweep, recorded, dispatch, rewarded>>

\* ... the row's status, best effort ...
WriteBack(a) ==
  /\ firing[a] \in {"sent", "failed"}
  /\ \E fails \in BOOLEAN :
       /\ May(fails)
       /\ dispatch' = IF fails \/ dispatch[a] = "none" THEN dispatch
                      ELSE [dispatch EXCEPT ![a] = firing[a]]
  /\ firing' = [firing EXCEPT ![a] = IF @ = "sent" THEN "reward" ELSE "none"]
  /\ UNCHANGED <<feishu, table, seeded, sweep, recorded, announced, rewarded, unnoticed>>

\* ... and afterSend(): the 20 LP.
Reward(a) ==
  /\ firing[a] = "reward"
  /\ \E fails \in BOOLEAN :
       /\ May(fails)
       /\ rewarded' = IF fails THEN rewarded ELSE [rewarded EXCEPT ![a] = @ + 1]
       /\ unnoticed' = IF fails THEN unnoticed \cup {a} ELSE unnoticed
  /\ firing' = [firing EXCEPT ![a] = "none"]
  /\ UNCHANGED <<feishu, table, seeded, sweep, recorded, dispatch, announced>>

\* What the worker had in hand, it never takes up again.
InHand(s) == {<<m, w>> : m \in sweep[s].todo, w \in 1 .. Weeks}
             \cup (IF sweep[s].at = "record" THEN {sweep[s].award} ELSE {})
WorkerDies ==
  /\ \/ \E s \in Sweeps : sweep[s].at # "idle"
     \/ \E a \in Awards : firing[a] # "none"
  /\ Fails
  /\ unnoticed' = unnoticed \cup {a \in Awards : firing[a] # "none"}
                            \cup UNION {InHand(s) : s \in Sweeps}
  /\ sweep' = [s \in Sweeps |-> Idle]
  /\ firing' = [a \in Awards |-> "none"]
  /\ UNCHANGED <<feishu, table, seeded, recorded, dispatch, announced, rewarded>>

Next ==
  \/ \E l \in Likes : Like(l) \/ Replay(l)
  \/ Monday \/ Outage \/ Recovery \/ WorkerDies
  \/ \E s \in Sweeps :
       \/ Start(s) \/ Insert(s) \/ Seed(s) \/ Record(s) \/ End(s)
       \/ \E m \in Members : Check(s, m)
  \/ \E a \in Awards : Dispatch(a) \/ Send(a) \/ WriteBack(a) \/ Reward(a)

Spec == Init /\ [][Next]_reactionVars

-----------------------------------------------------------------------------
\* The types of the tables, the sweeps and the events under way.
TypeOK ==
  /\ week \in 1 .. Weeks /\ given \in [Likes -> 0 .. Weeks]
  /\ {rows, boxed} \subseteq SUBSET Likes /\ {diverting, seeded} \subseteq BOOLEAN
  /\ \A s \in Sweeps : /\ sweep[s].at \in {"idle", "insert", "seed", "check", "record"}
                       /\ sweep[s].todo \subseteq Members /\ sweep[s].listed \subseteq Likes
  /\ recorded \cup unnoticed \subseteq Awards
  /\ firing \in [Awards -> {"none", "begun", "sending", "sent", "failed", "reward"}]
  /\ dispatch \in [Awards -> {"none", "pending", "sent", "failed"}]
  /\ {announced, rewarded} \subseteq [Awards -> Nat]

\* "so the caller announces exactly once per member per week" (reactions.ts):
\* twice never, whatever overlaps or dies, and a reward only with its post.
\* And whoever has reached the threshold is announced and rewarded, or about
\* to be, unless the likes that did it came in the seeding round, through the
\* outbox, after the week was over, or with a failure.
LikeManiacOncePerWeek ==
  \A a \in Awards :
    /\ rewarded[a] <= announced[a] /\ announced[a] <= 1
    /\ Reached(a) /\ a \notin unnoticed =>
         \/ rewarded[a] = 1 \/ firing[a] # "none"
         \/ \E s \in Sweeps : a \in InHand(s)

=============================================================================
