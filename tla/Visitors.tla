------------------------------ MODULE Visitors ------------------------------
(***************************************************************************)
(* Newcomers of the visitor group.  The worker's rounds of roster          *)
(* synchronisation (channels/feishu-user.ts, syncMembers) find out who     *)
(* joined, set off the announcement of every Step-th visitor, which nobody *)
(* awaits (core/visitor-milestones.ts, core/events.ts), and queue the      *)
(* newcomers; the supervisor's digest (core/supervisor.ts,                 *)
(* runWelcomeDigest) welcomes the queue in one post.  The first pass after *)
(* a start and the rescans may overlap, rosters may be read in part, the   *)
(* group may be stood down, and both processes may die.                    *)
(***************************************************************************)
EXTENDS Naturals, FiniteSets

CONSTANTS
  People,
  Founders,    \* in the group before the first synchronisation, and always
  Rounds,      \* passes of syncMembers at a time; the first pass is number 1
  Step,        \* VISITOR_STEP (100 in the code)
  MaxFailures

VisitorsAssumption == Founders \subseteq People

VARIABLES
  group, leavers,    \* Feishu: who is in the group, and who has ever left it
  known, present,    \* chat_members of the group: rows, and those with present = 1
                     \* (recordChatMember() gives a row that is there a name, and no more)
  inactive,          \* chats.inactive_reason is set: the rounds skip the group
  pass,              \* [Rounds -> Pass]
  firstDone,         \* this process's first pass is over
  ledger,            \* visitor_milestones and visitors/<chat>.json
  underWay,          \* [Milestones -> Nat]: fireEvent() calls that have not come to their post
  announced,         \* [Milestones -> Nat]
  doubled,           \* milestones two passes found new, or that no record was kept of
  unsent,            \* milestones recorded whose announcement failed or was cut off
  queue,             \* pending_welcome
  digest,            \* [at, listed, shown]
  newcomers,         \* everyone a pass found to have joined since the first one
  overlooked,        \* people a roster read in part left out
  welcomed,          \* [People -> Nat]
  mishaps,           \* people a failure or a race kept from their welcome
  repeats,           \* people a failure or a race may welcome again
  failures

visitorVars == <<group, leavers, known, present, inactive, pass, firstDone, ledger, underWay,
                 announced, doubled, unsent, queue, digest, newcomers, overlooked, welcomed,
                 mishaps, repeats, failures>>
people == <<group, leavers>>
directory == <<known, present, inactive, overlooked>>
milestones == <<ledger, underWay, announced, doubled, unsent>>
greeting == <<queue, digest, welcomed, repeats>>

Milestones == {m \in 1 .. Cardinality(People) : m % Step = 0}
Resting == [at |-> "idle", roster |-> {}, based |-> FALSE, joined |-> {}, gone |-> {}]
NoDigest == [at |-> "idle", listed |-> {}, shown |-> {}]
Fails == failures < MaxFailures /\ failures' = failures + 1
May(fails) == \/ ~fails /\ UNCHANGED failures
              \/ fails /\ Fails

Init ==
  /\ group = Founders /\ leavers = {}
  /\ known = {} /\ present = {} /\ inactive = FALSE /\ overlooked = {}
  /\ pass = [r \in Rounds |-> Resting] /\ firstDone = FALSE
  /\ ledger = {} /\ announced = [m \in Milestones |-> 0] /\ underWay = announced
  /\ doubled = {} /\ unsent = {}
  /\ queue = {} /\ digest = NoDigest
  /\ newcomers = {} /\ mishaps = {} /\ repeats = {}
  /\ welcomed = [p \in People |-> 0]
  /\ failures = 0

-----------------------------------------------------------------------------
Join(p) ==
  /\ p \notin group
  /\ group' = group \cup {p}
  /\ UNCHANGED <<leavers, directory, pass, firstDone, milestones, greeting, newcomers,
                 mishaps, failures>>

\* Bound: newcomers leave, and once at most.
Leave(p) ==
  /\ p \in group \ (leavers \cup Founders)
  /\ group' = group \ {p} /\ leavers' = leavers \cup {p}
  /\ UNCHANGED <<directory, pass, firstDone, milestones, greeting, newcomers, mishaps,
                 failures>>

To(r, stage) == pass' = [pass EXCEPT ![r].at = stage]
End(r) ==
  /\ pass' = [pass EXCEPT ![r] = Resting]
  /\ firstDone' = (firstDone \/ r = 1)

\* markChatInactive(): the poll loop of the chat, a sync of the group or an event that
\* reads its roster finds it dissolved or out of reach.  Its people are marked absent.
MarkInactive ==
  /\ ~inactive /\ Fails
  /\ inactive' = TRUE
  /\ present' = {} /\ mishaps' = mishaps \cup (present \cap group)
  /\ UNCHANGED <<people, known, overlooked, pass, firstDone, milestones, greeting, newcomers>>

\* clearChatInactive(), when startNew() lists the group again.
Reopen ==
  /\ inactive
  /\ inactive' = FALSE
  /\ UNCHANGED <<people, known, present, overlooked, pass, firstDone, milestones, greeting,
                 newcomers, mishaps, failures>>

\* listChatMembers() reads page by page and gives what it has when one fails; with
\* none the round skips the group, and the pass has not begun.  isChatInactive() is
\* false when its query fails.  (A page is one person or more here, 100 in the code.)
Fetch(r) ==
  /\ pass[r].at = "idle"
  /\ r = 1 => ~firstDone
  /\ \E roster \in SUBSET group \ {{}} :
       /\ May(inactive \/ roster # group)
       /\ pass' = [pass EXCEPT ![r].at = "count", ![r].roster = roster]
       /\ overlooked' = overlooked \cup (group \ roster)
  /\ UNCHANGED <<people, known, present, inactive, firstDone, milestones, greeting, newcomers,
                 mishaps>>

\* presentMemberCount() before the synchronisation: without a baseline nobody
\* is new.
Count(r) ==
  /\ pass[r].at = "count"
  /\ pass' = [pass EXCEPT ![r].at = "read", ![r].based = present # {}]
  /\ UNCHANGED <<people, directory, firstDone, milestones, greeting, newcomers, mishaps,
                 failures>>

\* syncChatMembers() compares the roster with the rows it reads ...
Read(r) ==
  LET joined == pass[r].roster \ known IN
  /\ pass[r].at = "read"
  /\ pass' = [pass EXCEPT ![r].at = "write", ![r].joined = joined,
                          ![r].gone = present \ pass[r].roster]
  /\ repeats' = repeats \cup UNION {joined \cap pass[s].joined : s \in Rounds \ {r}}
  /\ UNCHANGED <<people, directory, firstDone, milestones, queue, digest, welcomed,
                 newcomers, mishaps, failures>>

\* ... and writes the difference in the same transaction.  A roster in part, or
\* older than the rows, marks people absent who are there.  Who joined while the
\* group was stood down, or before an overlapping first pass had written, is found
\* by a pass that knows others and has no baseline: it will not queue them.
Write(r) ==
  LET p == pass[r]
      first == ~p.based /\ p.joined = p.roster IN
  /\ p.at = "write"
  /\ known' = known \cup p.roster
  /\ present' = (present \cup p.roster) \ p.gone
  /\ newcomers' = IF first THEN newcomers ELSE newcomers \cup p.joined
  /\ mishaps' = mishaps \cup (p.gone \cap group) \cup (IF p.based \/ first THEN {} ELSE p.joined)
  /\ pass' = [pass EXCEPT ![r].at = "check", ![r].gone = {}]
  /\ UNCHANGED <<people, inactive, overlooked, firstDone, milestones, greeting, failures>>

\* isMilestoneRecorded() of the hundred the roster's size has reached.
Reached(r) == Step * (Cardinality(pass[r].roster) \div Step)
Check(r) ==
  LET m == Reached(r) IN
  /\ pass[r].at = "check"
  /\ IF m \in Milestones \ ledger
       THEN /\ To(r, "record")
            /\ doubled' = IF \E s \in Rounds \ {r} : pass[s].at = "record" /\ Reached(s) = m
                            THEN doubled \cup {m} ELSE doubled
       ELSE To(r, "enqueue") /\ UNCHANGED doubled
  /\ UNCHANGED <<people, directory, firstDone, ledger, underWay, announced, unsent, greeting,
                 newcomers, mishaps, failures>>

\* Mutated Record: nothing is kept.
RecordNothing(r) ==
  /\ pass[r].at = "record"
  /\ To(r, "fire")
  /\ UNCHANGED <<people, directory, firstDone, milestones, greeting, newcomers, mishaps,
                 failures>>

\* recordMilestone(): the database and the file, each best effort; either keeps it.
Record(r) ==
  /\ pass[r].at = "record"
  /\ \E lost \in BOOLEAN :
       /\ May(lost)
       /\ ledger' = IF lost THEN ledger ELSE ledger \cup {Reached(r)}
       /\ doubled' = IF lost THEN doubled \cup {Reached(r)} ELSE doubled
  /\ To(r, "fire")
  /\ UNCHANGED <<people, directory, firstDone, underWay, announced, unsent, greeting, newcomers,
                 mishaps>>

\* The wiki page; and fireEvent('visitor-num-notify') begins, and nobody awaits it.
Fire(r) ==
  /\ pass[r].at = "fire"
  /\ underWay' = [underWay EXCEPT ![Reached(r)] = @ + 1]
  /\ To(r, "enqueue")
  /\ UNCHANGED <<people, directory, firstDone, ledger, announced, doubled, unsent, greeting,
                 newcomers, mishaps, failures>>

\* fireEvent() comes to its post in its own time, after the dispatch's row, the image
\* and the upload ...
Announce(m) ==
  /\ underWay[m] > 0
  /\ underWay' = [underWay EXCEPT ![m] = @ - 1]
  /\ announced' = [announced EXCEPT ![m] = @ + 1]
  /\ UNCHANGED <<people, directory, pass, firstDone, ledger, doubled, unsent, greeting,
                 newcomers, mishaps, failures>>

\* ... or fails at one of them.  Its {ok: false} is not looked at, and the record stays.
AnnounceFails(m) ==
  /\ underWay[m] > 0 /\ Fails
  /\ underWay' = [underWay EXCEPT ![m] = @ - 1]
  /\ unsent' = unsent \cup {m}
  /\ UNCHANGED <<people, directory, pass, firstDone, ledger, announced, doubled, greeting,
                 newcomers, mishaps>>

\* enqueuePendingWelcome(), ON CONFLICT DO NOTHING; a failure is only logged.
Enqueue(r) ==
  LET joined == IF pass[r].based THEN pass[r].joined ELSE {} IN
  /\ pass[r].at = "enqueue"
  /\ \E fails \in BOOLEAN :
       /\ May(fails)
       /\ queue' = IF fails THEN queue ELSE queue \cup joined
       /\ mishaps' = IF fails THEN mishaps \cup joined ELSE mishaps
  /\ End(r)
  /\ UNCHANGED <<people, directory, milestones, digest, welcomed, repeats, newcomers>>

\* A pass that ends early, by an exception or with its process, takes what it
\* has in hand along.
After == {"check", "record", "fire", "enqueue"}
InHand(r) == IF pass[r].at \in After /\ pass[r].based THEN pass[r].joined ELSE {}
CutOff(rs) == mishaps' = mishaps \cup UNION {InHand(r) : r \in rs}
NotFired(rs) == {Reached(r) : r \in {s \in rs : pass[s].at = "fire"}}

Throw(r) ==
  /\ pass[r].at \notin {"idle", "enqueue"}
  /\ Fails
  /\ CutOff({r})
  /\ unsent' = unsent \cup NotFired({r})
  /\ End(r)
  /\ UNCHANGED <<people, directory, ledger, underWay, announced, doubled, greeting, newcomers>>

WorkerDies ==
  /\ Fails
  /\ CutOff(Rounds)
  /\ unsent' = unsent \cup NotFired(Rounds) \cup {m \in Milestones : underWay[m] > 0}
  /\ underWay' = [m \in Milestones |-> 0]
  /\ pass' = [r \in Rounds |-> Resting] /\ firstDone' = FALSE
  /\ UNCHANGED <<people, directory, ledger, announced, doubled, greeting, newcomers>>

-----------------------------------------------------------------------------
\* runWelcomeDigest(): listPendingWelcome() ...
List ==
  /\ digest.at = "idle" /\ queue # {}
  /\ digest' = [NoDigest EXCEPT !.at = "look", !.listed = queue]
  /\ UNCHANGED <<people, directory, pass, firstDone, milestones, queue, welcomed, repeats,
                 newcomers, mishaps, failures>>

\* ... chatMemberOpenIds(), which is empty when the database fails ...
Look ==
  /\ digest.at = "look"
  /\ \E fails \in BOOLEAN :
       /\ May(fails)
       /\ digest' = [digest EXCEPT !.at = "send",
                       !.shown = IF fails THEN {} ELSE digest.listed \cap present]
       /\ mishaps' = IF fails THEN mishaps \cup digest.listed ELSE mishaps
  /\ UNCHANGED <<people, directory, pass, firstDone, milestones, queue, welcomed, repeats,
                 newcomers>>

\* ... the post, if anybody is left to welcome (by name, or as one of "N more") ...
Send ==
  /\ digest.at = "send"
  /\ digest' = [digest EXCEPT !.at = "clear"]
  /\ welcomed' = [p \in People |-> IF p \in digest.shown THEN welcomed[p] + 1 ELSE welcomed[p]]
  /\ UNCHANGED <<people, directory, pass, firstDone, milestones, queue, repeats, newcomers,
                 mishaps, failures>>

\* Mutated SendFails: the queue is cleared all the same.
SendFailsAndClears ==
  /\ digest.at = "send" /\ digest.shown # {}
  /\ Fails
  /\ digest' = [digest EXCEPT !.at = "clear"]
  /\ UNCHANGED <<people, directory, pass, firstDone, milestones, queue, welcomed, repeats,
                 newcomers, mishaps>>

SendFails ==
  /\ digest.at = "send" /\ digest.shown # {}
  /\ Fails
  /\ digest' = NoDigest
  /\ UNCHANGED <<people, directory, pass, firstDone, milestones, queue, welcomed, repeats,
                 newcomers, mishaps>>

\* ... and clearPendingWelcome(), whoever is in the queue by then.
Clear ==
  /\ digest.at = "clear"
  /\ queue' = {}
  /\ mishaps' = mishaps \cup (queue \ digest.listed)
  /\ digest' = NoDigest
  /\ UNCHANGED <<people, directory, pass, firstDone, milestones, welcomed, repeats,
                 newcomers, failures>>

\* The clearing fails, or the supervisor dies: the next digest starts over.
DigestEnds ==
  /\ digest.at # "idle"
  /\ Fails
  /\ repeats' = IF digest.at = "clear" THEN repeats \cup digest.shown ELSE repeats
  /\ digest' = NoDigest
  /\ UNCHANGED <<people, directory, pass, firstDone, milestones, queue, welcomed, newcomers,
                 mishaps>>

Next ==
  \/ \E p \in People : Join(p) \/ Leave(p)
  \/ MarkInactive \/ Reopen
  \/ \E m \in Milestones : Announce(m) \/ AnnounceFails(m)
  \/ \E r \in Rounds :
       \/ Fetch(r) \/ Count(r) \/ Read(r) \/ Write(r) \/ Check(r) \/ Record(r) \/ Fire(r)
       \/ Enqueue(r) \/ Throw(r)
  \/ WorkerDies
  \/ List \/ Look \/ Send \/ SendFails \/ Clear \/ DigestEnds

Spec == Init /\ [][Next]_visitorVars

-----------------------------------------------------------------------------
\* The types of the state of the rounds, the digest and their tables.
TypeOK ==
  /\ {group, leavers, known, newcomers, overlooked, mishaps, repeats, queue} \subseteq SUBSET People
  /\ present \subseteq known /\ inactive \in BOOLEAN
  /\ pass \in [Rounds -> [at : {"idle", "count", "read", "write"} \cup After,
                          roster : SUBSET People, based : BOOLEAN,
                          joined : SUBSET People, gone : SUBSET People]]
  /\ firstDone \in BOOLEAN
  /\ ledger \cup doubled \cup unsent \subseteq Milestones
  /\ {underWay, announced} \subseteq [Milestones -> Nat]
  /\ digest \in [at : {"idle", "look", "send", "clear"}, listed : SUBSET People,
                 shown : SUBSET People]
  /\ welcomed \in [People -> Nat]

\* "Only genuine post-baseline joiners are queued": who was in the group all along
\* is taken for one only if a roster read in part left them out.  Whoever is a
\* newcomer has been welcomed, waits in the queue or in a pass's hand, has left, or
\* was lost to a failure or a race of the digest with a pass: the digest never
\* clears away anybody it listed and did not show, and a second welcome needs a
\* failure between the post and the clearing, or two passes that read the same rows.
EveryoneIsWelcomed ==
  /\ newcomers \cap Founders \subseteq overlooked
  /\ \A p \in newcomers :
       /\ \/ welcomed[p] > 0 \/ p \in queue \cup leavers \cup mishaps
          \/ \E r \in Rounds : p \in InHand(r)
       /\ welcomed[p] > 1 => p \in repeats

\* "visitor-num-notify must fire exactly once per hundred, ever": twice only if two
\* passes overlapped at the gate or neither record was kept; and a milestone that is
\* recorded is announced, or will be, unless the pass that recorded it was cut off or
\* its announcement, which is not awaited nor tried again, failed or died on its way.
MilestoneAnnouncedOnce ==
  \A m \in Milestones :
    /\ announced[m] > 1 => m \in doubled
    /\ m \in ledger =>
         \/ announced[m] > 0 \/ underWay[m] > 0 \/ m \in unsent
         \/ \E r \in Rounds : pass[r].at = "fire" /\ Reached(r) = m

=============================================================================
