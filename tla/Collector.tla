------------------------------ MODULE Collector ------------------------------
(***************************************************************************)
(* The life of one chat in the collector (channels/feishu-user.ts): it is  *)
(* discovered, polled from a cursor kept in a file (core/state.ts), its    *)
(* messages are captured and answered one by one, and it is stood down     *)
(* when Feishu says that it is gone or out of reach.  startNew() runs at   *)
(* the start and in every rescan, and two of them may each start a loop    *)
(* for the chat.  People post, remove and re-add the account, writes and   *)
(* calls fail and the process dies, between any two steps.                 *)
(***************************************************************************)
EXTENDS Naturals

CONSTANTS
  Mentions,     \* positions of the messages that trigger a reply
  Last,         \* bound: positions are 1 .. Last
  PageSize,     \* messages per poll (20 in the code)
  StandDown,    \* INACCESSIBLE_STANDDOWN_AFTER (3 in the code)
  MaxFailures

CollectorAssumption == Last \in Nat /\ {PageSize, StandDown} \subseteq Nat \ {0}

VARIABLES
  chat,      \* Feishu: "open", "barred" (the account was removed), "dissolved"
  head,      \* Feishu: the newest position
  running,   \* the worker process lives
  oldTo,     \* positions up to here are older than the start's grace
  started,   \* the chat is in the process's set of started chats
  flag,      \* chats.inactive_reason, or "none"
  loop,      \* [Callers -> where startNew() or the loop it started is]
  streak,    \* [Callers -> Nat]: consecutive polls out of reach
  saved,     \* the cursor file: a position, or Lost
  cursor,    \* [Callers -> Nat]: the loop's cursor
  upTo,      \* [Callers -> Nat]: the last position of the poll in work, or 0
  captured, passed,          \* positions in the transcript; passed over knowingly
  answered, dropped,         \* replies per position; mentions given up
  thrown,    \* mentions whose handling threw
  unsaved,   \* [Positions -> Nat]: how often the file did not keep that it was done
  twins,     \* second loops started for the chat
  failures

collectorVars == <<chat, head, running, oldTo, started, flag, loop, streak, saved, cursor, upTo,
                   captured, passed, answered, dropped, thrown, unsaved, twins, failures>>
feishu == <<chat, head>>
file == <<saved, unsaved>>
done == <<captured, passed, answered, dropped, thrown>>
life == <<running, oldTo, started, twins>>
polling == <<streak, cursor, upTo>>

Callers == {"startup", "rescan"}
Positions == 1 .. Last
Lost == Last + 1   \* loadCursor: no file, or one that does not parse
Starting == {"listed", "asking", "clearing", "opening"}
At == {"capture", "reply", "save"}
Fails == failures < MaxFailures /\ failures' = failures + 1

Goto(s, at) == loop' = [loop EXCEPT ![s] = at]

\* The loop ends, and what it has in memory with it.
Ends(s) ==
  /\ Goto(s, "off")
  /\ streak' = [streak EXCEPT ![s] = 0]
  /\ cursor' = [cursor EXCEPT ![s] = 0]

Init ==
  /\ chat = "open" /\ head = 0
  /\ running = FALSE /\ oldTo = 0 /\ started = FALSE
  /\ flag = "none" /\ loop = [s \in Callers |-> "off"] /\ streak = [s \in Callers |-> 0]
  /\ saved = Lost /\ cursor = streak /\ upTo = streak
  /\ captured = {} /\ passed = {} /\ dropped = {} /\ thrown = {}
  /\ answered = [p \in Positions |-> 0] /\ unsaved = answered
  /\ twins = 0 /\ failures = 0

-----------------------------------------------------------------------------
\* Feishu.
Post ==
  /\ chat = "open" /\ head < Last
  /\ head' = head + 1
  /\ UNCHANGED <<chat, flag, loop, file, done, life, polling, failures>>

Bar ==
  /\ chat = "open" /\ Fails
  /\ chat' = "barred"
  /\ UNCHANGED <<head, flag, loop, file, done, life, polling>>

ReAdd ==
  /\ chat = "barred"
  /\ chat' = "open"
  /\ UNCHANGED <<head, flag, loop, file, done, life, polling, failures>>

Dissolve ==
  /\ chat = "open" /\ Fails
  /\ chat' = "dissolved"
  /\ UNCHANGED <<head, flag, loop, file, done, life, polling>>

-----------------------------------------------------------------------------
\* The cursor file.
Forgets(S) == unsaved' = [p \in Positions |-> IF p \in S THEN unsaved[p] + 1 ELSE unsaved[p]]

\* saveCursor() writes what the loop has, were it less than what is there.
Write(v) == saved' = v /\ Forgets(IF saved = Lost THEN {} ELSE v + 1 .. saved)

\* It ends half-way, before or after the file was truncated.
Tear(S) ==
  \/ saved' = saved /\ Forgets(S)
  \/ saved' = Lost /\ Forgets(Positions)

\* The process dies, if need be in the middle of saveCursor().
Crash ==
  /\ running /\ Fails
  /\ running' = FALSE /\ started' = FALSE
  /\ loop' = [s \in Callers |-> "off"] /\ streak' = [s \in Callers |-> 0]
  /\ cursor' = [s \in Callers |-> 0] /\ upTo' = [s \in Callers |-> 0]
  /\ IF \E s \in Callers : loop[s] \in {"opening", "save"}
       THEN Tear({cursor[s] : s \in {c \in Callers : loop[c] = "save"}})
       ELSE UNCHANGED file
  /\ UNCHANGED <<feishu, oldTo, flag, done, twins>>

\* run(): what was posted more than the grace before is too old to answer.
\* startNew() begins with the chats that were discovered.
Boot ==
  /\ ~running
  /\ running' = TRUE
  /\ oldTo' \in oldTo .. head
  /\ IF chat = "open" THEN Goto("startup", "listed") ELSE UNCHANGED loop
  /\ UNCHANGED <<feishu, started, flag, polling, file, done, twins, failures>>

\* rescan(): cfg.rediscover() lists a chat that is not in the set yet.  The start
\* has come to its end by then, unless its queries hang for discoveryRefreshMs.
Rescan ==
  /\ running /\ chat = "open" /\ ~started
  /\ loop["rescan"] = "off"
  /\ IF loop["startup"] = "off" THEN UNCHANGED failures ELSE Fails
  /\ Goto("rescan", "listed")
  /\ UNCHANGED <<feishu, flag, life, polling, file, done>>

\* The chat's turn in startNew(): started.has(), and chatInactiveReason() is called.
Ask(s) ==
  /\ loop[s] = "listed"
  /\ Goto(s, IF started THEN "off" ELSE "asking")
  /\ UNCHANGED <<feishu, flag, life, polling, file, done, failures>>

\* started.add() and, in the same step, startChatLoop() to its first await.
Launch(s) ==
  /\ started' = TRUE
  /\ twins' = IF started THEN twins + 1 ELSE twins
  /\ Goto(s, IF saved = Lost THEN "opening" ELSE "idle")
  /\ cursor' = [cursor EXCEPT ![s] = IF saved = Lost THEN 0 ELSE saved]

\* A query that fails is taken for a chat that has no reason.
Told(s) ==
  /\ loop[s] = "asking"
  /\ \/ flag = "none" /\ Launch(s) /\ UNCHANGED failures
     \/ flag # "none" /\ Launch(s) /\ Fails
     \/ /\ flag = "dissolved"
        /\ started' = TRUE /\ Goto(s, "off")
        /\ UNCHANGED <<twins, cursor, failures>>
     \/ /\ flag = "inaccessible"
        /\ Goto(s, "clearing")
        /\ UNCHANGED <<started, twins, cursor, failures>>
  /\ UNCHANGED <<feishu, flag, running, oldTo, streak, upTo, file, done>>

\* clearChatInactive(), best effort.
Clear(s) ==
  /\ loop[s] = "clearing"
  /\ \/ flag' = "none" /\ UNCHANGED failures
     \/ flag' = flag /\ Fails
  /\ Launch(s)
  /\ UNCHANGED <<feishu, running, oldTo, streak, upTo, file, done>>

\* markChatInactive(): best effort, and the first reason stays.
Mark(reason) ==
  \/ flag' = (IF flag = "none" THEN reason ELSE flag) /\ UNCHANGED failures
  \/ flag' = flag /\ Fails

\* The roster's or the reactions' sync finds the chat dissolved.
SyncMarks ==
  /\ running /\ chat = "dissolved" /\ flag = "none"
  /\ flag' = "dissolved"
  /\ UNCHANGED <<feishu, loop, life, polling, file, done, failures>>

-----------------------------------------------------------------------------
\* startChatLoop() without a cursor listens from the newest message on.  When
\* that cannot be read, the first polls take what the page has.
Open(s) ==
  /\ loop[s] = "opening"
  /\ \/ /\ chat = "open"
        /\ cursor' = [cursor EXCEPT ![s] = head]
        /\ passed' = passed \cup 1 .. head
        /\ (Write(head) /\ UNCHANGED failures) \/ (Tear({}) /\ Fails)
        /\ Goto(s, "idle")
        /\ UNCHANGED flag
     \/ /\ (chat = "barred" /\ UNCHANGED failures) \/ (chat = "open" /\ Fails)
        /\ Goto(s, "idle")
        /\ UNCHANGED <<cursor, passed, file, flag>>
     \/ /\ chat = "dissolved"
        /\ Mark("dissolved")
        /\ Goto(s, "off")
        /\ UNCHANGED <<cursor, passed, file>>
  /\ UNCHANGED <<feishu, life, streak, upTo, captured, answered, dropped, thrown>>

\* Mutated Start: the cursor file moves along with the cursor in memory.
StartSaved(s, p) == cursor' = [cursor EXCEPT ![s] = p] /\ saved' = p /\ UNCHANGED unsaved

\* The cursor in memory moves first.
Start(s, p) == cursor' = [cursor EXCEPT ![s] = p] /\ UNCHANGED file

\* pollOnce(): of the page of the newest messages those behind the cursor, in
\* order; what has scrolled past the page is never seen.
Poll(s) ==
  LET skipped == IF head > cursor[s] + PageSize THEN head - PageSize ELSE cursor[s] IN
  /\ loop[s] = "idle" /\ chat = "open"
  /\ cursor[s] < head
  /\ upTo' = [upTo EXCEPT ![s] = head]
  /\ passed' = passed \cup cursor[s] + 1 .. skipped
  /\ Start(s, skipped + 1)
  /\ streak' = [streak EXCEPT ![s] = 0]
  /\ Goto(s, "capture")
  /\ UNCHANGED <<feishu, flag, life, captured, answered, dropped, thrown, failures>>

\* A poll that fails otherwise ends the streak of those out of reach.
PollFails(s) ==
  /\ loop[s] = "idle" /\ Fails
  /\ streak' = [streak EXCEPT ![s] = 0]
  /\ UNCHANGED <<feishu, flag, loop, life, cursor, upTo, file, done>>

PollGone(s) ==
  /\ loop[s] = "idle" /\ chat = "dissolved"
  /\ Mark("dissolved")
  /\ Ends(s)
  /\ UNCHANGED <<feishu, life, upTo, file, done>>

\* Out of reach: tried again, and stood down when it lasts.
PollBarred(s) ==
  /\ loop[s] = "idle" /\ chat = "barred"
  /\ IF streak[s] + 1 < StandDown
       THEN streak' = [streak EXCEPT ![s] = @ + 1] /\ UNCHANGED <<loop, cursor, flag, failures>>
       ELSE Ends(s) /\ Mark("inaccessible")
  /\ UNCHANGED <<feishu, life, upTo, file, done>>

-----------------------------------------------------------------------------
\* The messages of the page, one by one.  appendTranscript() is best effort;
\* what triggers no reply, or is too old for one, is done with it.
Triggers(p) == p \in Mentions /\ p > oldTo
Capture(s) ==
  LET p == cursor[s] IN
  /\ loop[s] = "capture"
  /\ \/ captured' = captured \cup {p} /\ UNCHANGED <<passed, failures>>
     \/ Fails /\ passed' = passed \cup {p} /\ UNCHANGED captured
  /\ IF Triggers(p)
       THEN Goto(s, "reply") /\ UNCHANGED dropped
       ELSE Goto(s, "save") /\ dropped' = dropped \cup ({p} \cap Mentions)
  /\ UNCHANGED <<feishu, flag, life, polling, file, answered, thrown>>

\* handle(): the reply is sent, or sending it fails and is logged.
Handle(s) ==
  LET p == cursor[s] IN
  /\ loop[s] = "reply"
  /\ \/ answered' = [answered EXCEPT ![p] = @ + 1] /\ UNCHANGED <<dropped, failures>>
     \/ Fails /\ dropped' = dropped \cup {p} /\ UNCHANGED answered
  /\ Goto(s, "save")
  /\ UNCHANGED <<feishu, flag, life, polling, file, captured, passed, thrown>>

\* The poll ends where something throws, and the next one goes on behind the
\* message the cursor in memory has come to.
Abort(s) ==
  /\ Fails
  /\ streak' = [streak EXCEPT ![s] = 0]
  /\ upTo' = [upTo EXCEPT ![s] = 0]
  /\ Goto(s, "idle")
  /\ UNCHANGED <<feishu, flag, life, cursor, captured, passed, answered, dropped>>

\* A command or the LP database throws.
HandleThrows(s) ==
  /\ loop[s] = "reply"
  /\ thrown' = thrown \cup {cursor[s]}
  /\ Abort(s)
  /\ UNCHANGED file

SaveThrows(s) ==
  /\ loop[s] = "save"
  /\ Tear({cursor[s]})
  /\ Abort(s)
  /\ UNCHANGED thrown

\* The next message of the batch.
NextMessage(s) ==
  IF cursor[s] = upTo[s]
    THEN Goto(s, "idle") /\ upTo' = [upTo EXCEPT ![s] = 0] /\ UNCHANGED cursor
    ELSE Goto(s, "capture") /\ cursor' = [cursor EXCEPT ![s] = @ + 1] /\ UNCHANGED upTo

\* Mutated Save: the file is written at the end of the batch only.
SavePerBatch(s) ==
  /\ loop[s] = "save"
  /\ IF cursor[s] = upTo[s] THEN Write(cursor[s]) ELSE UNCHANGED file
  /\ NextMessage(s)
  /\ UNCHANGED <<feishu, flag, life, streak, done, failures>>

\* saveCursor().
Save(s) ==
  /\ loop[s] = "save"
  /\ Write(cursor[s])
  /\ NextMessage(s)
  /\ UNCHANGED <<feishu, flag, life, streak, done, failures>>

Work(s) ==
  \/ Ask(s) \/ Told(s) \/ Clear(s) \/ Open(s)
  \/ Poll(s) \/ PollGone(s) \/ PollBarred(s)
  \/ Capture(s) \/ Handle(s) \/ Save(s)
  \/ PollFails(s) \/ HandleThrows(s) \/ SaveThrows(s)
Next ==
  \/ Post \/ Bar \/ ReAdd \/ Dissolve \/ Crash
  \/ Boot \/ Rescan \/ SyncMarks
  \/ \E s \in Callers : Work(s)

Spec == Init /\ [][Next]_collectorVars

-----------------------------------------------------------------------------
\* The types of the collector's state, and a loop that runs belongs to a
\* process that lives.
TypeOK ==
  /\ chat \in {"open", "barred", "dissolved"}
  /\ head \in 0 .. Last /\ oldTo \in 0 .. head /\ cursor \in [Callers -> 0 .. head]
  /\ saved \in 0 .. head \cup {Lost}
  /\ flag \in {"none", "inaccessible", "dissolved"}
  /\ loop \in [Callers -> {"off", "idle"} \cup Starting \cup At]
  /\ upTo \in [Callers -> 0 .. head]
  /\ \A s \in Callers : /\ loop[s] # "off" => running
                        /\ loop[s] \in {"opening", "idle"} \cup At => started
                        /\ IF loop[s] \in At THEN cursor[s] \in 1 .. upTo[s] ELSE upTo[s] = 0
  /\ streak \in [Callers -> 0 .. StandDown]
  /\ captured \cup passed \cup dropped \cup thrown \subseteq 1 .. head
  /\ {answered, unsaved} \subseteq [Positions -> Nat]
  /\ twins \in Nat

\* Behind the saved cursor every message is in the transcript or passed over by
\* the page, by a lost cursor or by a failed write, and every mention is
\* answered or given up: it was too old, the send failed, or its handling
\* threw.  The last is against the comment that "only then does the cursor
\* advance past it", when the handling "fully completes": the cursor is moved
\* before.
NothingSlipsBehindTheCursor ==
  saved # Lost =>
    \A p \in 1 .. saved :
      /\ p \in captured \cup passed
      /\ p \in Mentions => answered[p] > 0 \/ p \in dropped \cup thrown \cup passed

\* A mention is answered once more only for each time that the file did not
\* keep that it was (the process died before the save's end, the save threw or
\* tore the file, a second loop's save put it back), and for each second loop.
AnsweredOnce == \A p \in Positions : answered[p] <= 1 + unsaved[p] + twins

=============================================================================
