------------------------------- MODULE PeerBus -------------------------------
(***************************************************************************)
(* The peer bus (core/peer-bus.ts; the watcher of channels/feishu-bot.ts;  *)
(* peer_recv of tools/mcp-server.ts) in one chat: an agent that has spoken *)
(* appends a cue to its peers' inbox files; each peer's worker watches its *)
(* own file, marks the cues read by rewriting it and may reply, which      *)
(* relays the chain.  Appends, rewrites, handlers and deaths interleave.   *)
(***************************************************************************)
EXTENDS Naturals, Sequences

CONSTANTS
  Souls,
  Handlers,      \* bound: handlers of one watcher at a time, as numbers
  MaxDepth,      \* MAX_AGENT_CHAIN_DEPTH (6 in the code)
  Budget,        \* DEFAULT_CHAIN_BUDGET (8 in the code)
  PerHour,       \* PEER_MAX_REPLIES_PER_HOUR (3 in the code)
  MaxKicks,      \* bound: human turns and hours
  MaxFailures

\* peer-bus.ts: 6, 8 and 3.
CapsAssumption == MaxDepth \in Nat \ {0} /\ Budget \in Nat /\ PerHour \in Nat \ {0}

VARIABLES
  inbox,       \* [Souls -> Seq(Cue)]: the unread cues of inbox.jsonl
  changed,     \* souls whose watcher has a 'change' event to deliver
  debounce,    \* souls whose debounce timer is set
  rewriting,   \* [Souls -> SUBSET {"watcher", "tool"}]: who has read the file
  readCues,    \* [Souls -> Seq(Cue)]: what the watcher read
  handler,     \* [Souls -> [Handlers -> Handler]]
  replies,     \* [Souls -> Nat]: this hour's replies
  overlapped,  \* souls with replies judged while another was being written
  up, slept,   \* living workers; those that were started with cues unread
  kicks, deaths

peerVars == <<inbox, changed, debounce, rewriting, readCues, handler, replies, overlapped,
              up, slept, kicks, deaths>>

Cue == [depth : 1 .. MaxDepth, budget : 0 .. Budget]
FirstCue == [depth |-> 1, budget |-> Budget]
Free == [at |-> "free", cue |-> FirstCue]

Init ==
  /\ inbox = [s \in Souls |-> <<>>]
  /\ changed = {} /\ debounce = {}
  /\ rewriting = [s \in Souls |-> {}] /\ readCues = inbox
  /\ handler = [s \in Souls |-> [h \in Handlers |-> Free]]
  /\ replies = [s \in Souls |-> 0] /\ overlapped = {}
  /\ up = Souls /\ slept = {}
  /\ kicks = 0 /\ deaths = 0

\* broadcastCue(): a line in every peer's file, whoever is rewriting it.
Broadcast(s, cue) ==
  LET peers == Souls \ {s} IN
  /\ inbox' = [p \in Souls |-> IF p \in peers THEN Append(inbox[p], cue) ELSE inbox[p]]
  /\ changed' = changed \cup (peers \cap up)

\* processJob(): the kickoff after a reply to a person.
Kick(s) ==
  /\ s \in up /\ kicks < MaxKicks
  /\ kicks' = kicks + 1
  /\ Broadcast(s, FirstCue)
  /\ UNCHANGED <<debounce, rewriting, readCues, handler, replies, overlapped, up, slept, deaths>>

-----------------------------------------------------------------------------
\* The watcher's thread is in no rewrite.
Turn(s) == s \in up /\ "watcher" \notin rewriting[s]

\* Mutated Watch: the timer's mark is taken back when the replies are written.
WatchUntilWritten(s) ==
  /\ Turn(s) /\ s \in changed
  /\ changed' = changed \ {s}
  /\ debounce' = IF \A h \in Handlers : handler[s][h] = Free THEN debounce \cup {s} ELSE debounce
  /\ UNCHANGED <<inbox, rewriting, readCues, handler, replies, overlapped, up, slept, kicks,
                 deaths>>

\* Events while the timer is set are dropped.
Watch(s) ==
  /\ Turn(s) /\ s \in changed
  /\ changed' = changed \ {s}
  /\ debounce' = debounce \cup {s}
  /\ UNCHANGED <<inbox, rewriting, readCues, handler, replies, overlapped, up, slept, kicks,
                 deaths>>

\* The timer takes its mark back, then hasUnreadCue() and the reading half of readUnreadCues().
Collect(s) ==
  /\ Turn(s) /\ s \in debounce
  /\ debounce' = debounce \ {s}
  /\ slept' = slept \ {s}
  /\ IF inbox[s] = <<>>
       THEN UNCHANGED <<rewriting, readCues>>
       ELSE /\ rewriting' = [rewriting EXCEPT ![s] = @ \cup {"watcher"}]
            /\ readCues' = [readCues EXCEPT ![s] = inbox[s]]
  /\ UNCHANGED <<inbox, changed, handler, replies, overlapped, up, kicks, deaths>>

\* peer_recv of the agent's own model reads the same file in another process.
Receive(s) ==
  /\ "tool" \notin rewriting[s] /\ inbox[s] # <<>>
  /\ rewriting' = [rewriting EXCEPT ![s] = @ \cup {"tool"}]
  /\ UNCHANGED <<inbox, changed, debounce, readCues, handler, replies, overlapped, up, slept,
                 kicks, deaths>>

\* The writing half: the file is what was read, all of it marked read.  A cue
\* appended in between is gone.
WriteBack(s, reader) ==
  /\ reader \in rewriting[s]
  /\ inbox' = [inbox EXCEPT ![s] = <<>>]
  /\ changed' = changed \cup ({s} \cap up)
  /\ rewriting' = [rewriting EXCEPT ![s] = @ \ {reader}]

Received(s) ==
  /\ WriteBack(s, "tool")
  /\ UNCHANGED <<debounce, readCues, handler, replies, overlapped, up, slept, kicks, deaths>>

\* The latest cue of the chat is the one that counts.
Collected(s) ==
  /\ WriteBack(s, "watcher")
  /\ readCues' = [readCues EXCEPT ![s] = <<>>]
  /\ \E h \in Handlers :
       /\ handler[s][h] = Free
       /\ \A i \in Handlers : handler[s][i] = Free => h <= i
       /\ handler' = [handler EXCEPT ![s][h] = [at |-> "judge", cue |-> readCues[s][Len(readCues[s])]]]
  /\ UNCHANGED <<debounce, replies, overlapped, up, slept, kicks, deaths>>

-----------------------------------------------------------------------------
End(s, h) == handler' = [handler EXCEPT ![s][h] = Free]
Writing(s) == {h \in Handlers : handler[s][h].at = "write"}

\* Mutated WindsDown: the hour's replies are not asked for.
WindsDownUncapped(s, cue) == cue.depth >= MaxDepth \/ cue.budget <= 0

\* Too deep, out of budget, or over the hour's cap.
WindsDown(s, cue) == cue.depth >= MaxDepth \/ cue.budget <= 0 \/ replies[s] >= PerHour

Judge(s, h) ==
  /\ handler[s][h].at = "judge"
  /\ IF WindsDown(s, handler[s][h].cue)
       THEN End(s, h) /\ UNCHANGED overlapped
       ELSE /\ handler' = [handler EXCEPT ![s][h].at = "write"]
            /\ overlapped' = IF Writing(s) # {} THEN overlapped \cup {s} ELSE overlapped
  /\ UNCHANGED <<inbox, changed, debounce, rewriting, readCues, replies, up, slept, kicks, deaths>>

\* Jitter and the model: silence, a bare acknowledgement, an error or a post
\* that fails ends it ...
StaySilent(s, h) ==
  /\ handler[s][h].at = "write"
  /\ End(s, h)
  /\ UNCHANGED <<inbox, changed, debounce, rewriting, readCues, replies, overlapped, up, slept,
                 kicks, deaths>>

\* ... a reply is counted when it is posted, and relayed deeper and for less.
Reply(s, h) ==
  LET next == [depth |-> handler[s][h].cue.depth + 1, budget |-> handler[s][h].cue.budget - 1] IN
  /\ handler[s][h].at = "write" /\ Turn(s)
  /\ replies' = [replies EXCEPT ![s] = @ + 1]
  /\ IF next.depth < MaxDepth /\ next.budget > 0
       THEN Broadcast(s, next)
       ELSE UNCHANGED <<inbox, changed>>
  /\ End(s, h)
  /\ UNCHANGED <<debounce, rewriting, readCues, overlapped, up, slept, kicks, deaths>>

\* Bound: hours and human turns together.
HourPasses ==
  /\ kicks < MaxKicks
  /\ kicks' = kicks + 1
  /\ replies' = [s \in Souls |-> 0]
  /\ overlapped' = {s \in Souls : \E g, h \in Writing(s) : g # h}
  /\ UNCHANGED <<inbox, changed, debounce, rewriting, readCues, handler, up, slept, deaths>>

\* A worker dies with its timers, handlers and counts.  What is unread when it
\* comes back stays so until the next change.
Die(s) ==
  /\ s \in up /\ deaths < MaxFailures
  /\ up' = up \ {s} /\ changed' = changed \ {s} /\ debounce' = debounce \ {s}
  /\ rewriting' = [rewriting EXCEPT ![s] = @ \ {"watcher"}]
  /\ readCues' = [readCues EXCEPT ![s] = <<>>]
  /\ handler' = [handler EXCEPT ![s] = [h \in Handlers |-> Free]]
  /\ replies' = [replies EXCEPT ![s] = 0] /\ overlapped' = overlapped \ {s}
  /\ deaths' = deaths + 1
  /\ UNCHANGED <<inbox, slept, kicks>>

Restart(s) ==
  /\ s \notin up
  /\ up' = up \cup {s}
  /\ slept' = IF inbox[s] # <<>> THEN slept \cup {s} ELSE slept
  /\ UNCHANGED <<inbox, changed, debounce, rewriting, readCues, handler, replies, overlapped,
                 kicks, deaths>>

Next ==
  \/ HourPasses
  \/ \E s \in Souls :
       \/ Kick(s) \/ Watch(s) \/ Collect(s) \/ Collected(s) \/ Receive(s) \/ Received(s)
       \/ Die(s) \/ Restart(s)
       \/ \E h \in Handlers : Judge(s, h) \/ StaySilent(s, h) \/ Reply(s, h)

Spec == Init /\ [][Next]_peerVars

-----------------------------------------------------------------------------
\* The types of the inboxes and handlers.
TypeOK ==
  /\ {inbox, readCues} \subseteq [Souls -> Seq(Cue)]
  /\ changed \cup debounce \subseteq up
  /\ {up, slept, overlapped} \subseteq SUBSET Souls
  /\ rewriting \in [Souls -> SUBSET {"watcher", "tool"}]
  /\ handler \in [Souls -> [Handlers -> [at : {"free", "judge", "write"}, cue : Cue]]]
  /\ replies \in [Souls -> Nat]

\* "Collapse the burst of events from a single append": dropping the events
\* while the timer is set never leaves a cue unread with nothing left to wake
\* the watcher, but for cues that were unread when the worker was started.
NoCueSleeps ==
  \A s \in up :
    inbox[s] # <<>> /\ rewriting[s] = {} => s \in changed \cup debounce \cup slept

\* The hourly cap, "an anti-flood backstop independent of the LLM", is only
\* exceeded by handlers that overlapped while they wrote.
CapIsExceededByOverlapOnly ==
  \A s \in Souls : replies[s] > PerHour => s \in overlapped

=============================================================================
