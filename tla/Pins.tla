-------------------------------- MODULE Pins --------------------------------
(***************************************************************************)
(* Popular messages of one chat (channels/feishu-user.ts, the pin half of  *)
(* syncChatReactions; core/store/reactions.ts, pinned_messages): a sweep   *)
(* pins what enough people reacted to today, keeps track of its pins and   *)
(* takes the oldest down beyond Cap of them, by the second they were put   *)
(* up.  Sweeps may overlap (the first after a start and the rescans), the  *)
(* worker may die, and people take pins down by hand.                      *)
(***************************************************************************)
EXTENDS Integers, Sequences, FiniteSets

CONSTANTS
  Messages,     \* 1 .. n, the later the newer; all within the listing
  Cap,          \* PIN_CAP (5 in the code)
  Sweeps,
  MaxPins,      \* bound: how often one message is pinned
  Seconds,      \* bound: 1 .. Seconds, of the table's clock
  MaxFailures

PinsAssumption == IsFiniteSet(Messages) /\ Cap \in Nat \ {0}

VARIABLES
  popular,      \* messages with autoPinMinReactors people's reactions
  stale,        \* messages that are no longer of today
  second,       \* the database's unixepoch(), which is not set back
  pinned,       \* Feishu: those of the sweeps' pins that are up
  byHand,       \* messages somebody unpinned since a sweep last pinned them
  tracked,      \* pinned_messages
  pinnedAt,     \* [Messages -> pinned_at of its last row], 0 without one
  sweep,        \* [Sweeps -> Sweep]
  pins,         \* [Messages -> how often it was pinned]
  takenDown,    \* [Messages -> how often the cap took it from the table]
  marred,       \* a failure or an overlap touched the table or its reading
  failures

world == <<popular, stale, second>>
table == <<tracked, pinnedAt>>
pinVars == <<world, pinned, byHand, table, sweep, pins, takenDown, marred, failures>>

Idle == [at |-> "idle", old |-> {}, todo |-> <<>>, m |-> 0, over |-> {}]
Fails == failures < MaxFailures /\ failures' = failures + 1
NewestFirst(S) ==
  {list \in [1 .. Cardinality(S) -> S] : \A i, j \in DOMAIN list : i < j => list[i] > list[j]}
To(s, at) == sweep' = [sweep EXCEPT ![s].at = at]

Init ==
  /\ popular = {} /\ stale = {} /\ second = 1
  /\ pinned = {} /\ byHand = {}
  /\ tracked = {} /\ pinnedAt = [m \in Messages |-> 0]
  /\ sweep = [s \in Sweeps |-> Idle]
  /\ pins = [m \in Messages |-> 0] /\ takenDown = [m \in Messages |-> 0]
  /\ marred = FALSE /\ failures = 0

-----------------------------------------------------------------------------
React(m) ==
  /\ m \notin popular
  /\ popular' = popular \cup {m}
  /\ UNCHANGED <<stale, second, pinned, byHand, table, sweep, pins, takenDown, marred,
                 failures>>

\* logicalDayStart() passes: what there is belongs to yesterday.
NextDay ==
  /\ stale # Messages
  /\ stale' = Messages
  /\ UNCHANGED <<popular, second, pinned, byHand, table, sweep, pins, takenDown, marred,
                 failures>>

SecondPasses ==
  /\ second < Seconds
  /\ second' = second + 1
  /\ UNCHANGED <<popular, stale, pinned, byHand, table, sweep, pins, takenDown, marred,
                 failures>>

\* Somebody unpins the message, or it is recalled; its row stays until the cap's turn.
TakeDown(m) ==
  /\ m \in pinned
  /\ pinned' = pinned \ {m} /\ byHand' = byHand \cup {m}
  /\ UNCHANGED <<world, table, sweep, pins, takenDown, marred, failures>>

\* todayStartMs, then listMessages(), newest first.
Start(s) ==
  /\ sweep[s].at = "idle" /\ popular # {}
  /\ \E list \in NewestFirst(popular) :
       sweep' = [sweep EXCEPT ![s] = [Idle EXCEPT !.at = "judge", !.old = stale, !.todo = list]]
  /\ marred' = (marred \/ \E t \in Sweeps \ {s} : sweep[t].at # "idle")
  /\ UNCHANGED <<world, pinned, byHand, table, pins, takenDown, failures>>

\* isMessagePinned(), FALSE when the database does not answer, then the day the
\* message is of, as the sweep saw it when it began.
Judge(s) ==
  LET m == Head(sweep[s].todo) IN
  /\ sweep[s].at = "judge" /\ sweep[s].todo # <<>>
  /\ \E fails \in BOOLEAN :
       /\ \/ ~fails /\ UNCHANGED <<failures, marred>>
          \/ fails /\ Fails /\ marred' = TRUE
       /\ sweep' = [sweep EXCEPT ![s].todo = Tail(@), ![s].m = m,
                      ![s].at = IF m \in sweep[s].old \/ (m \in tracked /\ ~fails) THEN "judge"
                                ELSE "pin"]
  /\ UNCHANGED <<world, pinned, byHand, table, pins, takenDown>>

End(s) ==
  /\ sweep[s].at = "judge" /\ sweep[s].todo = <<>>
  /\ sweep' = [sweep EXCEPT ![s] = Idle]
  /\ UNCHANGED <<world, pinned, byHand, table, pins, takenDown, marred, failures>>

\* pinMessage(); one that fails is tried again by the next sweep.
Pin(s) ==
  LET m == sweep[s].m IN
  /\ sweep[s].at = "pin" /\ pins[m] < MaxPins
  /\ \/ /\ pinned' = pinned \cup {m} /\ byHand' = byHand \ {m}
        /\ pins' = [pins EXCEPT ![m] = @ + 1]
        /\ To(s, "record")
        /\ UNCHANGED <<failures, marred>>
     \/ /\ Fails
        /\ pinned' \in {pinned, pinned \cup {m}}
        /\ To(s, "judge")
        /\ marred' = TRUE
        /\ UNCHANGED <<byHand, pins>>
  /\ UNCHANGED <<world, table, takenDown>>

\* recordPinnedMessage(), ON CONFLICT DO NOTHING, best effort.
Record(s) ==
  LET m == sweep[s].m IN
  /\ sweep[s].at = "record"
  /\ \/ /\ tracked' = tracked \cup {m}
        /\ pinnedAt' = IF m \in tracked THEN pinnedAt ELSE [pinnedAt EXCEPT ![m] = second]
        /\ UNCHANGED <<failures, marred>>
     \/ Fails /\ marred' = TRUE /\ UNCHANGED table
  /\ To(s, "trim")
  /\ UNCHANGED <<world, pinned, byHand, pins, takenDown>>

\* How many rows there are too many.
Excess == IF Cardinality(tracked) > Cap THEN Cardinality(tracked) - Cap ELSE 0

\* Mutant of Beyond: the newest rows are taken for the oldest.
BeyondNewest == {S \in SUBSET tracked :
                   /\ Cardinality(S) = Excess
                   /\ \A a \in S, b \in tracked \ S : pinnedAt[a] >= pinnedAt[b]}

\* Which they may be: no row of them is of a later second than one that stays.
Beyond == {S \in SUBSET tracked :
             /\ Cardinality(S) = Excess
             /\ \A a \in S, b \in tracked \ S : pinnedAt[a] <= pinnedAt[b]}

\* pinnedMessagesOldestBeyond(), none on an error.  Rows of one second come in any
\* order: the message just pinned may be among those to take down.
Trim(s) ==
  /\ sweep[s].at = "trim"
  /\ \/ \E over \in Beyond :
          sweep' = [sweep EXCEPT ![s].at = "unpin", ![s].over = over]
        /\ UNCHANGED <<failures, marred>>
     \/ Fails /\ marred' = TRUE /\ To(s, "judge")
  /\ UNCHANGED <<world, pinned, byHand, table, pins, takenDown>>

\* unpinMessage(), which fails when the pin is no longer up, and removePinnedMessage()
\* whatever came of it, best effort.
Unpin(s) ==
  \E old \in sweep[s].over :
    /\ sweep[s].at = "unpin"
    /\ \A o \in sweep[s].over : pinnedAt[old] <= pinnedAt[o]
    /\ \/ /\ pinned' = pinned \ {old} /\ tracked' = tracked \ {old}
          /\ UNCHANGED <<failures, marred>>
       \/ /\ Fails /\ marred' = TRUE
          /\ pinned' \in {pinned, pinned \ {old}} /\ tracked' \in {tracked, tracked \ {old}}
    /\ takenDown' = [takenDown EXCEPT ![old] = @ + 1]
    /\ sweep' = [sweep EXCEPT ![s].over = @ \ {old}]
    /\ UNCHANGED <<world, byHand, pinnedAt, pins>>

Trimmed(s) ==
  /\ sweep[s].at = "unpin" /\ sweep[s].over = {}
  /\ To(s, "judge")
  /\ UNCHANGED <<world, pinned, byHand, table, pins, takenDown, marred, failures>>

WorkerDies ==
  /\ \E s \in Sweeps : sweep[s].at # "idle"
  /\ Fails
  /\ marred' = TRUE
  /\ sweep' = [s \in Sweeps |-> Idle]
  /\ UNCHANGED <<world, pinned, byHand, table, pins, takenDown>>

Next ==
  \/ \E m \in Messages : React(m) \/ TakeDown(m)
  \/ NextDay \/ SecondPasses \/ WorkerDies
  \/ \E s \in Sweeps :
       \/ Start(s) \/ Judge(s) \/ End(s) \/ Pin(s) \/ Record(s) \/ Trim(s) \/ Unpin(s)
       \/ Trimmed(s)

Spec == Init /\ [][Next]_pinVars

-----------------------------------------------------------------------------
\* The types of the table and the sweeps.
TypeOK ==
  /\ popular \cup stale \cup pinned \cup byHand \cup tracked \subseteq Messages
  /\ second \in 1 .. Seconds /\ pinnedAt \in [Messages -> 0 .. second]
  /\ \A s \in Sweeps : /\ sweep[s].at \in {"idle", "judge", "pin", "record", "trim", "unpin"}
                       /\ sweep[s].todo \in Seq(Messages) /\ sweep[s].over \subseteq Messages
  /\ {pins, takenDown} \subseteq [Messages -> Nat]

\* "keep at most this many of OUR auto-pins per chat; unpin the oldest beyond
\* it" (feishu-user.ts): as long as no sweep overlaps another or fails, the
\* table says what is pinned but for what was unpinned by hand, a sweep leaves at
\* most Cap rows behind, and no row the cap took away is of a later second than
\* one that stayed (of one second the message just pinned may be the one to go).
\* Against "pin it (once, idempotent via pinned_messages)" and "pins it exactly
\* once and skips it on later polls": a message whose row the cap took away is
\* pinned again while it is of today, also when somebody had unpinned it; without
\* that, once is what it is.
PinsStayWithinTheCap ==
  ~marred =>
    /\ \A m \in Messages : pins[m] \in {takenDown[m], takenDown[m] + 1}
    /\ \A m \in tracked, d \in Messages \ tracked :
         takenDown[d] > 0 => pinnedAt[d] <= pinnedAt[m]
    /\ (\A s \in Sweeps : sweep[s].at \in {"idle", "judge", "pin"}) =>
         pinned = tracked \ byHand /\ Cardinality(tracked) <= Cap

=============================================================================
