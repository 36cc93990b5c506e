------------------------------ MODULE Records -------------------------------
(***************************************************************************)
(* What is kept of the groups: a chat's pins, the long-term memory, and    *)
(* the views of some documents.  They share no state; side says which one  *)
(* runs, or that none of them does.                                        *)
(***************************************************************************)
EXTENDS Integers

CONSTANTS
  PinMessages, PinCap, PinSweeps, MaxPins, PinSeconds, MaxPinFailures,  \* Pins
  MemoryUsers, MemoryChats, Summaries, Aggregators, Operators, Sizes, GroupLimit, UserLimit,
  MaxMemories, MaxSaid, MaxClock,                                       \* Memory
  Space, Viewers, MaxTargets, MaxViews, MaxGaps                         \* DocViews

VARIABLES
  side,
  popular, stale, pinSecond, pinned, byHand, tracked, pinnedAt, pinSweep, pins, takenDown,
  pinMarred, pinFailures,
  memories, said, clockNow, writer, heard, mixed,
  ours, latest, views, viewRows, viewsTold, toldAgain, viewPass, gaps

popularOnes == <<popular, stale, pinSecond, pinned, byHand, tracked, pinnedAt, pinSweep, pins,
                 takenDown, pinMarred, pinFailures>>
memory == <<memories, said, clockNow, writer, heard, mixed>>
docs == <<ours, latest, views, viewRows, viewsTold, toldAgain, viewPass, gaps>>

X == INSTANCE Pins WITH
       Messages <- PinMessages, Cap <- PinCap, Sweeps <- PinSweeps,
       Seconds <- PinSeconds, MaxFailures <- MaxPinFailures, second <- pinSecond,
       sweep <- pinSweep, marred <- pinMarred, failures <- pinFailures
Y == INSTANCE Memory WITH
       Users <- MemoryUsers, Chats <- MemoryChats, MaxRows <- MaxMemories,
       rows <- memories, clock <- clockNow
F == INSTANCE DocViews WITH
       MaxFailures <- MaxGaps, rows <- viewRows, told <- viewsTold, pass <- viewPass,
       failures <- gaps

recordsVars == <<side, popularOnes, memory, docs>>

\* What the parts assume of their parameters.
ASSUME PinnedOnes == X!PinsAssumption
ASSUME Documents == F!DocsAssumption
ASSUME Memories == Y!MemoryAssumption

Sides == {"groups", "pins", "memory", "docs"}

RecordsInit == side \in Sides /\ X!Init /\ Y!Init /\ F!Init

RecordsNext ==
  /\ UNCHANGED side
  /\ \/ side = "pins" /\ X!Next /\ UNCHANGED <<memory, docs>>
     \/ side = "memory" /\ Y!Next /\ UNCHANGED <<popularOnes, docs>>
     \/ side = "docs" /\ F!Next /\ UNCHANGED <<popularOnes, memory>>

RecordsSpec == RecordsInit /\ [][RecordsNext]_recordsVars

-----------------------------------------------------------------------------
\* The types of all of them.
RecordsTypeOK == side \in Sides /\ X!TypeOK /\ Y!TypeOK /\ F!TypeOK

\* syncChatReactions: a chat's pins are its newest, and no more than the cap.
PinsStayWithinTheCap == side = "pins" => X!PinsStayWithinTheCap
\* store/memory.ts: one row for a scope's key, made from the latest messages,
\* and a summary that fits is in the prompt.
MemoryIsCurrent == side = "memory" => Y!WritesLand /\ Y!PromptCarriesTheSummary
\* syncDocViewRecords: a clean pass catches up, and no view is reported twice.
ViewsAreCaughtUpOnce == side = "docs" => F!ViewsAreCaughtUpOnce

=============================================================================
