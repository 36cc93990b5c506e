------------------------------- MODULE LogSink ------------------------------
(***************************************************************************)
(* The mirror of one process's log in a Telegram chat (core/telegram.ts):  *)
(* lines are buffered, a timer ships the buffer in messages, a failed      *)
(* flush goes back to the buffer and backs off, a buffer that grows too    *)
(* long is cut down to its ends and a note for the rest, and what is left  *)
(* goes out synchronously when the process ends.                           *)
(***************************************************************************)
EXTENDS Naturals, Sequences, Functions

CONSTANTS
  Timers,        \* runs of flushAsync() that may be under way
  MaxBuffer,
  KeepHead, KeepTail,   \* together less than MaxBuffer
  MaxShift,      \* FLUSH_BACKOFF_MAX_SHIFT
  Lines,         \* bound: lines that reach TELEGRAM_LOG_LEVEL
  MaxFailures    \* bound: attempts that fail or whose answer is lost

SinkAssumption ==
  {MaxBuffer, KeepHead, KeepTail} \subseteq Nat /\ KeepHead + KeepTail < MaxBuffer

\* A buffered entry is the set of the lines it stands for: one of them, or
\* all those a note says were left out.
VARIABLES
  emitted,    \* lines 1 .. emitted were pushed
  buffer,
  flight,     \* [Timers -> [batch, rest]]: the batch, and what is unsent of it
  streak, cooling,
  shown,      \* entries in the chat since the last attempt that failed
  seen,       \* lines in the chat, or told of by a note there
  up,
  severed,    \* the process ended in a flush, or the last one failed
  failures

sinkVars == <<emitted, buffer, flight, streak, cooling, shown, seen, up, severed, failures>>

Rested == [batch |-> << >>, rest |-> << >>]
Sending == \E t \in Timers : flight[t] # Rested
Told(entries) == UNION Range(entries)

Init ==
  /\ emitted = 0 /\ buffer = << >>
  /\ flight = [t \in Timers |-> Rested]
  /\ streak = 0 /\ cooling = FALSE
  /\ shown = << >> /\ seen = {}
  /\ up = TRUE /\ severed = FALSE /\ failures = 0

-----------------------------------------------------------------------------
Coalesce(entries) ==
  IF Len(entries) <= MaxBuffer THEN entries
  ELSE SubSeq(entries, 1, KeepHead)
         \o <<Told(SubSeq(entries, KeepHead + 1, Len(entries) - KeepTail))>>
         \o SubSeq(entries, Len(entries) - KeepTail + 1, Len(entries))

\* pushLogLine()
Push ==
  /\ up /\ emitted < Lines
  /\ emitted' = emitted + 1
  /\ buffer' = Coalesce(Append(buffer, {emitted + 1}))
  /\ UNCHANGED <<flight, streak, cooling, shown, seen, up, severed, failures>>

MayFlush(t) == up /\ buffer # << >> /\ ~cooling /\ ~Sending

\* flushAsync(), by the timer of enableLogSink()
Flush(t) ==
  /\ MayFlush(t)
  /\ flight' = [flight EXCEPT ![t] = [batch |-> buffer, rest |-> buffer]]
  /\ buffer' = << >>
  /\ UNCHANGED <<emitted, streak, cooling, shown, seen, up, severed, failures>>

Chunks(t) == {SubSeq(flight[t].rest, 1, n) : n \in 1 .. Len(flight[t].rest)}

\* postMessage(), by tgFetch(): the next message, as many entries as fit.  An
\* attempt that times out is repeated, whether the message arrived or not.
PostChunk(t) ==
  /\ flight[t].rest # << >>
  /\ \E chunk \in Chunks(t) :
       /\ \/ shown' = shown \o chunk /\ UNCHANGED failures
          \/ failures < MaxFailures /\ failures' = failures + 1 /\ shown' = chunk
       /\ seen' = seen \cup Told(chunk)
       /\ flight' = [flight EXCEPT ![t].rest = SubSeq(@, Len(chunk) + 1, Len(@))]
  /\ UNCHANGED <<emitted, buffer, streak, cooling, up, severed>>

Shipped(t) ==
  /\ flight[t] # Rested /\ flight[t].rest = << >>
  /\ flight' = [flight EXCEPT ![t] = Rested]
  /\ streak' = 0
  /\ cooling' = (streak = 0 /\ cooling)
  /\ UNCHANGED <<emitted, buffer, shown, seen, up, severed, failures>>

\* Mutant of Requeued: the batch takes the place of what came meanwhile.
RequeuedOver(t) == Coalesce(flight[t].batch)

\* The whole batch, the messages that were sent included, goes ahead of what
\* came meanwhile; the message that failed may have arrived.
Requeued(t) == Coalesce(flight[t].batch \o buffer)

PostFails(t) ==
  /\ flight[t].rest # << >>
  /\ failures < MaxFailures /\ failures' = failures + 1
  /\ buffer' = Requeued(t)
  /\ flight' = [flight EXCEPT ![t] = Rested]
  /\ streak' = IF streak <= MaxShift THEN streak + 1 ELSE streak
  /\ cooling' = TRUE
  /\ shown' = << >>
  /\ seen' \in {seen} \cup {seen \cup Told(chunk) : chunk \in Chunks(t)}
  /\ UNCHANGED <<emitted, up, severed>>

\* The backoff, 2 ^ (streak - 1) times its base, is over.
Cooled ==
  /\ up /\ cooling
  /\ cooling' = FALSE
  /\ UNCHANGED <<emitted, buffer, flight, streak, shown, seen, up, severed, failures>>

\* flushTelegramSync() and process.exit(): a flush under way ends with the
\* process, and a message curl cannot send takes the rest with it.
Exit ==
  /\ up /\ up' = FALSE
  /\ \E n \in 0 .. Len(buffer) :
       /\ shown' = shown \o SubSeq(buffer, 1, n)
       /\ seen' = seen \cup Told(SubSeq(buffer, 1, n))
       /\ severed' = (Sending \/ n < Len(buffer))
  /\ flight' = [t \in Timers |-> Rested]
  /\ buffer' = << >>
  /\ UNCHANGED <<emitted, streak, cooling, failures>>

Next ==
  \/ Push \/ Cooled \/ Exit
  \/ \E t \in Timers : Flush(t) \/ PostChunk(t) \/ Shipped(t) \/ PostFails(t)

Spec == Init /\ [][Next]_sinkVars

-----------------------------------------------------------------------------
Entries == SUBSET (1 .. Lines) \ {{}}

\* The types of the sink.
TypeOK ==
  /\ emitted \in 0 .. Lines /\ streak \in 0 .. MaxShift + 1
  /\ {cooling, up, severed} \subseteq BOOLEAN
  /\ Range(buffer) \subseteq Entries /\ Len(buffer) <= MaxBuffer
  /\ \A t \in Timers : \E n \in 0 .. Len(flight[t].batch) :
       flight[t].rest = SubSeq(flight[t].batch, n + 1, Len(flight[t].batch))
  /\ seen \subseteq 1 .. emitted

\* "requeue the unsent lines so the backlog ships on recovery instead of being
\* dropped" (telegram.ts:188): every line is in the chat, told of by a note, or
\* on its way there, unless the process ended amid a flush.
LinesAreAccountedFor ==
  \/ severed
  \/ 1 .. emitted = seen \cup Told(buffer) \cup UNION {Told(flight[t].rest) : t \in Timers}

\* "Never overlaps" (telegram.ts:187): between two attempts that fail the chat
\* reads in the order of the log, and says nothing twice.
ChatReadsInOrder ==
  \A i, j \in 1 .. Len(shown) :
    i < j => \A x \in shown[i], y \in shown[j] : x < y

=============================================================================
