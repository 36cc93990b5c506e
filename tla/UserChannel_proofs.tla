------------------------- MODULE UserChannel_proofs -------------------------
(***************************************************************************)
(* Theorems about the user's channel, for every value of the constants:    *)
(* the collector's cursor and the greetings of those who join, as          *)
(* Community runs them, and the pins, the memories and the views of        *)
(* documents, as Records runs them.                                        *)
(***************************************************************************)
EXTENDS Community, Records, SumTheorems, Integers, FiniteSets, FiniteSetTheorems,
        SequenceTheorems, TLAPS

-----------------------------------------------------------------------------
(***************************************************************************)
(* Collector: nothing slips behind the cursor, nobody is answered twice.   *)
(***************************************************************************)

\* A message was dealt with: it is in the transcript or passed over knowingly, and
\* a mention was answered or given up.
Dealt(p) ==
  /\ p \in captured \cup passed
  /\ p \in Mentions => answered[p] > 0 \/ p \in dropped \cup thrown \cup passed

\* The types; a loop that runs is of a chat that was started in a process that lives,
\* and works between its cursor and the end of its page.
LoopState == {"off", "idle"} \cup L!Starting \cup L!At
CursorTyped ==
  /\ head \in 0 .. LastMessage /\ saved \in 0 .. head \cup {L!Lost}
  /\ cursor \in [L!Callers -> 0 .. head] /\ upTo \in [L!Callers -> 0 .. head]
  /\ loop \in [L!Callers -> LoopState]
  /\ answered \in [L!Positions -> Nat] /\ unsaved \in [L!Positions -> Nat] /\ twins \in Nat
  /\ \A s \in L!Callers :
       /\ loop[s] # "off" => running
       /\ loop[s] \in {"opening", "idle"} \cup L!At => started
       /\ loop[s] \in L!At => 1 <= cursor[s] /\ cursor[s] <= upTo[s]

\* What is behind a loop's cursor was dealt with, and what is at it from its save on.
CursorInv ==
  \A s \in L!Callers :
    /\ loop[s] = "opening" => cursor[s] = 0
    /\ loop[s] \in {"idle", "save"} => \A p \in 1 .. cursor[s] : Dealt(p)
    /\ loop[s] \in {"capture", "reply"} => \A p \in 1 .. cursor[s] - 1 : Dealt(p)
    /\ loop[s] = "reply" => cursor[s] \in captured \cup passed

\* A loop may answer the message yet; and how many may.
MayAnswer(s, p) ==
  \/ loop[s] = "opening"
  \/ loop[s] \in {"idle", "save"} /\ cursor[s] < p
  \/ loop[s] \in {"capture", "reply"} /\ cursor[s] <= p
Answers(s, p) == IF MayAnswer(s, p) THEN 1 ELSE 0
AllAnswers(p) == Answers("startup", p) + Answers("rescan", p)

\* The file does not tell of the message; and a loop is about to write that it is done.
Untold(p) == saved = L!Lost \/ saved < p
Saving(p) == \E s \in L!Callers : loop[s] = "save" /\ cursor[s] = p

\* The answers so far and those to come have their reasons; those of a message the
\* file does not tell of, and that no loop is about to save, have one each.
AnswerInv ==
  \A p \in L!Positions :
    /\ answered[p] + AllAnswers(p) <= 1 + unsaved[p] + twins
    /\ Untold(p) /\ ~Saving(p) => answered[p] <= unsaved[p] + twins

CollectorInv == CursorTyped /\ CursorInv /\ AnswerInv /\ L!NothingSlipsBehindTheCursor

\* The file's part of the invariant, in the words of the loops' part.
LEMMA FileInv ==
  ASSUME CursorTyped
  PROVE  L!NothingSlipsBehindTheCursor <=> (saved # L!Lost => \A p \in 1 .. saved : Dealt(p))
BY DEF L!NothingSlipsBehindTheCursor, Dealt

\* The invariant, where the chat's life begins.
LEMMA CollectorInit == L!Init => CollectorInv
<1> SUFFICES ASSUME L!Init PROVE CollectorInv
  OBVIOUS
<1> USE DEF L!Init, L!Positions, L!Callers
<1>1. LastMessage \in Nat
  BY Pages DEF L!CollectorAssumption
<1>2. CursorTyped
  BY <1>1 DEF CursorTyped, LoopState, L!Lost, L!At
<1>3. CursorInv
  BY DEF CursorInv, L!At
<1>4. AnswerInv
  BY <1>1 DEF AnswerInv, AllAnswers, Answers, MayAnswer
<1>5. L!NothingSlipsBehindTheCursor
  BY DEF L!NothingSlipsBehindTheCursor
<1> QED
  BY <1>2, <1>3, <1>4, <1>5 DEF CollectorInv

-----------------------------------------------------------------------------
\* The other loop stays where it is.
OnlyMoves(s) == \A t \in L!Callers \ {s} : loop'[t] = loop[t] /\ cursor'[t] = cursor[t]

\* Then the answers to come change by those of the loop that moves.
LEMMA OneLoopAnswers ==
  ASSUME NEW s \in L!Callers, OnlyMoves(s), NEW p
  PROVE  /\ {AllAnswers(p), AllAnswers(p)'} \subseteq 0 .. 2
         /\ AllAnswers(p)' + Answers(s, p) = AllAnswers(p) + Answers(s, p)'
<1>1. \A t \in L!Callers : Answers(t, p) \in {0, 1} /\ Answers(t, p)' \in {0, 1}
  BY DEF Answers
<1>2. \A t \in L!Callers \ {s} : Answers(t, p)' = Answers(t, p)
  BY DEF OnlyMoves, Answers, MayAnswer
<1> QED
  BY <1>1, <1>2 DEF AllAnswers, L!Callers

\* What a step has to do about the answers to one message.
Reasoned(p) ==
  /\ answered'[p] + AllAnswers(p)' <= answered[p] + AllAnswers(p)
  /\ unsaved'[p] >= unsaved[p]
  /\ Untold(p)' /\ ~Saving(p)'
       => unsaved'[p] > unsaved[p] \/ (Untold(p) /\ ~Saving(p) /\ answered'[p] = answered[p])

\* A step that does so keeps the answers' part of the invariant.
LEMMA AnswersHold ==
  ASSUME CursorTyped, CursorTyped', AnswerInv, twins' = twins, \A p \in L!Positions : Reasoned(p)
  PROVE  AnswerInv'
<1> SUFFICES ASSUME NEW p \in L!Positions
             PROVE  /\ answered'[p] + AllAnswers(p)' <= 1 + unsaved'[p] + twins
                    /\ Untold(p)' /\ ~Saving(p)' => answered'[p] <= unsaved'[p] + twins
  BY DEF AnswerInv, L!Positions
<1>1. /\ answered[p] \in Nat /\ unsaved[p] \in Nat /\ twins \in Nat
      /\ answered'[p] \in Nat /\ unsaved'[p] \in Nat
  BY DEF CursorTyped, L!Positions
<1>2. AllAnswers(p) \in 0 .. 2 /\ AllAnswers(p)' \in 0 .. 2
  BY DEF AllAnswers, Answers
<1>3. /\ answered[p] + AllAnswers(p) <= 1 + unsaved[p] + twins
      /\ Untold(p) /\ ~Saving(p) => answered[p] <= unsaved[p] + twins
  BY DEF AnswerInv
<1>4. /\ answered'[p] + AllAnswers(p)' <= answered[p] + AllAnswers(p)
      /\ unsaved'[p] >= unsaved[p]
  BY DEF Reasoned
<1>5. ASSUME Untold(p)', ~Saving(p)' PROVE answered'[p] <= unsaved'[p] + twins
  <2>1. CASE unsaved'[p] > unsaved[p]
    BY <2>1, <1>1, <1>2, <1>3, <1>4
  <2>2. CASE Untold(p) /\ ~Saving(p) /\ answered'[p] = answered[p]
    BY <2>2, <1>1, <1>3, <1>4
  <2> QED
    BY <2>1, <2>2, <1>5 DEF Reasoned
<1> QED
  BY <1>1, <1>2, <1>3, <1>4, <1>5

\* A loop may answer no more than before when it rests or gets further.
LEMMA FewerAnswers ==
  ASSUME NEW s \in L!Callers, OnlyMoves(s), NEW p \in L!Positions, MayAnswer(s, p)' => MayAnswer(s, p)
  PROVE  AllAnswers(p)' <= AllAnswers(p)
<1>1. Answers(s, p)' <= Answers(s, p) /\ Answers(s, p) \in {0, 1} /\ Answers(s, p)' \in {0, 1}
  BY DEF Answers
<1> QED
  BY <1>1, OneLoopAnswers

\* What was dealt with stays so.
LEMMA DealtStays ==
  ASSUME CursorTyped, answered' \in [L!Positions -> Nat],
         captured \subseteq captured', passed \subseteq passed', dropped \subseteq dropped',
         thrown \subseteq thrown', \A p \in L!Positions : answered'[p] >= answered[p],
         NEW p \in L!Positions, Dealt(p)
  PROVE  Dealt(p)'
<1>1. answered[p] \in Nat /\ answered'[p] \in Nat /\ answered'[p] >= answered[p]
  BY DEF CursorTyped
<1> QED
  BY <1>1 DEF Dealt

\* A torn write adds a reason for those it was to tell of, or for all when the file goes.
LEMMA TearDoes ==
  ASSUME CursorTyped, NEW S, L!Tear(S)
  PROVE  /\ saved' \in 0 .. head \cup {L!Lost} /\ unsaved' \in [L!Positions -> Nat]
         /\ saved' = saved \/ saved' = L!Lost
         /\ \A p \in L!Positions :
              /\ unsaved'[p] >= unsaved[p]
              /\ p \in S \/ saved' # saved => unsaved'[p] > unsaved[p]
<1>1. \A p \in L!Positions : unsaved[p] \in Nat
  BY DEF CursorTyped
<1>2. PICK R : /\ unsaved' = [p \in L!Positions |-> IF p \in R THEN unsaved[p] + 1 ELSE unsaved[p]]
               /\ (saved' = saved /\ R = S) \/ (saved' = L!Lost /\ R = L!Positions)
  BY DEF L!Tear, L!Forgets
<1>3. unsaved' \in [L!Positions -> Nat]
  BY <1>1, <1>2
<1>4. ASSUME NEW p \in L!Positions
      PROVE  /\ unsaved'[p] >= unsaved[p]
             /\ p \in S \/ saved' # saved => unsaved'[p] > unsaved[p]
  BY <1>1, <1>2
<1> QED
  BY <1>2, <1>3, <1>4 DEF CursorTyped

\* A write tells of what is behind it, and adds a reason for what it puts back.
LEMMA WriteDoes ==
  ASSUME CursorTyped, NEW v \in 0 .. head, L!Write(v)
  PROVE  /\ saved' = v /\ saved' # L!Lost /\ unsaved' \in [L!Positions -> Nat]
         /\ \A p \in L!Positions :
              /\ unsaved'[p] >= unsaved[p]
              /\ v < p /\ ~Untold(p) => unsaved'[p] > unsaved[p]
<1>0. LastMessage \in Nat
  BY Pages DEF L!CollectorAssumption
<1>1. \A p \in L!Positions : unsaved[p] \in Nat
  BY DEF CursorTyped
<1> DEFINE R == IF saved = L!Lost THEN {} ELSE v + 1 .. saved
<1>2. saved' = v /\ unsaved' = [p \in L!Positions |-> IF p \in R THEN unsaved[p] + 1 ELSE unsaved[p]]
  BY DEF L!Write, L!Forgets
<1>3. ASSUME NEW p \in L!Positions, v < p, ~Untold(p) PROVE p \in R
  BY <1>3, <1>0 DEF Untold, CursorTyped, L!Positions
<1>4. v # L!Lost
  BY <1>0 DEF CursorTyped, L!Lost
<1> HIDE DEF R
<1>5. unsaved' \in [L!Positions -> Nat]
  BY <1>1, <1>2
<1>6. ASSUME NEW p \in L!Positions
      PROVE  /\ unsaved'[p] >= unsaved[p]
             /\ v < p /\ ~Untold(p) => unsaved'[p] > unsaved[p]
  BY <1>1, <1>2, <1>3, <1>6
<1> QED
  BY <1>2, <1>4, <1>5, <1>6

-----------------------------------------------------------------------------
\* Where a call of startNew() has no loop.
Waits == {"off", "listed", "asking", "clearing"}

\* A step in which loops end, or calls wait, keeps the invariant.
LEMMA CollectorRests ==
  ASSUME CollectorInv,
         UNCHANGED <<saved, unsaved, captured, passed, answered, dropped, thrown, twins>>,
         head' \in 0 .. LastMessage, head <= head',
         cursor' \in [L!Callers -> 0 .. head'], upTo' \in [L!Callers -> 0 .. head'],
         loop' \in [L!Callers -> LoopState],
         \A s \in L!Callers :
           \/ loop'[s] = loop[s] /\ cursor'[s] = cursor[s] /\ upTo'[s] = upTo[s]
           \/ loop'[s] \in Waits /\ loop[s] # "save",
         \A s \in L!Callers : loop'[s] # "off" => running',
         \A s \in L!Callers : loop'[s] \in {"opening", "idle"} \cup L!At => started'
  PROVE  CollectorInv'
<1> USE DEF CollectorInv
<1>1. CursorTyped'
  <2>1. saved' \in 0 .. head' \cup {L!Lost}
    BY DEF CursorTyped
  <2> QED
    BY <2>1 DEF CursorTyped, Waits, L!At
<1>2. CursorInv'
  BY DEF CursorInv, Waits, Dealt
<1>3. AnswerInv'
  <2>1. ASSUME NEW s \in L!Callers, NEW p \in L!Positions PROVE Answers(s, p)' <= Answers(s, p)
    BY DEF Answers, MayAnswer, Waits
  <2>2. ASSUME NEW p \in L!Positions PROVE Reasoned(p)
    <3>1. AllAnswers(p)' <= AllAnswers(p)
      BY <2>1 DEF AllAnswers, Answers, L!Callers
    <3>2. Saving(p) <=> Saving(p)'
      BY DEF Saving, Waits
    <3>3. answered[p] \in Nat /\ unsaved[p] \in Nat /\ AllAnswers(p) \in 0 .. 2 /\ AllAnswers(p)' \in 0 .. 2
      BY DEF CursorTyped, AllAnswers, Answers
    <3> QED
      BY <3>1, <3>2, <3>3 DEF Reasoned, Untold
  <2> QED
    BY <1>1, <2>2, AnswersHold
<1>4. L!NothingSlipsBehindTheCursor'
  BY DEF L!NothingSlipsBehindTheCursor
<1> QED
  BY <1>1, <1>2, <1>3, <1>4

\* Feishu, a start or a rescan that begins, and the syncs move no loop.
LEMMA CollectorOutside ==
  ASSUME CollectorInv, L!Post \/ L!Bar \/ L!ReAdd \/ L!Dissolve \/ L!SyncMarks \/ L!Boot \/ L!Rescan
                       \/ UNCHANGED L!collectorVars
  PROVE  CollectorInv'
<1>0. LastMessage \in Nat
  BY Pages DEF L!CollectorAssumption
<1>1. /\ UNCHANGED <<started, saved, unsaved, captured, passed, answered, dropped, thrown, twins, cursor, upTo>>
      /\ head' = head \/ (head' = head + 1 /\ head < LastMessage)
      /\ running => running'
  BY DEF L!Post, L!Bar, L!ReAdd, L!Dissolve, L!SyncMarks, L!Boot, L!Rescan, L!collectorVars,
         L!feishu, L!life, L!polling, L!file, L!done
<1>2. head' \in 0 .. LastMessage /\ head <= head' /\ 0 .. head \subseteq 0 .. head'
  BY <1>0, <1>1 DEF CollectorInv, CursorTyped
<1>3. \/ loop' = loop
      \/ \E t \in L!Callers : loop[t] = "off" /\ loop' = [loop EXCEPT ![t] = "listed"] /\ running'
  <2>1. CASE L!Boot
    <3>1. loop["startup"] = "off"
      BY <2>1 DEF L!Boot, L!Callers, CollectorInv, CursorTyped
    <3>2. running' /\ (loop' = loop \/ loop' = [loop EXCEPT !["startup"] = "listed"])
      BY <2>1 DEF L!Boot, L!Goto
    <3> QED
      BY <3>1, <3>2 DEF L!Callers
  <2>2. CASE L!Rescan
    BY <2>2 DEF L!Rescan, L!Goto, L!life, L!Callers
  <2>3. CASE ~L!Boot /\ ~L!Rescan
    BY <2>3 DEF L!Post, L!Bar, L!ReAdd, L!Dissolve, L!SyncMarks, L!collectorVars
  <2> QED
    BY <2>1, <2>2, <2>3
<1>4. /\ loop' \in [L!Callers -> LoopState]
      /\ \A s \in L!Callers : loop'[s] = loop[s] \/ (loop[s] = "off" /\ loop'[s] = "listed" /\ running')
  BY <1>3 DEF CollectorInv, CursorTyped, LoopState, L!Starting
<1>5. /\ cursor' \in [L!Callers -> 0 .. head'] /\ upTo' \in [L!Callers -> 0 .. head']
  BY <1>1, <1>2 DEF CollectorInv, CursorTyped
<1>6. /\ \A s \in L!Callers : loop'[s] # "off" => running'
      /\ \A s \in L!Callers : loop'[s] \in {"opening", "idle"} \cup L!At => started'
      /\ \A s \in L!Callers : \/ loop'[s] = loop[s] /\ cursor'[s] = cursor[s] /\ upTo'[s] = upTo[s]
                              \/ loop'[s] \in Waits /\ loop[s] # "save"
  BY <1>1, <1>4 DEF CollectorInv, CursorTyped, Waits, L!At
<1> QED
  BY <1>1, <1>2, <1>4, <1>5, <1>6, CollectorRests

\* Calls of startNew() that start no loop, loops that end, and polls that fail.
LEMMA CollectorWaits ==
  ASSUME CollectorInv, NEW s \in L!Callers,
         UNCHANGED <<head, running, saved, unsaved, captured, passed, answered, dropped, thrown, twins>>,
         started => started', loop[s] \notin {"off", "save"},
         \/ UNCHANGED <<loop, cursor, upTo>>
         \/ /\ \E at \in Waits : loop' = [loop EXCEPT ![s] = at]
            /\ cursor' = cursor \/ cursor' = [cursor EXCEPT ![s] = 0]
            /\ upTo' = upTo
  PROVE  CollectorInv'
<1>1. loop' \in [L!Callers -> LoopState]
  BY DEF CollectorInv, CursorTyped, Waits, LoopState, L!Starting
<1>2. cursor' \in [L!Callers -> 0 .. head'] /\ upTo' \in [L!Callers -> 0 .. head'] /\ head \in 0 .. LastMessage
  BY DEF CollectorInv, CursorTyped
<1>3. \A t \in L!Callers : \/ loop'[t] = loop[t] /\ cursor'[t] = cursor[t] /\ upTo'[t] = upTo[t]
                           \/ t = s /\ loop'[t] \in Waits /\ loop[t] # "save"
  BY DEF CollectorInv, CursorTyped
<1>4. /\ \A t \in L!Callers : loop'[t] # "off" => running'
      /\ \A t \in L!Callers : loop'[t] \in {"opening", "idle"} \cup L!At => started'
  BY <1>3 DEF CollectorInv, CursorTyped, Waits, L!At
<1> QED
  BY <1>1, <1>2, <1>3, <1>4, CollectorRests DEF CollectorInv, CursorTyped

\* The process dies, and may tear the file of what its loops were about to save.
LEMMA CollectorCrashes ==
  ASSUME CollectorInv, L!Crash
  PROVE  CollectorInv'
<1> USE DEF CollectorInv
<1> DEFINE Unsaved == {cursor[s] : s \in {c \in L!Callers : loop[c] = "save"}}
<1>1. /\ loop' = [s \in L!Callers |-> "off"] /\ cursor' = [s \in L!Callers |-> 0] /\ upTo' = [s \in L!Callers |-> 0]
      /\ UNCHANGED <<head, captured, passed, answered, dropped, thrown, twins>>
  BY DEF L!Crash, L!feishu, L!done
<1>2. /\ saved' \in 0 .. head \cup {L!Lost} /\ unsaved' \in [L!Positions -> Nat]
      /\ saved' = saved \/ saved' = L!Lost
      /\ \A p \in L!Positions : unsaved'[p] >= unsaved[p] /\ (Saving(p) \/ saved' # saved => unsaved'[p] > unsaved[p])
  <2>1. CASE L!Tear(Unsaved)
    <3>1. \A p \in L!Positions : Saving(p) => p \in Unsaved
      BY DEF Saving
    <3> HIDE DEF Unsaved
    <3> QED
      BY <2>1, <3>1, TearDoes
  <2>2. CASE UNCHANGED L!file /\ \A s \in L!Callers : loop[s] # "save"
    BY <2>2 DEF L!file, Saving, CursorTyped
  <2> QED
    BY <2>1, <2>2 DEF L!Crash
<1>3. CursorTyped'
  BY <1>1, <1>2 DEF CursorTyped, LoopState, L!At
<1>4. CursorInv'
  BY <1>1 DEF CursorInv
<1>5. AnswerInv'
  <2>1. ASSUME NEW p \in L!Positions PROVE Reasoned(p)
    <3>1. AllAnswers(p)' = 0 /\ AllAnswers(p) \in 0 .. 2 /\ answered[p] \in Nat
      BY <1>1 DEF AllAnswers, Answers, MayAnswer, L!Callers, CursorTyped
    <3> QED
      BY <3>1, <1>1, <1>2 DEF Reasoned, Untold
  <2> QED
    BY <1>1, <1>3, <2>1, AnswersHold
<1>6. L!NothingSlipsBehindTheCursor'
  BY <1>1, <1>2 DEF L!NothingSlipsBehindTheCursor
<1> QED
  BY <1>3, <1>4, <1>5, <1>6

\* A loop starts at the file's cursor: the first of a chat, or a second one.
LEMMA CollectorLaunches ==
  ASSUME CollectorInv, NEW s \in L!Callers, L!Launch(s), loop[s] \in {"asking", "clearing"},
         UNCHANGED <<head, running, upTo, saved, unsaved, captured, passed, answered, dropped, thrown>>
  PROVE  CollectorInv'
<1> USE DEF CollectorInv
<1>0. LastMessage \in Nat
  BY Pages DEF L!CollectorAssumption
<1>1. /\ started'
      /\ twins' = IF started THEN twins + 1 ELSE twins
      /\ loop' = [loop EXCEPT ![s] = IF saved = L!Lost THEN "opening" ELSE "idle"]
      /\ cursor' = [cursor EXCEPT ![s] = IF saved = L!Lost THEN 0 ELSE saved]
  BY DEF L!Launch, L!Goto
<1>2. CursorTyped'
  <2>1. (IF saved = L!Lost THEN 0 ELSE saved) \in 0 .. head
    BY <1>0 DEF CursorTyped
  <2>2. (IF saved = L!Lost THEN "opening" ELSE "idle") \in LoopState \ L!At
    BY DEF LoopState, L!Starting, L!At
  <2> QED
    BY <1>1, <2>1, <2>2 DEF CursorTyped
<1>3. CursorInv'
  <2>1. saved # L!Lost => \A p \in 1 .. saved : Dealt(p)
    BY DEF L!NothingSlipsBehindTheCursor, Dealt
  <2>2. ASSUME NEW t \in L!Callers \ {s} PROVE loop'[t] = loop[t] /\ cursor'[t] = cursor[t]
    BY <1>1 DEF CursorTyped
  <2>3. \/ loop'[s] = "opening" /\ cursor'[s] = 0
        \/ loop'[s] = "idle" /\ cursor'[s] = saved /\ saved # L!Lost
    BY <1>1 DEF CursorTyped
  <2>4. \A p : Dealt(p)' <=> Dealt(p)
    BY DEF Dealt
  <2> QED
    BY <2>1, <2>2, <2>3, <2>4 DEF CursorInv
<1>4. AnswerInv'
  <2> SUFFICES ASSUME NEW p \in L!Positions
               PROVE  /\ answered[p] + AllAnswers(p)' <= 1 + unsaved[p] + twins'
                      /\ Untold(p)' /\ ~Saving(p)' => answered[p] <= unsaved[p] + twins'
    BY DEF AnswerInv, L!Positions
  <2>1. answered[p] \in Nat /\ unsaved[p] \in Nat /\ twins \in Nat
    BY DEF CursorTyped
  <2>2. OnlyMoves(s) /\ ~MayAnswer(s, p) /\ loop'[s] \in {"opening", "idle"}
    BY <1>1 DEF OnlyMoves, MayAnswer, CursorTyped
  <2>3. AllAnswers(p)' = AllAnswers(p) + Answers(s, p)' /\ AllAnswers(p) \in 0 .. 2 /\ Answers(s, p)' \in {0, 1}
    BY <2>2, OneLoopAnswers DEF Answers
  <2>4. /\ answered[p] + AllAnswers(p) <= 1 + unsaved[p] + twins
        /\ Untold(p) /\ ~Saving(p) => answered[p] <= unsaved[p] + twins
    BY DEF AnswerInv
  <2>5. (Untold(p)' <=> Untold(p)) /\ (Saving(p)' <=> Saving(p))
    BY <1>1, <2>2 DEF Untold, Saving, OnlyMoves
  <2>6. CASE started
    BY <1>1, <2>1, <2>3, <2>4, <2>5, <2>6
  <2>7. CASE ~started
    <3>1. ~Saving(p) /\ AllAnswers(p) = 0
      BY <2>7 DEF Saving, AllAnswers, Answers, MayAnswer, CursorTyped, L!Callers, L!At
    <3>2. Answers(s, p)' = 1 => Untold(p)
      BY <1>1 DEF Answers, MayAnswer, Untold, CursorTyped, L!Positions
    <3> QED
      BY <1>1, <2>1, <2>3, <2>4, <2>5, <2>7, <3>1, <3>2
  <2> QED
    BY <2>6, <2>7
<1>5. L!NothingSlipsBehindTheCursor'
  BY DEF L!NothingSlipsBehindTheCursor
<1> QED
  BY <1>2, <1>3, <1>4, <1>5

-----------------------------------------------------------------------------
\* A running loop's step: what the cases below have in common.
LoopSteps(s) ==
  /\ loop' \in [L!Callers -> LoopState] /\ OnlyMoves(s)
  /\ \A t \in L!Callers \ {s} : upTo'[t] = upTo[t]
  /\ cursor' \in [L!Callers -> 0 .. head] /\ upTo' \in [L!Callers -> 0 .. head]
  /\ loop'[s] \in {"idle"} \cup L!At
  /\ loop'[s] \in L!At => 1 <= cursor'[s] /\ cursor'[s] <= upTo'[s]
  /\ saved' \in 0 .. head \cup {L!Lost}
  /\ answered' \in [L!Positions -> Nat] /\ unsaved' \in [L!Positions -> Nat]
  /\ captured \subseteq captured' /\ passed \subseteq passed'
  /\ dropped \subseteq dropped' /\ thrown \subseteq thrown'
  /\ \A p \in L!Positions : answered'[p] >= answered[p]

\* It keeps the invariant when what it has left behind was dealt with, and each
\* answer has its reason.
LEMMA CollectorWorks ==
  ASSUME CollectorInv, NEW s \in L!Callers, LoopSteps(s), UNCHANGED <<head, running, started, twins>>,
         loop[s] \in {"opening", "idle"} \cup L!At,
         \A p \in L!Positions : Reasoned(p),
         loop'[s] \in {"idle", "save"} => \A p \in 1 .. cursor'[s] : Dealt(p)',
         loop'[s] \in {"capture", "reply"} => \A p \in 1 .. cursor'[s] - 1 : Dealt(p)',
         loop'[s] = "reply" => cursor'[s] \in captured' \cup passed',
         saved' \in {saved, L!Lost} \/ \A p \in 1 .. saved' : Dealt(p)'
  PROVE  CollectorInv'
<1> USE DEF CollectorInv
<1>0. LastMessage \in Nat
  BY Pages DEF L!CollectorAssumption
<1>1. CursorTyped'
  BY DEF CursorTyped, LoopSteps, OnlyMoves, L!At
<1>2. \A p \in L!Positions : Dealt(p) => Dealt(p)'
  BY DealtStays DEF LoopSteps
<1>3. \A n \in 0 .. head : 1 .. n \subseteq L!Positions
  BY <1>0 DEF CursorTyped, L!Positions
<1>4. CursorInv'
  <2>1. ASSUME NEW t \in L!Callers \ {s}
        PROVE  /\ loop'[t] = "opening" => cursor'[t] = 0
               /\ loop'[t] \in {"idle", "save"} => \A p \in 1 .. cursor'[t] : Dealt(p)'
               /\ loop'[t] \in {"capture", "reply"} => \A p \in 1 .. cursor'[t] - 1 : Dealt(p)'
               /\ loop'[t] = "reply" => cursor'[t] \in captured' \cup passed'
    <3>1. loop'[t] = loop[t] /\ cursor'[t] = cursor[t] /\ cursor[t] \in 0 .. head
      BY DEF LoopSteps, OnlyMoves, CursorTyped
    <3>2. 1 .. cursor[t] \subseteq L!Positions /\ 1 .. cursor[t] - 1 \subseteq 1 .. cursor[t]
      BY <1>0, <1>3, <3>1 DEF CursorTyped
    <3>3. /\ loop[t] = "opening" => cursor[t] = 0
          /\ loop[t] \in {"idle", "save"} => \A p \in 1 .. cursor[t] : Dealt(p)
          /\ loop[t] \in {"capture", "reply"} => \A p \in 1 .. cursor[t] - 1 : Dealt(p)
          /\ loop[t] = "reply" => cursor[t] \in captured \cup passed
      BY DEF CursorInv
    <3> QED
      BY <1>2, <3>1, <3>2, <3>3 DEF LoopSteps
  <2> QED
    BY <2>1 DEF CursorInv, LoopSteps, L!At
<1>5. AnswerInv'
  BY <1>1, AnswersHold
<1>6. L!NothingSlipsBehindTheCursor'
  <2>1. saved # L!Lost => saved \in 0 .. head /\ \A p \in 1 .. saved : Dealt(p)
    BY FileInv DEF CursorTyped
  <2>2. saved' # L!Lost => \A p \in 1 .. saved' : Dealt(p)'
    BY <1>2, <1>3, <2>1
  <2> QED
    BY <2>2 DEF L!NothingSlipsBehindTheCursor, Dealt
<1> QED
  BY <1>1, <1>4, <1>5, <1>6

-----------------------------------------------------------------------------
\* What is known of the constants and of a loop, and of the messages it has passed.
LEMMA LoopFacts ==
  ASSUME CollectorInv, NEW s \in L!Callers
  PROVE  /\ LastMessage \in Nat /\ PageSize \in Nat \ {0} /\ L!Positions = 1 .. LastMessage
         /\ head \in 0 .. LastMessage /\ cursor[s] \in 0 .. head /\ upTo[s] \in 0 .. head
         /\ \A p \in L!Positions : answered[p] \in Nat /\ unsaved[p] \in Nat
         /\ loop[s] \in L!At => cursor[s] \in L!Positions /\ cursor[s] <= upTo[s]
BY Pages DEF L!CollectorAssumption, L!Positions, CollectorInv, CursorTyped

\* pollOnce() takes up the page.
LEMMA CollectorPolls ==
  ASSUME CollectorInv, NEW s \in L!Callers, L!Poll(s)
  PROVE  CollectorInv'
<1> DEFINE skipped == IF head > cursor[s] + PageSize THEN head - PageSize ELSE cursor[s]
<1>0. /\ LastMessage \in Nat /\ PageSize \in Nat \ {0} /\ L!Positions = 1 .. LastMessage
      /\ head \in 0 .. LastMessage /\ cursor[s] \in 0 .. head /\ upTo[s] \in 0 .. head
      /\ \A p \in L!Positions : answered[p] \in Nat /\ unsaved[p] \in Nat
  BY LoopFacts
<1>1. /\ loop[s] = "idle" /\ cursor[s] < head
      /\ loop' = [loop EXCEPT ![s] = "capture"]
      /\ cursor' = [cursor EXCEPT ![s] = skipped + 1]
      /\ upTo' = [upTo EXCEPT ![s] = head]
      /\ passed' = passed \cup cursor[s] + 1 .. skipped
      /\ UNCHANGED <<head, running, started, twins, saved, unsaved, captured, answered, dropped, thrown>>
  BY DEF L!Poll, L!Start, L!Goto, L!feishu, L!life, L!file
<1>2. skipped \in 0 .. head /\ cursor[s] <= skipped /\ skipped < head
  BY <1>0, <1>1
<1> HIDE DEF skipped
<1>3. /\ loop' \in [L!Callers -> LoopState] /\ loop'[s] = "capture" /\ cursor'[s] = skipped + 1 /\ upTo'[s] = head
      /\ cursor' \in [L!Callers -> 0 .. head] /\ upTo' \in [L!Callers -> 0 .. head]
      /\ OnlyMoves(s) /\ \A t \in L!Callers \ {s} : upTo'[t] = upTo[t]
  BY <1>0, <1>1, <1>2 DEF CollectorInv, CursorTyped, LoopState, L!At, OnlyMoves
<1>4. LoopSteps(s)
  BY <1>0, <1>1, <1>2, <1>3 DEF LoopSteps, CollectorInv, CursorTyped, L!At
<1>5. ASSUME NEW p \in 1 .. cursor'[s] - 1 PROVE Dealt(p)'
  <2>1. p \in L!Positions
    BY <1>0, <1>2, <1>3
  <2>2. CASE p <= cursor[s]
    <3>1. Dealt(p)
      BY <1>0, <1>1, <2>2 DEF CollectorInv, CursorInv
    <3> QED
      BY <1>4, <2>1, <3>1, DealtStays DEF CollectorInv, LoopSteps
  <2>3. CASE p > cursor[s]
    BY <1>0, <1>1, <1>2, <1>3, <2>3 DEF Dealt
  <2> QED
    BY <1>0, <2>1, <2>2, <2>3
<1>6. ASSUME NEW p \in L!Positions PROVE Reasoned(p)
  <2>1. AllAnswers(p)' <= AllAnswers(p)
    BY <1>0, <1>1, <1>2, <1>3, FewerAnswers DEF MayAnswer
  <2>2. Saving(p) => Saving(p)'
    BY <1>1, <1>3 DEF Saving, OnlyMoves
  <2>3. AllAnswers(p) \in 0 .. 2 /\ AllAnswers(p)' \in 0 .. 2
    BY DEF AllAnswers, Answers
  <2> QED
    BY <1>0, <1>1, <2>1, <2>2, <2>3 DEF Reasoned, Untold
<1> QED
  BY <1>1, <1>3, <1>4, <1>5, <1>6, CollectorWorks DEF L!At

\* startChatLoop() reads the newest message, or not, and its loop begins.
LEMMA CollectorOpens ==
  ASSUME CollectorInv, NEW s \in L!Callers, L!Open(s), loop'[s] = "idle"
  PROVE  CollectorInv'
<1>0. /\ LastMessage \in Nat /\ L!Positions = 1 .. LastMessage
      /\ head \in 0 .. LastMessage /\ cursor[s] \in 0 .. head /\ upTo[s] \in 0 .. head
      /\ \A p \in L!Positions : answered[p] \in Nat /\ unsaved[p] \in Nat
  BY LoopFacts
<1>1. /\ loop[s] = "opening" /\ loop' = [loop EXCEPT ![s] = "idle"] /\ upTo' = upTo
      /\ UNCHANGED <<head, running, started, twins, captured, answered, dropped, thrown>>
      /\ \/ /\ cursor' = [cursor EXCEPT ![s] = head] /\ passed' = passed \cup 1 .. head
            /\ L!Write(head) \/ L!Tear({})
         \/ UNCHANGED <<cursor, passed, saved, unsaved>>
  BY DEF L!Open, L!Goto, L!feishu, L!life, L!file, CollectorInv, CursorTyped
<1>2. /\ loop' \in [L!Callers -> LoopState] /\ loop'[s] = "idle"
      /\ cursor' \in [L!Callers -> 0 .. head] /\ upTo' \in [L!Callers -> 0 .. head]
      /\ OnlyMoves(s)
      /\ (cursor'[s] = 0 /\ cursor' = cursor) \/ (cursor'[s] = head /\ passed' = passed \cup 1 .. head)
  BY <1>0, <1>1 DEF CollectorInv, CursorTyped, CursorInv, LoopState, OnlyMoves
<1>3. /\ saved' \in 0 .. head \cup {L!Lost} /\ unsaved' \in [L!Positions -> Nat]
      /\ \A p \in L!Positions : unsaved'[p] >= unsaved[p]
      /\ \A p \in L!Positions : Untold(p)' => Untold(p) \/ unsaved'[p] > unsaved[p]
      /\ saved' \in {saved, L!Lost} \/ (saved' = head /\ passed' = passed \cup 1 .. head)
  <2>1. CASE passed' = passed \cup 1 .. head /\ L!Write(head)
    <3>1. head \in 0 .. head
      BY <1>0
    <3>2. /\ saved' = head /\ saved' # L!Lost /\ unsaved' \in [L!Positions -> Nat]
          /\ \A p \in L!Positions : unsaved'[p] >= unsaved[p] /\ (head < p /\ ~Untold(p) => unsaved'[p] > unsaved[p])
      BY <2>1, <3>1, WriteDoes DEF CollectorInv
    <3>3. \A p \in L!Positions : Untold(p)' => head < p
      BY <3>2 DEF Untold
    <3> QED
      BY <2>1, <3>1, <3>2, <3>3
  <2>2. CASE L!Tear({})
    BY <2>2, <1>0, TearDoes DEF CollectorInv, Untold
  <2>3. CASE UNCHANGED <<cursor, passed, saved, unsaved>>
    BY <2>3, <1>0 DEF CollectorInv, CursorTyped, Untold
  <2> QED
    BY <1>1, <2>1, <2>2, <2>3
<1>4. LoopSteps(s)
  <2>1. /\ captured \subseteq captured' /\ passed \subseteq passed'
        /\ dropped \subseteq dropped' /\ thrown \subseteq thrown'
    BY <1>1
  <2>2. answered' \in [L!Positions -> Nat] /\ \A p \in L!Positions : answered'[p] >= answered[p]
    BY <1>0, <1>1 DEF CollectorInv, CursorTyped
  <2>3. loop'[s] \in {"idle"} \cup L!At /\ loop'[s] \notin L!At
    BY <1>2 DEF L!At
  <2> QED
    BY <1>1, <1>2, <1>3, <2>1, <2>2, <2>3 DEF LoopSteps
<1>5. ASSUME passed' = passed \cup 1 .. head PROVE \A p \in 1 .. head : Dealt(p)'
  BY <1>5 DEF Dealt
<1>6. ASSUME NEW p \in L!Positions PROVE Reasoned(p)
  <2>1. AllAnswers(p)' <= AllAnswers(p)
    BY <1>1, <1>2, FewerAnswers DEF MayAnswer
  <2>2. Saving(p) => Saving(p)'
    BY <1>1, <1>2 DEF Saving, OnlyMoves
  <2>3. AllAnswers(p) \in 0 .. 2 /\ AllAnswers(p)' \in 0 .. 2
    BY DEF AllAnswers, Answers
  <2> QED
    BY <1>0, <1>1, <1>3, <2>1, <2>2, <2>3 DEF Reasoned
<1>7. \A p \in 1 .. cursor'[s] : Dealt(p)'
  BY <1>0, <1>2, <1>5
<1>8. saved' \in {saved, L!Lost} \/ \A p \in 1 .. saved' : Dealt(p)'
  BY <1>3, <1>5
<1> QED
  BY <1>1, <1>2, <1>4, <1>6, <1>7, <1>8, CollectorWorks

\* One message: it is captured, answered or not, and written down as done, or
\* something throws.
LEMMA CollectorHandles ==
  ASSUME CollectorInv, NEW s \in L!Callers, L!Capture(s) \/ L!Handle(s) \/ L!HandleThrows(s)
  PROVE  CollectorInv'
<1> DEFINE at == cursor[s]
<1>0. /\ LastMessage \in Nat /\ L!Positions = 1 .. LastMessage
      /\ head \in 0 .. LastMessage /\ at \in 0 .. head /\ upTo[s] \in 0 .. head
      /\ \A p \in L!Positions : answered[p] \in Nat /\ unsaved[p] \in Nat
      /\ loop[s] \in L!At => at \in L!Positions /\ at <= upTo[s]
  BY LoopFacts
<1>1. UNCHANGED <<head, running, started, twins, saved, unsaved, cursor>>
  BY DEF L!Capture, L!Handle, L!HandleThrows, L!Abort, L!feishu, L!life, L!polling, L!file
<1>2. PICK to \in {"reply", "save", "idle"} :
        /\ loop' = [loop EXCEPT ![s] = to]
        /\ upTo' = IF to = "idle" THEN [upTo EXCEPT ![s] = 0] ELSE upTo
        /\ loop[s] \in {"capture", "reply"}
        /\ \/ /\ loop[s] = "capture" /\ to # "idle" /\ UNCHANGED <<answered, thrown>>
              /\ at \in captured' \cup passed'
              /\ captured \subseteq captured' /\ passed \subseteq passed' /\ dropped \subseteq dropped'
              /\ to = "save" /\ at \in Mentions => at \in dropped'
           \/ /\ loop[s] = "reply" /\ to = "save" /\ UNCHANGED <<captured, passed, thrown>>
              /\ \/ answered' = [answered EXCEPT ![at] = @ + 1] /\ dropped' = dropped
                 \/ answered' = answered /\ dropped' = dropped \cup {at}
           \/ /\ loop[s] = "reply" /\ to = "idle" /\ UNCHANGED <<captured, passed, answered, dropped>>
              /\ thrown' = thrown \cup {at}
  <2>1. CASE L!Capture(s)
    BY <2>1 DEF L!Capture, L!Goto, L!polling
  <2>2. CASE L!Handle(s)
    BY <2>2 DEF L!Handle, L!Goto, L!polling
  <2>3. CASE L!HandleThrows(s)
    BY <2>3 DEF L!HandleThrows, L!Abort, L!Goto
  <2> QED
    BY <2>1, <2>2, <2>3
<1>3. /\ loop' \in [L!Callers -> LoopState] /\ loop'[s] = to /\ OnlyMoves(s)
      /\ upTo' \in [L!Callers -> 0 .. head] /\ \A t \in L!Callers \ {s} : upTo'[t] = upTo[t]
      /\ to # "idle" => upTo'[s] = upTo[s]
  BY <1>0, <1>1, <1>2 DEF CollectorInv, CursorTyped, LoopState, L!At, OnlyMoves
<1>4. /\ answered' \in [L!Positions -> Nat]
      /\ \A p \in L!Positions : answered'[p] >= answered[p] /\ (p # at => answered'[p] = answered[p])
      /\ answered'[at] = answered[at] \/ (answered'[at] = answered[at] + 1 /\ loop[s] = "reply" /\ to = "save")
  <2>1. at \in L!Positions
    BY <1>0, <1>2 DEF L!At
  <2>2. answered' = answered \/ (answered' = [answered EXCEPT ![at] = @ + 1] /\ loop[s] = "reply" /\ to = "save")
    BY <1>2
  <2>3. answered \in [L!Positions -> Nat]
    BY DEF CollectorInv, CursorTyped
  <2>4. \A p \in L!Positions : answered[p] \in Nat
    BY <2>3
  <2> HIDE DEF at
  <2>5. CASE answered' = answered
    BY <2>1, <2>3, <2>4, <2>5
  <2>6. CASE answered' = [answered EXCEPT ![at] = @ + 1] /\ loop[s] = "reply" /\ to = "save"
    BY <2>1, <2>3, <2>4, <2>6
  <2> QED
    BY <2>2, <2>5, <2>6
<1>5. LoopSteps(s)
  BY <1>0, <1>1, <1>2, <1>3, <1>4 DEF LoopSteps, CollectorInv, CursorTyped, L!At
<1>6. ASSUME NEW p \in 1 .. at - 1 PROVE Dealt(p)'
  <2>1. p \in L!Positions /\ Dealt(p)
    BY <1>0, <1>2 DEF CollectorInv, CursorInv
  <2> QED
    BY <1>5, <2>1, DealtStays DEF CollectorInv, LoopSteps
<1>7. /\ at \in captured' \cup passed'
      /\ to # "reply" => \A p \in {at} : Dealt(p)'
  <2>1. at \in L!Positions /\ (loop[s] = "reply" => at \in captured \cup passed)
    BY <1>0, <1>2 DEF CollectorInv, CursorInv, L!At
  <2>2. at \in captured' \cup passed'
    BY <1>2, <2>1
  <2>3. to # "reply" /\ at \in Mentions => answered'[at] > 0 \/ at \in dropped' \cup thrown' \cup passed'
    BY <1>0, <1>2, <1>4 DEF CollectorInv, CursorTyped, L!At
  <2> QED
    BY <2>2, <2>3, <1>1 DEF Dealt
<1>8. ASSUME NEW p \in L!Positions PROVE Reasoned(p)
  <2>1. MayAnswer(s, p)' => MayAnswer(s, p)
    BY <1>0, <1>1, <1>2, <1>3 DEF MayAnswer
  <2>2. AllAnswers(p)' <= AllAnswers(p) /\ AllAnswers(p) \in 0 .. 2 /\ AllAnswers(p)' \in 0 .. 2
    BY <1>3, <2>1, FewerAnswers, OneLoopAnswers
  <2>3. Saving(p) => Saving(p)'
    BY <1>1, <1>2, <1>3 DEF Saving, OnlyMoves
  <2>4. CASE answered'[p] = answered[p]
    BY <1>0, <1>1, <2>2, <2>3, <2>4 DEF Reasoned, Untold
  <2>5. CASE p = at /\ answered'[p] = answered[p] + 1 /\ loop[s] = "reply" /\ to = "save"
    <3>1. Answers(s, p) = 1 /\ Answers(s, p)' = 0
      BY <1>0, <1>1, <1>3, <2>5 DEF Answers, MayAnswer
    <3>2. AllAnswers(p)' = AllAnswers(p) - 1
      BY <1>3, <3>1, <2>2, OneLoopAnswers
    <3>3. Saving(p)'
      BY <1>1, <1>3, <2>5 DEF Saving
    <3> QED
      BY <1>0, <1>1, <2>2, <2>5, <3>2, <3>3 DEF Reasoned
  <2> QED
    BY <1>4, <2>4, <2>5
<1>9. ASSUME to # "reply", NEW p \in 1 .. at PROVE Dealt(p)'
  <2>1. p \in 1 .. at - 1 \/ p \in {at}
    BY <1>0
  <2> QED
    BY <1>9, <2>1, <1>6, <1>7
<1> QED
  BY <1>1, <1>2, <1>3, <1>5, <1>6, <1>7, <1>8, <1>9, CollectorWorks DEF L!At

\* saveCursor(), and the next message of the page; or it throws, and the next poll.
LEMMA CollectorSaves ==
  ASSUME CollectorInv, NEW s \in L!Callers, L!Save(s) \/ L!SaveThrows(s)
  PROVE  CollectorInv'
<1> DEFINE at == cursor[s]
<1>0. /\ LastMessage \in Nat /\ L!Positions = 1 .. LastMessage
      /\ head \in 0 .. LastMessage /\ at \in 0 .. head /\ upTo[s] \in 0 .. head
      /\ \A p \in L!Positions : answered[p] \in Nat /\ unsaved[p] \in Nat
      /\ loop[s] \in L!At => at \in L!Positions /\ at <= upTo[s]
  BY LoopFacts
<1>1. /\ loop[s] = "save"
      /\ UNCHANGED <<head, running, started, twins, captured, passed, answered, dropped, thrown>>
  BY DEF L!Save, L!SaveThrows, L!Abort, L!feishu, L!life, L!done
<1>2. /\ \/ loop' = [loop EXCEPT ![s] = "idle"] /\ upTo' = [upTo EXCEPT ![s] = 0] /\ cursor' = cursor
         \/ /\ loop' = [loop EXCEPT ![s] = "capture"] /\ upTo' = upTo
            /\ cursor' = [cursor EXCEPT ![s] = @ + 1] /\ at # upTo[s]
      /\ L!Write(at) \/ L!Tear({at})
  BY DEF L!Save, L!NextMessage, L!SaveThrows, L!Abort, L!Goto
<1>3. /\ saved' \in 0 .. head \cup {L!Lost} /\ unsaved' \in [L!Positions -> Nat]
      /\ saved' \in {saved, L!Lost} \/ saved' = at
      /\ \A p \in L!Positions :
           /\ unsaved'[p] >= unsaved[p]
           /\ Untold(p)' => unsaved'[p] > unsaved[p] \/ (Untold(p) /\ p # at)
  <2>1. CASE L!Write(at)
    BY <2>1, <1>0, WriteDoes DEF CollectorInv, Untold
  <2>2. CASE L!Tear({at})
    BY <2>2, <1>0, TearDoes DEF CollectorInv, Untold
  <2> QED
    BY <1>2, <2>1, <2>2
<1>4. /\ loop' \in [L!Callers -> LoopState] /\ OnlyMoves(s)
      /\ cursor' \in [L!Callers -> 0 .. head] /\ upTo' \in [L!Callers -> 0 .. head]
      /\ \A t \in L!Callers \ {s} : upTo'[t] = upTo[t]
      /\ \/ loop'[s] = "idle" /\ cursor'[s] = at
         \/ loop'[s] = "capture" /\ cursor'[s] = at + 1 /\ upTo'[s] = upTo[s] /\ at < upTo[s]
  <2>1. /\ loop \in [L!Callers -> LoopState] /\ {"idle", "capture"} \subseteq LoopState
        /\ cursor \in [L!Callers -> 0 .. head] /\ upTo \in [L!Callers -> 0 .. head]
    BY DEF CollectorInv, CursorTyped, LoopState, L!At
  <2>2. at \in Nat /\ upTo[s] \in Nat /\ at <= upTo[s] /\ head \in Nat /\ upTo[s] <= head
    BY <1>0, <1>1 DEF L!At
  <2>3. CASE loop' = [loop EXCEPT ![s] = "idle"] /\ upTo' = [upTo EXCEPT ![s] = 0] /\ cursor' = cursor
    BY <2>1, <2>2, <2>3 DEF OnlyMoves
  <2>4. CASE loop' = [loop EXCEPT ![s] = "capture"] /\ upTo' = upTo
             /\ cursor' = [cursor EXCEPT ![s] = @ + 1] /\ at # upTo[s]
    <3>1. at + 1 \in 0 .. head /\ at < upTo[s]
      BY <2>2, <2>4
    <3> QED
      BY <2>1, <2>4, <3>1 DEF OnlyMoves
  <2> QED
    BY <1>2, <2>3, <2>4
<1>5. LoopSteps(s)
  <2>1. /\ captured \subseteq captured' /\ passed \subseteq passed'
        /\ dropped \subseteq dropped' /\ thrown \subseteq thrown'
        /\ answered' \in [L!Positions -> Nat] /\ \A p \in L!Positions : answered'[p] >= answered[p]
    BY <1>0, <1>1 DEF CollectorInv, CursorTyped
  <2>2. /\ loop'[s] \in {"idle"} \cup L!At
        /\ loop'[s] \in L!At => 1 <= cursor'[s] /\ cursor'[s] <= upTo'[s]
    BY <1>0, <1>4 DEF L!At
  <2> QED
    BY <1>3, <1>4, <2>1, <2>2 DEF LoopSteps
<1>6. \A p \in 1 .. at : Dealt(p)'
  BY <1>1 DEF CollectorInv, CursorInv, Dealt
<1>7. ASSUME NEW p \in L!Positions PROVE Reasoned(p)
  <2>1. MayAnswer(s, p)' => MayAnswer(s, p)
    BY <1>0, <1>1, <1>4 DEF MayAnswer
  <2>2. AllAnswers(p)' <= AllAnswers(p) /\ AllAnswers(p) \in 0 .. 2 /\ AllAnswers(p)' \in 0 .. 2
    BY <1>4, <2>1, FewerAnswers, OneLoopAnswers
  <2>3. Saving(p) /\ p # at => Saving(p)'
    BY <1>1, <1>4 DEF Saving, OnlyMoves
  <2> QED
    BY <1>0, <1>1, <1>3, <2>2, <2>3 DEF Reasoned
<1>8. /\ loop'[s] \in {"idle", "save"} => \A p \in 1 .. cursor'[s] : Dealt(p)'
      /\ loop'[s] \in {"capture", "reply"} => \A p \in 1 .. cursor'[s] - 1 : Dealt(p)'
      /\ loop'[s] # "reply"
  <2>1. CASE loop'[s] = "idle" /\ cursor'[s] = at
    BY <2>1, <1>6
  <2>2. CASE loop'[s] = "capture" /\ cursor'[s] = at + 1
    <3>1. cursor'[s] - 1 = at
      BY <2>2, <1>0
    <3> QED
      BY <2>2, <3>1, <1>6
  <2> QED
    BY <1>4, <2>1, <2>2
<1>9. saved' \in {saved, L!Lost} \/ \A p \in 1 .. saved' : Dealt(p)'
  BY <1>3, <1>6
<1> QED
  BY <1>1, <1>5, <1>7, <1>8, <1>9, CollectorWorks DEF L!At

-----------------------------------------------------------------------------
\* Every step of the collector.
LEMMA CollectorStep == CollectorInv /\ [L!Next]_L!collectorVars => CollectorInv'
<1> SUFFICES ASSUME CollectorInv, [L!Next]_L!collectorVars PROVE CollectorInv'
  OBVIOUS
<1>1. ASSUME NEW s \in L!Callers, L!Work(s) PROVE CollectorInv'
  <2>1. CASE L!Poll(s)
    BY <2>1, CollectorPolls
  <2>2. CASE L!Capture(s) \/ L!Handle(s) \/ L!HandleThrows(s)
    BY <2>2, CollectorHandles
  <2>3. CASE L!Save(s) \/ L!SaveThrows(s)
    BY <2>3, CollectorSaves
  <2>4. CASE L!Open(s) /\ loop'[s] = "idle"
    BY <2>4, CollectorOpens
  <2>5. CASE L!Launch(s) /\ (L!Told(s) \/ L!Clear(s))
    <3>1. /\ UNCHANGED <<head, running, upTo, saved, unsaved, captured, passed, answered, dropped, thrown>>
          /\ loop[s] \in {"asking", "clearing"}
      BY <2>5 DEF L!Told, L!Clear, L!feishu, L!file, L!done
    <3> QED
      BY <2>5, <3>1, CollectorLaunches
  <2>6. CASE L!Ask(s) \/ (L!Told(s) /\ ~L!Launch(s)) \/ (L!Open(s) /\ loop'[s] # "idle")
             \/ L!PollFails(s) \/ L!PollGone(s) \/ L!PollBarred(s)
    <3>1. /\ UNCHANGED <<head, running, saved, unsaved, captured, passed, answered, dropped, thrown, twins>>
          /\ started => started'
          /\ loop[s] \notin {"off", "save"}
          /\ \/ UNCHANGED <<loop, cursor, upTo>>
             \/ /\ \E at \in Waits : loop' = [loop EXCEPT ![s] = at]
                /\ cursor' = cursor \/ cursor' = [cursor EXCEPT ![s] = 0]
                /\ upTo' = upTo
      <4>1. CASE L!Ask(s)
        BY <4>1 DEF L!Ask, L!Goto, L!feishu, L!life, L!polling, L!file, L!done, Waits
      <4>2. CASE L!Told(s) /\ ~L!Launch(s)
        BY <4>2 DEF L!Told, L!Goto, L!feishu, L!file, L!done, Waits
      <4>3. CASE L!Open(s) /\ loop'[s] # "idle"
        BY <4>3 DEF L!Open, L!Goto, L!feishu, L!life, L!file, Waits, CollectorInv, CursorTyped
      <4>4. CASE L!PollFails(s)
        BY <4>4 DEF L!PollFails, L!feishu, L!life, L!file, L!done
      <4>5. CASE L!PollGone(s) \/ L!PollBarred(s)
        BY <4>5 DEF L!PollGone, L!PollBarred, L!Ends, L!Goto, L!feishu, L!life, L!file, L!done, Waits
      <4> QED
        BY <2>6, <4>1, <4>2, <4>3, <4>4, <4>5
    <3> QED
      BY <3>1, CollectorWaits
  <2> QED
    BY <1>1, <2>1, <2>2, <2>3, <2>4, <2>5, <2>6 DEF L!Work, L!Clear
<1>2. CASE L!Crash
  BY <1>2, CollectorCrashes
<1>3. CASE L!Post \/ L!Bar \/ L!ReAdd \/ L!Dissolve \/ L!SyncMarks \/ L!Boot \/ L!Rescan \/ UNCHANGED L!collectorVars
  BY <1>3, CollectorOutside
<1> QED
  BY <1>1, <1>2, <1>3 DEF L!Next

\* The cursor (feishu-user.ts, pollOnce and startNew; state.ts): behind the one that is
\* saved everything was dealt with, and a mention has no more answers than one, one for
\* each time the file did not keep that it was done, and one for each second loop, for
\* any page size and number of messages, failures and starts.
THEOREM TheCursorIsTrue == L!Spec => []NothingIsMissedNorAnsweredTwice
<1>1. CollectorInv => NothingIsMissedNorAnsweredTwice
  <2> SUFFICES ASSUME CollectorInv, NEW p \in L!Positions PROVE answered[p] <= 1 + unsaved[p] + twins
    BY DEF CollectorInv, NothingIsMissedNorAnsweredTwice, L!AnsweredOnce
  <2>1. answered[p] + AllAnswers(p) <= 1 + unsaved[p] + twins /\ AllAnswers(p) \in 0 .. 2
    BY DEF CollectorInv, AnswerInv, AllAnswers, Answers
  <2> QED
    BY <2>1 DEF CollectorInv, CursorTyped
<1> QED
  BY <1>1, CollectorInit, CollectorStep, PTL DEF L!Spec

-----------------------------------------------------------------------------
(***************************************************************************)
(* Visitors: every newcomer is welcomed once, a milestone announced once.  *)
(***************************************************************************)

\* The types of what the two processes and Feishu keep.
VisitorsTyped ==
  /\ group \subseteq People /\ leavers \subseteq People
  /\ pass \in [Rounds -> [at : {"idle", "count", "read", "write"} \cup V!After,
                          roster : SUBSET People, based : BOOLEAN,
                          joined : SUBSET People, gone : SUBSET People]]
  /\ digest \in [at : {"idle", "look", "send", "clear"}, listed : SUBSET People,
                 shown : SUBSET People]
  /\ announced \in [V!Milestones -> Nat] /\ underWay \in [V!Milestones -> Nat]
  /\ welcomed \in [People -> Nat]

\* A roster names people who were in the group; what a pass found and has not
\* written is new to the table, what it has written is in it.
RostersInv ==
  /\ visitorsKnown \subseteq group \cup leavers /\ present \subseteq visitorsKnown
  /\ \A r \in Rounds :
       /\ pass[r].joined \subseteq pass[r].roster /\ pass[r].roster \subseteq group \cup leavers
       /\ pass[r].gone \subseteq visitorsKnown /\ pass[r].gone \cap pass[r].roster = {}
       /\ pass[r].at \in {"idle", "count", "read"} => pass[r].joined = {} /\ pass[r].gone = {}
       /\ pass[r].at = "write" => pass[r].roster \ pass[r].joined \subseteq visitorsKnown
       /\ pass[r].at \in V!After => pass[r].joined \subseteq visitorsKnown

\* Who is known and not marked present has left, or a stale roster says so.
AbsentInv == visitorsKnown \subseteq present \cup leavers \cup visitorMishaps

\* Only newcomers wait to be welcomed; whom the digest leaves out has left or is
\* the victim of a failure.
WaitingInv ==
  /\ queue \cup digest.listed \subseteq newcomers /\ newcomers \subseteq visitorsKnown
  /\ digest.shown \subseteq digest.listed
  /\ \A r \in Rounds : V!InHand(r) \subseteq newcomers
  /\ digest.at = "send" => digest.listed \subseteq digest.shown \cup leavers \cup visitorMishaps
  /\ digest.at = "clear" =>
       \A p \in digest.listed : welcomed[p] > 0 \/ p \in leavers \cup visitorMishaps

\* Every newcomer is accounted for.
MetInv ==
  \A p \in newcomers :
    \/ welcomed[p] > 0 \/ p \in queue \cup leavers \cup visitorMishaps
    \/ \E r \in Rounds : p \in V!InHand(r)

\* One pass finds a newcomer, unless two read the same rows.
FoundOnceInv ==
  \A r \in Rounds :
    /\ \A s \in Rounds : r # s => pass[r].joined \cap pass[s].joined \subseteq repeats
    /\ pass[r].at = "write" => pass[r].joined \cap visitorsKnown \subseteq repeats
    /\ pass[r].joined \cap (queue \cup digest.listed) \subseteq repeats

\* Who was welcomed waits nowhere, but in a queue that is about to be cleared.
WelcomedInv ==
  \A p \in People \ repeats :
    welcomed[p] > 0 =>
      /\ welcomed[p] = 1 /\ p \in visitorsKnown
      /\ \A r \in Rounds : p \notin pass[r].joined
      /\ p \in queue => digest.at = "clear" /\ p \in digest.shown
      /\ p \in digest.listed => digest.at = "clear"

\* Who was in the group all along is no news to a pass with a baseline, unless a roster
\* read in part left them out.
BaselineInv ==
  /\ Founders \subseteq group /\ newcomers \cap Founders \subseteq overlooked
  /\ visitorsKnown # {} => Founders \subseteq visitorsKnown \cup overlooked
  /\ \A r \in Rounds :
       /\ pass[r].based => visitorsKnown # {}
       /\ pass[r].at \in {"count", "read", "write"} => Founders \subseteq pass[r].roster \cup overlooked
       /\ pass[r].at = "write" /\ (pass[r].based \/ pass[r].joined # pass[r].roster) =>
            pass[r].joined \cap Founders \subseteq overlooked

\* A pass on its way from the gate to the announcement has its milestone to itself, and
\* the announcement is in one place at a time.
Near(r) == pass[r].at \in {"record", "fire"}
Untouched(r, m) ==
  announced[m] = 0 /\ underWay[m] = 0 /\ (m \in ledger <=> pass[r].at = "fire")
MilestonesInv ==
  /\ \A r \in Rounds : Near(r) =>
       /\ V!Reached(r) \in V!Milestones
       /\ V!Reached(r) \in doubled \/ Untouched(r, V!Reached(r))
  /\ \A r \in Rounds, s \in Rounds :
       Near(r) /\ Near(s) /\ r # s /\ V!Reached(r) = V!Reached(s) => V!Reached(r) \in doubled
  /\ \A m \in V!Milestones \ doubled :
       \/ announced[m] = 0 /\ underWay[m] = 0
       \/ announced[m] + underWay[m] = 1 /\ m \in ledger
  /\ \A m \in V!Milestones :
       m \in ledger => \/ announced[m] > 0 \/ underWay[m] > 0 \/ m \in unsent
                      \/ \E r \in Rounds : pass[r].at = "fire" /\ V!Reached(r) = m

VisitorsInv ==
  /\ VisitorsTyped /\ RostersInv /\ AbsentInv /\ WaitingInv /\ MetInv /\ FoundOnceInv
  /\ WelcomedInv /\ BaselineInv /\ MilestonesInv

\* The invariant, in the empty group's tables.
LEMMA VisitorsInit == V!Init => VisitorsInv
<1> SUFFICES ASSUME V!Init PROVE VisitorsInv
  OBVIOUS
<1> USE Visits DEF V!Init, V!Resting, V!NoDigest, V!VisitorsAssumption, V!After
<1>1. VisitorsTyped
  BY DEF VisitorsTyped
<1>2. RostersInv /\ AbsentInv
  BY DEF RostersInv, AbsentInv
<1>3. WaitingInv /\ MetInv
  BY DEF WaitingInv, MetInv, V!InHand
<1>4. FoundOnceInv /\ WelcomedInv
  BY DEF FoundOnceInv, WelcomedInv
<1>5. BaselineInv
  BY DEF BaselineInv
<1>6. MilestonesInv
  BY DEF MilestonesInv, Near
<1> QED
  BY <1>1, <1>2, <1>3, <1>4, <1>5, <1>6 DEF VisitorsInv

\* Feishu moves on its own.
LEMMA PeopleStep ==
  ASSUME VisitorsInv, NEW p \in People, V!Join(p) \/ V!Leave(p) PROVE VisitorsInv'
<1>1. /\ group' \subseteq People /\ leavers' \subseteq People
      /\ group \cup leavers \subseteq group' \cup leavers' /\ leavers \subseteq leavers'
      /\ Founders \subseteq group'
      /\ UNCHANGED <<visitorsKnown, present, overlooked, pass, firstDone, ledger, underWay, announced,
                     doubled, unsent, queue, digest, newcomers, welcomed, visitorMishaps, repeats>>
  BY DEF V!Join, V!Leave, V!directory, V!milestones, V!greeting, VisitorsInv, VisitorsTyped, BaselineInv
<1>2. VisitorsTyped'
  BY <1>1 DEF VisitorsInv, VisitorsTyped
<1>3. RostersInv' /\ AbsentInv'
  BY <1>1 DEF VisitorsInv, RostersInv, AbsentInv
<1>4. WaitingInv' /\ MetInv'
  BY <1>1 DEF VisitorsInv, WaitingInv, MetInv, V!InHand
<1>5. FoundOnceInv' /\ WelcomedInv' /\ BaselineInv'
  BY <1>1 DEF VisitorsInv, FoundOnceInv, WelcomedInv, BaselineInv
<1>6. MilestonesInv'
  BY <1>1 DEF VisitorsInv, MilestonesInv, Near, Untouched, V!Reached
<1> QED
  BY <1>2, <1>3, <1>4, <1>5, <1>6 DEF VisitorsInv

\* The group is stood down, and listed again.
LEMMA InactiveStep ==
  ASSUME VisitorsInv, V!MarkInactive \/ V!Reopen PROVE VisitorsInv'
<1>1. /\ UNCHANGED <<group, leavers, visitorsKnown, overlooked, pass, firstDone, ledger, underWay,
                     announced, doubled, unsent, queue, digest, newcomers, welcomed, repeats>>
      /\ \/ present' = present /\ visitorMishaps' = visitorMishaps
         \/ present' = {} /\ visitorMishaps' = visitorMishaps \cup (present \cap group)
  BY DEF V!MarkInactive, V!Reopen, V!people, V!milestones, V!greeting
<1>2. VisitorsTyped'
  BY <1>1 DEF VisitorsInv, VisitorsTyped
<1>3. RostersInv' /\ AbsentInv'
  BY <1>1 DEF VisitorsInv, RostersInv, AbsentInv
<1>4. WaitingInv' /\ MetInv'
  BY <1>1 DEF VisitorsInv, WaitingInv, MetInv, V!InHand
<1>5. FoundOnceInv' /\ WelcomedInv' /\ BaselineInv'
  BY <1>1 DEF VisitorsInv, FoundOnceInv, WelcomedInv, BaselineInv
<1>6. MilestonesInv'
  BY <1>1 DEF VisitorsInv, MilestonesInv, Near, Untouched, V!Reached
<1> QED
  BY <1>2, <1>3, <1>4, <1>5, <1>6 DEF VisitorsInv

\* The fields of a pass.
LEMMA PassFields ==
  ASSUME VisitorsTyped, NEW r \in Rounds
  PROVE  /\ pass[r].at \in {"idle", "count", "read", "write", "check", "record", "fire", "enqueue"}
         /\ pass[r].roster \subseteq People /\ pass[r].joined \subseteq People
         /\ pass[r].gone \subseteq People /\ pass[r].based \in BOOLEAN
BY DEF VisitorsTyped, V!After

\* The milestones of the passes that a step leaves on their way stay theirs, and those
\* whose announcement it cuts off are accounted for.
LEMMA MilestonesKept ==
  ASSUME MilestonesInv, VisitorsTyped, underWay' \in [V!Milestones -> Nat],
         UNCHANGED <<ledger, announced, doubled>>, unsent \subseteq unsent',
         \A m \in V!Milestones : underWay'[m] = underWay[m] \/ (underWay'[m] < underWay[m] /\ m \in unsent'),
         \A s \in Rounds : Near(s)' => /\ Near(s) /\ pass'[s].at = pass[s].at
                                       /\ V!Reached(s)' = V!Reached(s),
         \A s \in Rounds :
           pass[s].at = "fire" => \/ V!Reached(s) \in unsent'
                                  \/ pass'[s].at = "fire" /\ V!Reached(s)' = V!Reached(s)
  PROVE  MilestonesInv'
<1>0. \A m \in V!Milestones : /\ announced[m] \in Nat /\ underWay[m] \in Nat /\ underWay'[m] \in Nat
  BY DEF VisitorsTyped, V!Milestones
<1>1. \A s \in Rounds : Near(s)' =>
        /\ V!Reached(s)' \in V!Milestones
        /\ V!Reached(s)' \in doubled' \/ Untouched(s, V!Reached(s))'
  BY <1>0 DEF MilestonesInv, Untouched
<1>2. \A s \in Rounds, q \in Rounds :
        Near(s)' /\ Near(q)' /\ s # q /\ V!Reached(s)' = V!Reached(q)' => V!Reached(s)' \in doubled'
  BY DEF MilestonesInv
<1>3. \A m \in V!Milestones \ doubled' :
        \/ announced'[m] = 0 /\ underWay'[m] = 0
        \/ announced'[m] + underWay'[m] = 1 /\ m \in ledger'
  BY <1>0 DEF MilestonesInv
<1>4. \A m \in V!Milestones :
        m \in ledger' => \/ announced'[m] > 0 \/ underWay'[m] > 0 \/ m \in unsent'
                        \/ \E s \in Rounds : pass'[s].at = "fire" /\ V!Reached(s)' = m
  BY <1>0 DEF MilestonesInv
<1> QED
  BY <1>1, <1>2, <1>3, <1>4 DEF MilestonesInv, V!Milestones

\* A pass that moves on keeps the types.
LEMMA PassTyped ==
  ASSUME VisitorsTyped, NEW r \in Rounds, NEW nextPass,
         pass' = [pass EXCEPT ![r] = nextPass],
         nextPass \in [at : {"idle", "count", "read", "write"} \cup V!After,
                   roster : SUBSET People, based : BOOLEAN,
                   joined : SUBSET People, gone : SUBSET People]
  PROVE  pass' \in [Rounds -> [at : {"idle", "count", "read", "write"} \cup V!After,
                               roster : SUBSET People, based : BOOLEAN,
                               joined : SUBSET People, gone : SUBSET People]]
BY DEF VisitorsTyped

\* The first half of a pass: the roster, the baseline, the comparison, the rows.
LEMMA SyncStep ==
  ASSUME VisitorsInv, NEW r \in Rounds, V!Fetch(r) \/ V!Count(r) \/ V!Read(r) \/ V!Write(r)
  PROVE  VisitorsInv'
<1> USE DEF V!After
<1>0. VisitorsTyped /\ \A s \in Rounds : pass[s].gone \subseteq People /\ pass[s].based \in BOOLEAN
  BY PassFields DEF VisitorsInv
<1>1. /\ UNCHANGED <<group, leavers, ledger, underWay, announced, doubled, unsent, queue, digest, welcomed>>
      /\ \A s \in Rounds \ {r} : pass'[s] = pass[s]
      /\ pass'[r].at \in {"count", "read", "write", "check"}
      /\ pass[r].at \in {"idle", "count", "read", "write"}
  BY <1>0 DEF V!Fetch, V!Count, V!Read, V!Write, V!To, V!people, V!directory, V!milestones,
     V!greeting,
    VisitorsTyped
<1>2. MilestonesInv'
  <2>1. \A s \in Rounds : Near(s) \/ Near(s)' => pass'[s] = pass[s] /\ V!Reached(s)' = V!Reached(s)
    BY <1>1 DEF Near, V!Reached
  <2> QED
    BY <2>1, <1>0, <1>1, MilestonesKept DEF VisitorsInv, VisitorsTyped, Near
<1>3. CASE V!Fetch(r) \/ V!Count(r)
  <2>1. /\ UNCHANGED <<visitorsKnown, present, newcomers, visitorMishaps, repeats>>
        /\ pass'[r].joined = pass[r].joined /\ pass'[r].gone = pass[r].gone
        /\ pass'[r].at \in {"count", "read"} /\ pass[r].at \in {"idle", "count"}
    BY <1>3, <1>0 DEF V!Fetch, V!Count, V!directory, V!greeting, VisitorsTyped
  <2>1a. pass[r].joined = {} /\ pass'[r].joined = {} /\ pass'[r].gone = {}
    BY <2>1 DEF VisitorsInv, RostersInv
  <2>1b. /\ pass'[r].based \in {pass[r].based, present # {}}
         /\ overlooked \subseteq overlooked' /\ overlooked' \subseteq overlooked \cup group
         /\ \/ pass'[r].roster = pass[r].roster /\ pass[r].at = "count"
            \/ pass'[r].roster \subseteq group /\ group \subseteq pass'[r].roster \cup overlooked'
    BY <1>3, <1>0 DEF V!Fetch, V!Count, V!directory, VisitorsTyped
  <2>2. VisitorsTyped'
    <3>1. pass' \in [Rounds -> [at : {"idle", "count", "read", "write"} \cup V!After,
                          roster : SUBSET People, based : BOOLEAN,
                          joined : SUBSET People, gone : SUBSET People]]
      <4>0. pass[r] \in [at : {"idle", "count", "read", "write"} \cup V!After, roster : SUBSET People,
                       based : BOOLEAN, joined : SUBSET People, gone : SUBSET People]
        BY <1>0 DEF VisitorsTyped
      <4>1. CASE V!Fetch(r)
        <5>0. PICK roster \in SUBSET group \ {{}} :
                pass' = [pass EXCEPT ![r].at = "count", ![r].roster = roster]
          BY <4>1 DEF V!Fetch
        <5>1. pass' = [pass EXCEPT ![r] = [pass[r] EXCEPT !.at = "count", !.roster = roster]]
          BY <5>0, <1>0 DEF VisitorsTyped
        <5>2. [pass[r] EXCEPT !.at = "count", !.roster = roster]
                \in [at : {"idle", "count", "read", "write"} \cup V!After, roster : SUBSET People,
                       based : BOOLEAN, joined : SUBSET People, gone : SUBSET People]
          BY <4>0, <5>1, <1>0 DEF VisitorsTyped
        <5> QED
          BY <5>1, <5>2, <1>0, PassTyped
      <4>2. CASE V!Count(r)
        <5>1. pass' = [pass EXCEPT ![r] = [pass[r] EXCEPT !.at = "read", !.based = present # {}]]
          BY <4>2 DEF V!Count
        <5>2. [pass[r] EXCEPT !.at = "read", !.based = present # {}]
                \in [at : {"idle", "count", "read", "write"} \cup V!After, roster : SUBSET People,
                       based : BOOLEAN, joined : SUBSET People, gone : SUBSET People]
          BY <4>0
        <5> QED
          BY <5>1, <5>2, <1>0, PassTyped
      <4> QED
        BY <4>1, <4>2, <1>3
    <3> QED
      BY <3>1, <1>1, <1>0 DEF VisitorsTyped
  <2>3. RostersInv' /\ AbsentInv'
    BY <1>1, <2>1, <2>1a, <2>1b DEF VisitorsInv, RostersInv, AbsentInv
  <2>4. \A s \in Rounds : V!InHand(s)' = V!InHand(s)
    BY <1>1, <2>1, <2>1a DEF V!InHand
  <2>5. WaitingInv' /\ MetInv'
    BY <1>1, <2>1, <2>4 DEF VisitorsInv, WaitingInv, MetInv
  <2>6. FoundOnceInv' /\ WelcomedInv'
    BY <1>1, <2>1, <2>1a DEF VisitorsInv, FoundOnceInv, WelcomedInv
  <2>7. BaselineInv'
    <3>1. pass'[r].based => visitorsKnown # {}
      BY <2>1b DEF VisitorsInv, BaselineInv, RostersInv
    <3>2. Founders \subseteq pass'[r].roster \cup overlooked'
      BY <2>1b DEF VisitorsInv, BaselineInv
    <3> QED
      BY <3>1, <3>2, <1>1, <2>1, <2>1b DEF VisitorsInv, BaselineInv
  <2> QED
    BY <2>2, <2>3, <2>5, <2>6, <2>7, <1>2 DEF VisitorsInv
<1>4. CASE V!Read(r)
  <2>1. /\ UNCHANGED <<visitorsKnown, present, overlooked, newcomers, visitorMishaps>>
        /\ pass'[r].based = pass[r].based
        /\ pass[r].at = "read" /\ pass'[r].at = "write" /\ pass'[r].roster = pass[r].roster
        /\ pass'[r].joined = pass[r].roster \ visitorsKnown
        /\ pass'[r].gone = present \ pass[r].roster
        /\ repeats' = repeats \cup UNION {(pass[r].roster \ visitorsKnown) \cap pass[s].joined : s \in Rounds \ {r}}
    BY <1>4, <1>0 DEF V!Read, V!directory, VisitorsTyped
  <2>2. VisitorsTyped'
    <3>1. pass' \in [Rounds -> [at : {"idle", "count", "read", "write"} \cup V!After,
                          roster : SUBSET People, based : BOOLEAN,
                          joined : SUBSET People, gone : SUBSET People]]
      <4>1. pass[r].roster \ visitorsKnown \in SUBSET People /\ present \ pass[r].roster \in SUBSET People
        BY <1>0 DEF VisitorsInv, VisitorsTyped, RostersInv
      <4>2. pass[r] \in [at : {"idle", "count", "read", "write"} \cup V!After, roster : SUBSET People,
                       based : BOOLEAN, joined : SUBSET People, gone : SUBSET People]
        BY <1>0 DEF VisitorsTyped
      <4>3. pass' = [pass EXCEPT ![r] = [pass[r] EXCEPT !.at = "write",
                                                        !.joined = pass[r].roster \ visitorsKnown,
                                                        !.gone = present \ pass[r].roster]]
        BY <1>4 DEF V!Read
      <4>4. [pass[r] EXCEPT !.at = "write", !.joined = pass[r].roster \ visitorsKnown,
                            !.gone = present \ pass[r].roster]
              \in [at : {"idle", "count", "read", "write"} \cup V!After, roster : SUBSET People,
                       based : BOOLEAN, joined : SUBSET People, gone : SUBSET People]
        BY <4>1, <4>2
      <4> QED
        BY <4>3, <4>4, <1>0, PassTyped
    <3> QED
      BY <3>1, <1>1, <1>0 DEF VisitorsTyped
  <2>3. RostersInv' /\ AbsentInv'
    BY <1>1, <2>1 DEF VisitorsInv, RostersInv, AbsentInv
  <2>4. \A s \in Rounds : V!InHand(s)' = V!InHand(s)
    BY <1>1, <2>1 DEF V!InHand
  <2>5. WaitingInv' /\ MetInv'
    BY <1>1, <2>1, <2>4 DEF VisitorsInv, WaitingInv, MetInv
  <2>6. repeats \subseteq repeats' /\ \A s \in Rounds \ {r} : pass'[r].joined \cap pass[s].joined \subseteq repeats'
    BY <2>1
  <2>7. pass'[r].joined \cap visitorsKnown = {} /\ pass'[r].joined \cap (queue \cup digest.listed) = {}
    BY <2>1 DEF VisitorsInv, WaitingInv
  <2>8. FoundOnceInv'
    BY <1>1, <2>1, <2>6, <2>7 DEF VisitorsInv, FoundOnceInv
  <2>9. WelcomedInv'
    BY <1>1, <2>1, <2>6, <2>7 DEF VisitorsInv, WelcomedInv
  <2>10. BaselineInv'
    <3>1. visitorsKnown # {} => pass'[r].joined \cap Founders \subseteq overlooked
      BY <2>1 DEF VisitorsInv, BaselineInv
    <3>2. pass'[r].based \/ pass'[r].joined # pass'[r].roster => visitorsKnown # {}
      BY <2>1 DEF VisitorsInv, BaselineInv
    <3> QED
      BY <3>1, <3>2, <1>1, <2>1 DEF VisitorsInv, BaselineInv
  <2> QED
    BY <2>2, <2>3, <2>5, <2>8, <2>9, <2>10, <1>2 DEF VisitorsInv
<1>5. CASE V!Write(r)
  <2>1. /\ pass[r].at = "write" /\ pass'[r].at = "check" /\ pass'[r].roster = pass[r].roster
        /\ pass'[r].joined = pass[r].joined /\ pass'[r].gone = {}
        /\ pass'[r].based = pass[r].based
        /\ visitorsKnown' = visitorsKnown \cup pass[r].roster
        /\ present' = (present \cup pass[r].roster) \ pass[r].gone
        /\ visitorMishaps \cup (pass[r].gone \cap group) \subseteq visitorMishaps'
        /\ UNCHANGED <<repeats, overlooked>>
    BY <1>5, <1>0 DEF V!Write, V!greeting, VisitorsTyped
  <2>1a. /\ newcomers \cup V!InHand(r)' \subseteq newcomers'
         /\ newcomers' \subseteq newcomers \cup pass[r].joined
         /\ newcomers' \subseteq newcomers \cup V!InHand(r)' \cup visitorMishaps'
         /\ newcomers' = newcomers \/ pass[r].based \/ pass[r].joined # pass[r].roster
    <3>1. V!InHand(r)' = IF pass[r].based THEN pass[r].joined ELSE {}
      BY <2>1 DEF V!InHand
    <3> QED
      BY <3>1, <1>5 DEF V!Write
  <2>2. VisitorsTyped'
    <3>1. [pass[r] EXCEPT !.at = "check", !.gone = {}]
            \in [at : {"idle", "count", "read", "write"} \cup V!After, roster : SUBSET People,
                   based : BOOLEAN, joined : SUBSET People, gone : SUBSET People]
      BY <1>0 DEF VisitorsTyped
    <3>2. pass' = [pass EXCEPT ![r] = [pass[r] EXCEPT !.at = "check", !.gone = {}]]
      BY <1>5 DEF V!Write
    <3>3. pass' \in [Rounds -> [at : {"idle", "count", "read", "write"} \cup V!After,
                               roster : SUBSET People, based : BOOLEAN,
                               joined : SUBSET People, gone : SUBSET People]]
      BY <3>1, <3>2, <1>0, PassTyped
    <3> QED
      BY <3>3, <1>1, <1>0 DEF VisitorsTyped
  <2>3. RostersInv'
    BY <1>1, <2>1 DEF VisitorsInv, RostersInv
  <2>4. AbsentInv'
    BY <1>1, <2>1 DEF VisitorsInv, RostersInv, AbsentInv
  <2>5. \A s \in Rounds \ {r} : V!InHand(s)' = V!InHand(s)
    BY <1>1 DEF V!InHand
  <2>6. V!InHand(r) = {} /\ V!InHand(r)' \cup pass[r].joined \subseteq visitorsKnown'
    BY <2>1 DEF V!InHand, VisitorsInv, RostersInv
  <2>7. WaitingInv' /\ MetInv'
    BY <1>1, <2>1, <2>1a, <2>5, <2>6 DEF VisitorsInv, WaitingInv, MetInv
  <2>8. \A s \in Rounds \ {r} : pass[s].joined \cap pass[r].roster
                                  \subseteq (pass[s].joined \cap pass[r].joined) \cup (pass[s].joined \cap visitorsKnown)
    BY <2>1 DEF VisitorsInv, RostersInv
  <2>9. FoundOnceInv'
    BY <1>1, <2>1, <2>8 DEF VisitorsInv, FoundOnceInv
  <2>10. WelcomedInv'
    BY <1>1, <2>1 DEF VisitorsInv, WelcomedInv
  <2>11. BaselineInv'
    <3>1. Founders \subseteq visitorsKnown' \cup overlooked
      BY <2>1 DEF VisitorsInv, BaselineInv
    <3>2. newcomers' \cap Founders \subseteq overlooked
      BY <2>1, <2>1a DEF VisitorsInv, BaselineInv
    <3>3. pass'[r].based => visitorsKnown' # {}
      BY <2>1 DEF VisitorsInv, BaselineInv
    <3>4. visitorsKnown # {} => visitorsKnown' # {}
      BY <2>1
    <3> QED
      BY <3>1, <3>2, <3>3, <3>4, <1>1, <2>1 DEF VisitorsInv, BaselineInv
  <2> QED
    BY <2>2, <2>3, <2>4, <2>7, <2>9, <2>10, <2>11, <1>2 DEF VisitorsInv
<1> QED
  BY <1>3, <1>4, <1>5

\* What a pass does after the rows are written leaves the people's side as it was.
LEMMA GreetingKept ==
  ASSUME VisitorsInv, NEW r \in Rounds,
         UNCHANGED <<group, leavers, visitorsKnown, present, overlooked, queue, digest, welcomed, repeats,
                     newcomers, visitorMishaps>>,
         pass' = [pass EXCEPT ![r].at = pass'[r].at], pass[r].at \in V!After, pass'[r].at \in V!After
  PROVE  /\ RostersInv' /\ AbsentInv' /\ WaitingInv' /\ MetInv' /\ FoundOnceInv' /\ WelcomedInv'
         /\ BaselineInv'
         /\ pass' \in [Rounds -> [at : {"idle", "count", "read", "write"} \cup V!After,
                          roster : SUBSET People, based : BOOLEAN,
                          joined : SUBSET People, gone : SUBSET People]]
<1>1. /\ \A s \in Rounds \ {r} : pass'[s] = pass[s]
      /\ pass'[r].roster = pass[r].roster /\ pass'[r].joined = pass[r].joined
      /\ pass'[r].gone = pass[r].gone /\ pass'[r].based = pass[r].based
  BY DEF VisitorsInv, VisitorsTyped
<1>2. \A s \in Rounds : V!InHand(s)' = V!InHand(s)
  BY <1>1 DEF V!InHand
<1>3. RostersInv'
  BY <1>1 DEF VisitorsInv, RostersInv, V!After
<1>4. AbsentInv' /\ WaitingInv' /\ MetInv'
  BY <1>1, <1>2 DEF VisitorsInv, AbsentInv, WaitingInv, MetInv
<1>5. FoundOnceInv' /\ WelcomedInv' /\ BaselineInv'
  BY <1>1 DEF VisitorsInv, FoundOnceInv, WelcomedInv, BaselineInv, V!After
<1> QED
  BY <1>3, <1>4, <1>5 DEF VisitorsInv, VisitorsTyped

\* The gate, the record and the announcement's beginning.
LEMMA MilestoneStep ==
  ASSUME VisitorsInv, NEW r \in Rounds, V!Check(r) \/ V!Record(r) \/ V!Fire(r)
  PROVE  VisitorsInv'
<1> DEFINE m == V!Reached(r)
<1>1. /\ UNCHANGED <<group, leavers, visitorsKnown, present, overlooked, queue, digest, welcomed, repeats,
                     newcomers, visitorMishaps, announced, unsent>>
      /\ pass' = [pass EXCEPT ![r].at = pass'[r].at]
      /\ pass[r].at \in {"check", "record", "fire"} /\ pass'[r].at \in {"record", "fire", "enqueue"}
  BY DEF V!Check, V!Record, V!Fire, V!To, V!people, V!directory, V!greeting, VisitorsInv,
     VisitorsTyped
<1>2. /\ RostersInv' /\ AbsentInv' /\ WaitingInv' /\ MetInv' /\ FoundOnceInv' /\ WelcomedInv'
      /\ BaselineInv'
      /\ pass' \in [Rounds -> [at : {"idle", "count", "read", "write"} \cup V!After,
                          roster : SUBSET People, based : BOOLEAN,
                          joined : SUBSET People, gone : SUBSET People]]
  <2>1. pass[r].at \in V!After /\ pass'[r].at \in V!After
    BY <1>1 DEF V!After
  <2> QED
    BY <2>1, <1>1, GreetingKept
<1>3. \A s \in Rounds : V!Reached(s)' = V!Reached(s)
  BY <1>1 DEF V!Reached, VisitorsInv, VisitorsTyped
<1>4. \A s \in Rounds \ {r} : pass'[s].at = pass[s].at
  BY <1>1 DEF VisitorsInv, VisitorsTyped
<1>5. VisitorsTyped /\ MilestonesInv
  BY DEF VisitorsInv
<1>6. \A n \in V!Milestones : announced[n] \in Nat /\ underWay[n] \in Nat
  BY <1>5 DEF VisitorsTyped, V!Milestones
<1>7. CASE V!Check(r)
  <2>1. /\ UNCHANGED <<ledger, underWay>> /\ doubled \subseteq doubled' /\ pass[r].at = "check"
        /\ \/ pass'[r].at = "enqueue"
           \/ /\ pass'[r].at = "record" /\ m \in V!Milestones \ ledger
              /\ \A s \in Rounds \ {r} : pass[s].at = "record" /\ V!Reached(s) = m => m \in doubled'
    BY <1>7, <1>5 DEF V!Check, V!To, VisitorsTyped
  <2>2. \A s \in Rounds : Near(s)' /\ V!Reached(s) = m /\ pass'[r].at = "record" /\ s # r => m \in doubled'
    BY <2>1, <1>4, <1>5 DEF MilestonesInv, Near, Untouched
  <2>3. MilestonesInv'
    <3>1. \A s \in Rounds : Near(s)' => /\ V!Reached(s)' \in V!Milestones
                                        /\ V!Reached(s)' \in doubled' \/ Untouched(s, V!Reached(s))'
      <4> SUFFICES ASSUME NEW s \in Rounds, Near(s)'
                   PROVE  /\ V!Reached(s)' \in V!Milestones
                          /\ V!Reached(s)' \in doubled' \/ Untouched(s, V!Reached(s))'
        OBVIOUS
      <4>0. V!Reached(s)' = V!Reached(s)
        BY <1>3
      <4>1. CASE s = r
        <5>1. pass'[r].at = "record" /\ m \in V!Milestones \ ledger
          BY <4>1, <2>1 DEF Near
        <5>2. m \in doubled \/ (announced[m] = 0 /\ underWay[m] = 0)
          BY <5>1, <1>5, <1>6 DEF MilestonesInv
        <5> QED
          BY <4>0, <4>1, <5>1, <5>2, <2>1, <1>1 DEF Untouched
      <4>2. CASE s # r
        <5>1. Near(s) /\ pass'[s].at = pass[s].at
          BY <4>2, <1>4 DEF Near
        <5>2. V!Reached(s) \in V!Milestones /\ (V!Reached(s) \in doubled \/ Untouched(s, V!Reached(s)))
          BY <5>1, <1>5 DEF MilestonesInv
        <5> QED
          BY <4>0, <5>1, <5>2, <2>1, <1>1 DEF Untouched
      <4> QED
        BY <4>1, <4>2
    <3>2. \A s \in Rounds, q \in Rounds :
            Near(s)' /\ Near(q)' /\ s # q /\ V!Reached(s)' = V!Reached(q)' => V!Reached(s)' \in doubled'
      BY <2>1, <2>2, <1>3, <1>4, <1>5 DEF MilestonesInv, Near
    <3>3. \A n \in V!Milestones \ doubled' :
            \/ announced'[n] = 0 /\ underWay'[n] = 0
            \/ announced'[n] + underWay'[n] = 1 /\ n \in ledger'
      BY <2>1, <1>1, <1>5 DEF MilestonesInv
    <3>4. \A n \in V!Milestones :
            n \in ledger' => \/ announced'[n] > 0 \/ underWay'[n] > 0 \/ n \in unsent'
                            \/ \E s \in Rounds : pass'[s].at = "fire" /\ V!Reached(s)' = n
      BY <2>1, <1>1, <1>3, <1>4, <1>5 DEF MilestonesInv
    <3> QED
      BY <3>1, <3>2, <3>3, <3>4 DEF MilestonesInv, V!Milestones
  <2>4. VisitorsTyped'
    BY <2>1, <1>1, <1>2, <1>5 DEF VisitorsTyped, V!Milestones
  <2> QED
    BY <1>2, <2>3, <2>4 DEF VisitorsInv
<1>8. CASE V!Record(r)
  <2>1. /\ UNCHANGED underWay /\ pass[r].at = "record" /\ pass'[r].at = "fire"
        /\ \/ ledger' = ledger \cup {m} /\ doubled' = doubled
           \/ ledger' = ledger /\ doubled' = doubled \cup {m}
    BY <1>8, <1>5 DEF V!Record, V!To, VisitorsTyped
  <2>2. /\ m \in V!Milestones
        /\ \A s \in Rounds \ {r} : Near(s) /\ V!Reached(s) = m => m \in doubled
    BY <2>1, <1>5 DEF MilestonesInv, Near
  <2>3. m \notin doubled' => m \notin ledger /\ announced[m] = 0 /\ underWay[m] = 0 /\ ledger' = ledger \cup {m}
    BY <2>1, <2>2, <1>5 DEF MilestonesInv, Near, Untouched
  <2>4. MilestonesInv'
    <3>1. \A s \in Rounds : Near(s)' => /\ V!Reached(s)' \in V!Milestones
                                        /\ V!Reached(s)' \in doubled' \/ Untouched(s, V!Reached(s))'
      <4> SUFFICES ASSUME NEW s \in Rounds, Near(s)'
                   PROVE  /\ V!Reached(s)' \in V!Milestones
                          /\ V!Reached(s)' \in doubled' \/ Untouched(s, V!Reached(s))'
        OBVIOUS
      <4>0. V!Reached(s)' = V!Reached(s)
        BY <1>3
      <4>1. CASE s = r
        BY <4>0, <4>1, <2>1, <2>2, <2>3, <1>1 DEF Untouched
      <4>2. CASE s # r
        <5>1. Near(s) /\ pass'[s].at = pass[s].at
          BY <4>2, <1>4 DEF Near
        <5>2. V!Reached(s) \in V!Milestones /\ (V!Reached(s) \in doubled \/ Untouched(s, V!Reached(s)))
          BY <5>1, <1>5 DEF MilestonesInv
        <5>3. V!Reached(s) = m => m \in doubled
          BY <5>1, <4>2, <2>2
        <5> QED
          BY <4>0, <5>1, <5>2, <5>3, <2>1, <1>1 DEF Untouched
      <4> QED
        BY <4>1, <4>2
    <3>2. \A s \in Rounds, q \in Rounds :
            Near(s)' /\ Near(q)' /\ s # q /\ V!Reached(s)' = V!Reached(q)' => V!Reached(s)' \in doubled'
      BY <2>1, <1>3, <1>4, <1>5 DEF MilestonesInv, Near
    <3>3. \A n \in V!Milestones \ doubled' :
            \/ announced'[n] = 0 /\ underWay'[n] = 0
            \/ announced'[n] + underWay'[n] = 1 /\ n \in ledger'
      BY <2>1, <1>1, <1>5 DEF MilestonesInv
    <3>4. \A n \in V!Milestones :
            n \in ledger' => \/ announced'[n] > 0 \/ underWay'[n] > 0 \/ n \in unsent'
                            \/ \E s \in Rounds : pass'[s].at = "fire" /\ V!Reached(s)' = n
      <4>1. \A n \in V!Milestones : n \in ledger' => n = m \/ n \in ledger
        BY <2>1
      <4>2. \A s \in Rounds : pass[s].at = "fire" => pass'[s].at = "fire"
        BY <2>1, <1>4
      <4> QED
        BY <4>1, <4>2, <2>1, <1>1, <1>3, <1>5 DEF MilestonesInv
    <3> QED
      BY <3>1, <3>2, <3>3, <3>4 DEF MilestonesInv, V!Milestones
  <2>5. VisitorsTyped'
    BY <2>1, <1>1, <1>2, <1>5 DEF VisitorsTyped, V!Milestones
  <2> QED
    BY <1>2, <2>4, <2>5 DEF VisitorsInv
<1>9. CASE V!Fire(r)
  <2>1. /\ UNCHANGED <<ledger, doubled>> /\ pass[r].at = "fire" /\ pass'[r].at = "enqueue"
        /\ underWay' = [underWay EXCEPT ![m] = @ + 1]
    BY <1>9, <1>5 DEF V!Fire, V!To, VisitorsTyped
  <2>2. /\ m \in V!Milestones /\ underWay \in [V!Milestones -> Nat]
        /\ \A s \in Rounds \ {r} : Near(s) /\ V!Reached(s) = m => m \in doubled
    BY <2>1, <1>5 DEF MilestonesInv, Near, VisitorsTyped
  <2>3. /\ m \notin doubled => m \in ledger /\ announced[m] = 0 /\ underWay[m] = 0
        /\ underWay'[m] = underWay[m] + 1 /\ \A n \in V!Milestones : n # m => underWay'[n] = underWay[n]
    BY <2>1, <2>2, <1>5 DEF MilestonesInv, Near, Untouched
  <2>4. MilestonesInv'
    <3>1. \A s \in Rounds : Near(s)' => /\ V!Reached(s)' \in V!Milestones
                                        /\ V!Reached(s)' \in doubled' \/ Untouched(s, V!Reached(s))'
      <4> SUFFICES ASSUME NEW s \in Rounds, Near(s)'
                   PROVE  /\ V!Reached(s)' \in V!Milestones
                          /\ V!Reached(s)' \in doubled' \/ Untouched(s, V!Reached(s))'
        OBVIOUS
      <4>1. s # r /\ Near(s) /\ pass'[s].at = pass[s].at
        BY <2>1, <1>4 DEF Near
      <4>2. CASE V!Reached(s) = m
        BY <4>1, <4>2, <2>1, <2>2, <1>3
      <4>3. CASE V!Reached(s) # m
        BY <4>1, <4>3, <2>1, <2>3, <1>1, <1>3, <1>5 DEF MilestonesInv, Untouched
      <4> QED
        BY <4>2, <4>3
    <3>2. \A s \in Rounds, q \in Rounds :
            Near(s)' /\ Near(q)' /\ s # q /\ V!Reached(s)' = V!Reached(q)' => V!Reached(s)' \in doubled'
      BY <2>1, <1>3, <1>4, <1>5 DEF MilestonesInv, Near
    <3>3. ASSUME NEW n \in V!Milestones \ doubled'
          PROVE  \/ announced'[n] = 0 /\ underWay'[n] = 0
                 \/ announced'[n] + underWay'[n] = 1 /\ n \in ledger'
      <4>1. CASE n = m
        BY <4>1, <2>1, <2>3, <1>1
      <4>2. CASE n # m
        BY <4>2, <2>1, <2>3, <1>1, <1>5 DEF MilestonesInv
      <4> QED
        BY <4>1, <4>2
    <3>4. ASSUME NEW n \in V!Milestones, n \in ledger'
          PROVE  \/ announced'[n] > 0 \/ underWay'[n] > 0 \/ n \in unsent'
                 \/ \E s \in Rounds : pass'[s].at = "fire" /\ V!Reached(s)' = n
      <4>1. CASE n = m
        BY <4>1, <2>2, <2>3, <1>6
      <4>2. CASE n # m
        <5>1. \/ announced[n] > 0 \/ underWay[n] > 0 \/ n \in unsent
              \/ \E s \in Rounds \ {r} : pass[s].at = "fire" /\ V!Reached(s) = n
          BY <4>2, <3>4, <2>1, <1>5 DEF MilestonesInv
        <5> QED
          BY <5>1, <4>2, <2>3, <1>1, <1>3, <1>4
      <4> QED
        BY <4>1, <4>2
    <3> HIDE DEF m
    <3> QED
      BY <3>1, <3>2, <3>3, <3>4 DEF MilestonesInv, V!Milestones
  <2>5. VisitorsTyped'
    <3>1. underWay' \in [V!Milestones -> Nat]
      BY <2>1, <2>2
    <3> QED
      BY <3>1, <1>1, <1>2, <1>5 DEF VisitorsTyped, V!Milestones
  <2> QED
    BY <1>2, <2>4, <2>5 DEF VisitorsInv
<1> QED
  BY <1>7, <1>8, <1>9

\* The announcement comes to its post, or fails before.
LEMMA AnnounceStep ==
  ASSUME VisitorsInv, NEW m \in V!Milestones, V!Announce(m) \/ V!AnnounceFails(m)
  PROVE  VisitorsInv'
<1>1. /\ UNCHANGED <<group, leavers, visitorsKnown, present, overlooked, pass, ledger, doubled, queue,
                     digest, welcomed, repeats, newcomers, visitorMishaps>>
      /\ underWay' = [underWay EXCEPT ![m] = @ - 1] /\ underWay[m] > 0
      /\ \/ announced' = announced /\ unsent' = unsent \cup {m}
         \/ announced' = [announced EXCEPT ![m] = @ + 1] /\ unsent' = unsent
  BY DEF V!Announce, V!AnnounceFails, V!people, V!directory, V!greeting
<1>2. VisitorsTyped /\ MilestonesInv /\ \A n \in V!Milestones : announced[n] \in Nat /\ underWay[n] \in Nat
  BY DEF VisitorsInv, VisitorsTyped
<1>3. underWay' \in [V!Milestones -> Nat] /\ announced' \in [V!Milestones -> Nat]
  <2>1. underWay[m] - 1 \in Nat /\ announced[m] + 1 \in Nat
    BY <1>1, <1>2
  <2> QED
    BY <2>1, <1>1, <1>2 DEF VisitorsTyped
<1>4. /\ underWay'[m] = underWay[m] - 1
      /\ announced'[m] = announced[m] \/ announced'[m] = announced[m] + 1
      /\ \A n \in V!Milestones \ {m} : underWay'[n] = underWay[n] /\ announced'[n] = announced[n]
  BY <1>1, <1>2 DEF VisitorsTyped
<1>5. VisitorsTyped' /\ RostersInv' /\ AbsentInv'
  BY <1>1, <1>3 DEF VisitorsInv, VisitorsTyped, RostersInv, AbsentInv, V!Milestones
<1>6. WaitingInv' /\ MetInv'
  BY <1>1 DEF VisitorsInv, WaitingInv, MetInv, V!InHand
<1>7. FoundOnceInv' /\ WelcomedInv' /\ BaselineInv'
  BY <1>1 DEF VisitorsInv, FoundOnceInv, WelcomedInv, BaselineInv
<1>8. MilestonesInv'
  <2>1. \A s \in Rounds : V!Reached(s)' = V!Reached(s) /\ (Near(s)' <=> Near(s))
    BY <1>1 DEF V!Reached, Near
  <2>2. ASSUME NEW s \in Rounds, Near(s)'
        PROVE  /\ V!Reached(s)' \in V!Milestones
               /\ V!Reached(s)' \in doubled' \/ Untouched(s, V!Reached(s))'
    <3>1. V!Reached(s) \in V!Milestones /\ (V!Reached(s) \in doubled \/ Untouched(s, V!Reached(s)))
      BY <2>1, <2>2, <1>2 DEF MilestonesInv
    <3>2. CASE V!Reached(s) = m
      BY <3>1, <3>2, <2>1, <1>1 DEF Untouched
    <3>3. CASE V!Reached(s) # m
      BY <3>1, <3>3, <2>1, <1>1, <1>4 DEF Untouched
    <3> QED
      BY <3>2, <3>3
  <2>3. \A s \in Rounds, q \in Rounds :
          Near(s)' /\ Near(q)' /\ s # q /\ V!Reached(s)' = V!Reached(q)' => V!Reached(s)' \in doubled'
    BY <2>1, <1>1, <1>2 DEF MilestonesInv
  <2>4. ASSUME NEW n \in V!Milestones \ doubled'
        PROVE  \/ announced'[n] = 0 /\ underWay'[n] = 0
               \/ announced'[n] + underWay'[n] = 1 /\ n \in ledger'
    <3>1. \/ announced[n] = 0 /\ underWay[n] = 0
          \/ announced[n] + underWay[n] = 1 /\ n \in ledger
      BY <1>1, <1>2 DEF MilestonesInv
    <3>2. CASE n = m
      BY <3>1, <3>2, <1>1, <1>2, <1>4
    <3>3. CASE n # m
      BY <3>1, <3>3, <1>1, <1>4
    <3> QED
      BY <3>2, <3>3
  <2>5. ASSUME NEW n \in V!Milestones, n \in ledger'
        PROVE  \/ announced'[n] > 0 \/ underWay'[n] > 0 \/ n \in unsent'
               \/ \E s \in Rounds : pass'[s].at = "fire" /\ V!Reached(s)' = n
    <3>1. CASE n = m
      BY <3>1, <1>1, <1>2, <1>3 DEF VisitorsTyped
    <3>2. CASE n # m
      BY <3>2, <2>1, <2>5, <1>1, <1>2, <1>4 DEF MilestonesInv
    <3> QED
      BY <3>1, <3>2
  <2> QED
    BY <2>2, <2>3, <2>4, <2>5 DEF MilestonesInv, V!Milestones
<1> QED
  BY <1>5, <1>6, <1>7, <1>8 DEF VisitorsInv

\* The queue, and the end of a pass.
LEMMA EnqueueStep ==
  ASSUME VisitorsInv, NEW r \in Rounds, V!Enqueue(r) PROVE VisitorsInv'
<1> USE DEF V!After
<1>0. VisitorsTyped /\ \A s \in Rounds : pass[s].gone \subseteq People /\ pass[s].based \in BOOLEAN
  BY PassFields DEF VisitorsInv
<1>1. /\ UNCHANGED <<group, leavers, visitorsKnown, present, overlooked, ledger, underWay, announced,
                     doubled, unsent, digest, welcomed, repeats, newcomers>>
      /\ pass' = [pass EXCEPT ![r] = V!Resting] /\ pass[r].at = "enqueue"
      /\ \/ queue' = queue \cup V!InHand(r) /\ visitorMishaps' = visitorMishaps
         \/ queue' = queue /\ visitorMishaps' = visitorMishaps \cup V!InHand(r)
  BY DEF V!Enqueue, V!End, V!people, V!directory, V!milestones, V!InHand
<1>2. \A s \in Rounds \ {r} : pass'[s] = pass[s]
  BY <1>0, <1>1 DEF VisitorsTyped
<1>3. pass'[r] = [at |-> "idle", roster |-> {}, based |-> FALSE, joined |-> {}, gone |-> {}]
  BY <1>0, <1>1 DEF VisitorsTyped, V!Resting
<1>4. /\ pass'[r].at = "idle" /\ pass'[r].roster = {} /\ pass'[r].joined = {} /\ pass'[r].gone = {}
      /\ V!InHand(r)' = {} /\ V!InHand(r) \subseteq pass[r].joined
  BY <1>3 DEF V!InHand
<1>5. \A s \in Rounds \ {r} : V!InHand(s)' = V!InHand(s)
  BY <1>2 DEF V!InHand
<1>6. VisitorsTyped'
  <2>1. pass' \in [Rounds -> [at : {"idle", "count", "read", "write"} \cup V!After,
                          roster : SUBSET People, based : BOOLEAN,
                          joined : SUBSET People, gone : SUBSET People]]
    <3>1. V!Resting \in [at : {"idle", "count", "read", "write"} \cup V!After, roster : SUBSET People,
                       based : BOOLEAN, joined : SUBSET People, gone : SUBSET People]
      BY DEF V!Resting
    <3> QED
      BY <3>1, <1>0, <1>1, PassTyped
  <2> QED
    BY <2>1, <1>0, <1>1 DEF VisitorsTyped, V!Milestones
<1>7. RostersInv' /\ AbsentInv'
  BY <1>1, <1>2, <1>4 DEF VisitorsInv, RostersInv, AbsentInv
<1>8. WaitingInv' /\ MetInv'
  BY <1>1, <1>4, <1>5 DEF VisitorsInv, WaitingInv, MetInv
<1>9. \A s \in Rounds \ {r} : pass[s].joined \cap (queue' \cup digest.listed) \subseteq repeats
  BY <1>1, <1>4 DEF VisitorsInv, FoundOnceInv
<1>10. FoundOnceInv'
  BY <1>1, <1>2, <1>4, <1>9 DEF VisitorsInv, FoundOnceInv
<1>11. WelcomedInv' /\ BaselineInv'
  BY <1>1, <1>2, <1>3, <1>4 DEF VisitorsInv, WelcomedInv, BaselineInv
<1>12. MilestonesInv'
  <2>1. \A s \in Rounds : Near(s) \/ Near(s)' => pass'[s] = pass[s] /\ V!Reached(s)' = V!Reached(s)
    BY <1>1, <1>2, <1>4 DEF Near, V!Reached
  <2> QED
    BY <2>1, <1>0, <1>1, MilestonesKept DEF VisitorsInv, VisitorsTyped, Near
<1> QED
  BY <1>6, <1>7, <1>8, <1>10, <1>11, <1>12 DEF VisitorsInv

\* Passes that end early, one by itself or all of them with their process.
LEMMA CutOffStep ==
  ASSUME VisitorsInv, (\E r \in Rounds : V!Throw(r)) \/ V!WorkerDies PROVE VisitorsInv'
<1> USE DEF V!After
<1>0. VisitorsTyped
  BY DEF VisitorsInv
<1>1. PICK cut \in SUBSET Rounds :
        /\ V!CutOff(cut)
        /\ pass' = [s \in Rounds |-> IF s \in cut THEN V!Resting ELSE pass[s]]
        /\ unsent \cup V!NotFired(cut) \subseteq unsent'
        /\ \/ underWay' = underWay
           \/ /\ underWay' = [m \in V!Milestones |-> 0]
              /\ \A m \in V!Milestones : underWay[m] > 0 => m \in unsent'
  <2>1. CASE V!WorkerDies
    BY <2>1, <1>0 DEF V!WorkerDies
  <2>2. ASSUME NEW r \in Rounds, V!Throw(r)
        PROVE  /\ V!CutOff({r}) /\ pass' = [s \in Rounds |-> IF s \in {r} THEN V!Resting ELSE pass[s]]
               /\ unsent \cup V!NotFired({r}) \subseteq unsent' /\ underWay' = underWay
    BY <2>2, <1>0 DEF V!Throw, V!End, VisitorsTyped
  <2> QED
    BY <2>1, <2>2
<1>2. UNCHANGED <<group, leavers, visitorsKnown, present, overlooked, ledger, announced, doubled, queue,
                  digest, welcomed, repeats, newcomers>>
  BY DEF V!Throw, V!WorkerDies, V!people, V!directory, V!greeting
<1>2a. UNCHANGED <<queue, digest, welcomed, repeats>>
  BY <1>2
<1>3. \A s \in Rounds \ cut : pass'[s] = pass[s] /\ V!InHand(s)' = V!InHand(s) /\ V!Reached(s)' = V!Reached(s)
  BY <1>1 DEF V!InHand, V!Reached
<1>4. \A s \in cut : pass'[s] = [at |-> "idle", roster |-> {}, based |-> FALSE, joined |-> {}, gone |-> {}]
  BY <1>1 DEF V!Resting
<1>5. \A s \in cut : /\ pass'[s].at = "idle" /\ pass'[s].roster = {} /\ pass'[s].joined = {} /\ pass'[s].gone = {}
                     /\ V!InHand(s)' = {}
  BY <1>4 DEF V!InHand
<1>6. /\ visitorMishaps \subseteq visitorMishaps' /\ unsent \subseteq unsent'
      /\ \A s \in cut : V!InHand(s) \subseteq visitorMishaps'
      /\ \A s \in cut : pass[s].at = "fire" => V!Reached(s) \in unsent'
  BY <1>1 DEF V!CutOff, V!NotFired
<1>6a. /\ underWay' \in [V!Milestones -> Nat]
       /\ \A m \in V!Milestones : underWay'[m] = underWay[m] \/ (underWay'[m] < underWay[m] /\ m \in unsent')
  <2>1. underWay \in [V!Milestones -> Nat]
    BY <1>0 DEF VisitorsTyped
  <2>2. CASE underWay' = [m \in V!Milestones |-> 0] /\ \A m \in V!Milestones : underWay[m] > 0 => m \in unsent'
    BY <2>1, <2>2
  <2> QED
    BY <1>1, <2>1, <2>2
<1>7. VisitorsTyped'
  <2>1. V!Resting \in [at : {"idle", "count", "read", "write"} \cup V!After, roster : SUBSET People,
                       based : BOOLEAN, joined : SUBSET People, gone : SUBSET People]
    BY DEF V!Resting
  <2>2. pass' \in [Rounds -> [at : {"idle", "count", "read", "write"} \cup V!After,
                          roster : SUBSET People, based : BOOLEAN,
                          joined : SUBSET People, gone : SUBSET People]]
    BY <2>1, <1>0, <1>1 DEF VisitorsTyped
  <2> QED
    BY <2>2, <1>0, <1>2, <1>6a DEF VisitorsTyped, V!Milestones
<1>8. RostersInv' /\ AbsentInv'
  BY <1>2, <1>3, <1>5, <1>6 DEF VisitorsInv, RostersInv, AbsentInv
<1>9. WaitingInv' /\ MetInv'
  BY <1>2, <1>3, <1>5, <1>6 DEF VisitorsInv, WaitingInv, MetInv
<1>10. FoundOnceInv'
  BY <1>2, <1>3, <1>5 DEF VisitorsInv, FoundOnceInv
<1>11. WelcomedInv' /\ BaselineInv'
  BY <1>2, <1>3, <1>4, <1>5 DEF VisitorsInv, WelcomedInv, BaselineInv
<1>12. MilestonesInv'
  <2>1. \A s \in Rounds : Near(s)' => s \notin cut
    BY <1>5 DEF Near
  <2> QED
    BY <2>1, <1>2, <1>3, <1>6, <1>6a, MilestonesKept DEF VisitorsInv, Near
<1> QED
  BY <1>7, <1>8, <1>9, <1>10, <1>11, <1>12 DEF VisitorsInv

\* The supervisor's digest.
LEMMA DigestStep ==
  ASSUME VisitorsInv, V!List \/ V!Look \/ V!Send \/ V!SendFails \/ V!Clear \/ V!DigestEnds
  PROVE  VisitorsInv'
<1>0. /\ VisitorsTyped
      /\ digest.at \in {"idle", "look", "send", "clear"}
      /\ digest.listed \subseteq People /\ digest.shown \subseteq People
      /\ queue \subseteq People /\ newcomers \subseteq People
  BY DEF VisitorsInv, VisitorsTyped, WaitingInv, RostersInv
<1>1. UNCHANGED <<group, leavers, visitorsKnown, present, overlooked, pass, ledger, underWay, announced,
                  doubled, unsent, newcomers>>
  BY DEF V!List, V!Look, V!Send, V!SendFails, V!Clear, V!DigestEnds, V!people, V!directory,
     V!milestones
<1>2. \A s \in Rounds : V!InHand(s)' = V!InHand(s) /\ V!Reached(s)' = V!Reached(s)
  BY <1>1 DEF V!InHand, V!Reached
<1>3. MilestonesInv' /\ BaselineInv'
  BY <1>1, <1>2 DEF VisitorsInv, MilestonesInv, Near, Untouched, BaselineInv
<1>4. visitorMishaps \subseteq visitorMishaps'
  BY DEF V!List, V!Look, V!Send, V!SendFails, V!Clear, V!DigestEnds
<1>5. RostersInv' /\ AbsentInv'
  BY <1>1, <1>4 DEF VisitorsInv, RostersInv, AbsentInv
<1>6. CASE V!List
  <2>1. /\ UNCHANGED <<queue, welcomed, repeats, visitorMishaps>> /\ digest.at = "idle"
        /\ digest' = [at |-> "look", listed |-> queue, shown |-> {}]
    BY <1>6 DEF V!List, V!NoDigest
  <2>2. digest'.at = "look" /\ digest'.listed = queue /\ digest'.shown = {}
    BY <2>1
  <2>3. VisitorsTyped'
    BY <2>1, <1>0, <1>1 DEF VisitorsTyped, V!Milestones
  <2>4. WaitingInv' /\ MetInv'
    BY <2>1, <2>2, <1>1, <1>2 DEF VisitorsInv, WaitingInv, MetInv
  <2>5. FoundOnceInv' /\ WelcomedInv'
    BY <2>1, <2>2, <1>1 DEF VisitorsInv, FoundOnceInv, WelcomedInv
  <2> QED
    BY <2>3, <2>4, <2>5, <1>3, <1>5 DEF VisitorsInv
<1>7. CASE V!Look
  <2>1. /\ UNCHANGED <<queue, welcomed, repeats>> /\ digest.at = "look"
        /\ \/ /\ digest' = [digest EXCEPT !.at = "send", !.shown = {}]
              /\ visitorMishaps' = visitorMishaps \cup digest.listed
           \/ /\ digest' = [digest EXCEPT !.at = "send", !.shown = digest.listed \cap present]
              /\ visitorMishaps' = visitorMishaps
    BY <1>7 DEF V!Look
  <2>2. /\ digest'.at = "send" /\ digest'.listed = digest.listed /\ digest'.shown \subseteq digest.listed
        /\ digest.listed \subseteq digest'.shown \cup visitorMishaps' \cup (visitorsKnown \ present)
    <3>1. digest.listed \subseteq visitorsKnown
      BY <2>1 DEF VisitorsInv, WaitingInv
    <3>2. digest \in [at : {"idle", "look", "send", "clear"}, listed : SUBSET People,
                     shown : SUBSET People]
      BY <1>0 DEF VisitorsTyped
    <3>3. ASSUME NEW shown, digest' = [digest EXCEPT !.at = "send", !.shown = shown]
          PROVE  digest'.at = "send" /\ digest'.listed = digest.listed /\ digest'.shown = shown
      BY <3>2, <3>3
    <3>4. CASE digest' = [digest EXCEPT !.at = "send", !.shown = {}] /\ visitorMishaps' = visitorMishaps \cup digest.listed
      BY <3>3, <3>4
    <3>5. CASE digest' = [digest EXCEPT !.at = "send", !.shown = digest.listed \cap present]
      <4>1. digest'.at = "send" /\ digest'.listed = digest.listed /\ digest'.shown = digest.listed \cap present
        BY <3>3, <3>5
      <4> QED
        BY <3>1, <4>1
    <3> QED
      BY <2>1, <3>4, <3>5
  <2>3. VisitorsTyped'
    <3>1. digest' \in [at : {"idle", "look", "send", "clear"}, listed : SUBSET People, shown : SUBSET People]
      <4>1. digest \in [at : {"idle", "look", "send", "clear"}, listed : SUBSET People, shown : SUBSET People]
        BY <1>0 DEF VisitorsTyped
      <4>2. digest.listed \cap present \in SUBSET People
        BY <4>1
      <4> QED
        BY <2>1, <4>1, <4>2
    <3> QED
      BY <3>1, <2>1, <1>0, <1>1 DEF VisitorsTyped, V!Milestones
  <2>4. WaitingInv'
    BY <2>1, <2>2, <1>1, <1>2, <1>4 DEF VisitorsInv, WaitingInv, AbsentInv
  <2>5. MetInv'
    BY <2>1, <2>2, <1>1, <1>2, <1>4 DEF VisitorsInv, MetInv
  <2>6. FoundOnceInv' /\ WelcomedInv'
    BY <2>1, <2>2, <1>1 DEF VisitorsInv, FoundOnceInv, WelcomedInv
  <2> QED
    BY <2>3, <2>4, <2>5, <2>6, <1>3, <1>5 DEF VisitorsInv
<1>8. CASE V!Send
  <2>1. /\ UNCHANGED <<queue, repeats, visitorMishaps>> /\ digest.at = "send"
        /\ digest' = [digest EXCEPT !.at = "clear"]
        /\ welcomed' = [p \in People |-> IF p \in digest.shown THEN welcomed[p] + 1 ELSE welcomed[p]]
    BY <1>8 DEF V!Send
  <2>2. digest'.at = "clear" /\ digest'.listed = digest.listed /\ digest'.shown = digest.shown
    BY <2>1, <1>0 DEF VisitorsTyped
  <2>3. \A p \in People : /\ welcomed[p] \in Nat /\ welcomed'[p] \in Nat
                          /\ p \in digest.shown => welcomed'[p] = welcomed[p] + 1
                          /\ p \notin digest.shown => welcomed'[p] = welcomed[p]
    BY <2>1, <1>0 DEF VisitorsTyped
  <2>4. VisitorsTyped'
    <3>1. digest' \in [at : {"idle", "look", "send", "clear"}, listed : SUBSET People, shown : SUBSET People]
      BY <2>1, <1>0 DEF VisitorsTyped
    <3>2. welcomed' \in [People -> Nat]
      BY <2>1, <2>3
    <3> QED
      BY <3>1, <3>2, <2>1, <1>0, <1>1 DEF VisitorsTyped, V!Milestones
  <2>5. WaitingInv'
    BY <2>1, <2>2, <2>3, <1>0, <1>1, <1>2 DEF VisitorsInv, WaitingInv
  <2>6. MetInv'
    BY <2>1, <2>3, <1>0, <1>1, <1>2 DEF VisitorsInv, MetInv
  <2>7. FoundOnceInv'
    BY <2>1, <2>2, <1>1 DEF VisitorsInv, FoundOnceInv
  <2>8. WelcomedInv'
    <3> SUFFICES ASSUME NEW p \in People \ repeats', welcomed'[p] > 0
                 PROVE  /\ welcomed'[p] = 1 /\ p \in visitorsKnown'
                        /\ \A r \in Rounds : p \notin pass'[r].joined
                        /\ p \in queue' => digest'.at = "clear" /\ p \in digest'.shown
                        /\ p \in digest'.listed => digest'.at = "clear"
      BY DEF WelcomedInv
    <3>1. CASE p \in digest.shown
      <4>1. p \in digest.listed /\ p \in visitorsKnown
        BY <3>1 DEF VisitorsInv, WaitingInv
      <4>2. welcomed[p] = 0
        BY <4>1, <2>1, <2>3 DEF VisitorsInv, WelcomedInv
      <4>3. \A r \in Rounds : p \notin pass[r].joined
        BY <4>1, <2>1 DEF VisitorsInv, FoundOnceInv
      <4> QED
        BY <3>1, <4>1, <4>2, <4>3, <2>2, <2>3, <1>1
    <3>2. CASE p \notin digest.shown
      <4>1. welcomed'[p] = welcomed[p] /\ p \notin queue /\ p \in People \ repeats
        BY <3>2, <2>1, <2>3 DEF VisitorsInv, WelcomedInv
      <4> QED
        BY <4>1, <2>1, <2>2, <1>1 DEF VisitorsInv, WelcomedInv
    <3> QED
      BY <3>1, <3>2
  <2> QED
    BY <2>4, <2>5, <2>6, <2>7, <2>8, <1>3, <1>5 DEF VisitorsInv
<1>9. CASE V!SendFails \/ V!Clear \/ V!DigestEnds
  <2>1. /\ welcomed' = welcomed /\ digest' = [at |-> "idle", listed |-> {}, shown |-> {}]
        /\ \/ digest.at = "send" /\ UNCHANGED <<queue, repeats, visitorMishaps>>
           \/ /\ digest.at = "clear" /\ queue' = {} /\ repeats' = repeats
              /\ visitorMishaps' = visitorMishaps \cup (queue \ digest.listed)
           \/ /\ digest.at # "idle" /\ UNCHANGED <<queue, visitorMishaps>>
              /\ repeats' = IF digest.at = "clear" THEN repeats \cup digest.shown ELSE repeats
    BY <1>9 DEF V!SendFails, V!Clear, V!DigestEnds, V!NoDigest
  <2>2. digest'.at = "idle" /\ digest'.listed = {} /\ digest'.shown = {} /\ queue' \subseteq queue
    BY <2>1
  <2>3. VisitorsTyped'
    BY <2>1, <1>0, <1>1 DEF VisitorsTyped, V!Milestones
  <2>4. WaitingInv'
    BY <2>1, <2>2, <1>1, <1>2 DEF VisitorsInv, WaitingInv
  <2>5. MetInv'
    <3>1. \A p \in queue : \/ p \in queue'
                           \/ welcomed[p] > 0 \/ p \in leavers \cup visitorMishaps'
      BY <2>1, <1>0 DEF VisitorsInv, WaitingInv
    <3> QED
      BY <3>1, <2>1, <1>1, <1>2, <1>4 DEF VisitorsInv, MetInv
  <2>6. repeats \subseteq repeats'
    BY <2>1
  <2>7. FoundOnceInv'
    BY <2>2, <2>6, <1>1 DEF VisitorsInv, FoundOnceInv
  <2>8. WelcomedInv'
    BY <2>1, <2>2, <2>6, <1>1 DEF VisitorsInv, WelcomedInv
  <2> QED
    BY <2>3, <2>4, <2>5, <2>7, <2>8, <1>3, <1>5 DEF VisitorsInv
<1> QED
  BY <1>6, <1>7, <1>8, <1>9

\* The invariant, step by step.
LEMMA VisitorsStep == VisitorsInv /\ [V!Next]_V!visitorVars => VisitorsInv'
<1> SUFFICES ASSUME VisitorsInv, [V!Next]_V!visitorVars PROVE VisitorsInv'
  OBVIOUS
<1>1. CASE UNCHANGED V!visitorVars
  <2> USE <1>1 DEF V!visitorVars
  <2>1. VisitorsTyped'
    BY DEF VisitorsInv, VisitorsTyped
  <2>2. RostersInv' /\ AbsentInv'
    BY DEF VisitorsInv, RostersInv, AbsentInv
  <2>3. WaitingInv' /\ MetInv'
    BY DEF VisitorsInv, WaitingInv, MetInv, V!InHand
  <2>4. FoundOnceInv' /\ WelcomedInv' /\ BaselineInv'
    BY DEF VisitorsInv, FoundOnceInv, WelcomedInv, BaselineInv
  <2>5. MilestonesInv'
    BY DEF VisitorsInv, MilestonesInv, Near, Untouched, V!Reached
  <2> QED
    BY <2>1, <2>2, <2>3, <2>4, <2>5 DEF VisitorsInv
<1> QED
  BY <1>1, PeopleStep, InactiveStep, SyncStep, MilestoneStep, AnnounceStep, EnqueueStep, CutOffStep,
     DigestStep DEF V!Next

\* "Only genuine post-baseline joiners are queued" (feishu-user.ts, syncMembers),
\* runWelcomeDigest of supervisor.ts, and "visitor-num-notify must fire exactly once
\* per hundred, ever" (visitor-milestones.ts): a newcomer is greeted and a milestone
\* announced, once, but for the failures and races the model keeps account of; for
\* any people, any number of passes that overlap and any step between milestones.
THEOREM EveryoneIsGreetedOnce == V!Spec => []EveryoneIsNoticed
<1>1. VisitorsInv => EveryoneIsNoticed
  <2> SUFFICES ASSUME VisitorsInv PROVE EveryoneIsNoticed
    OBVIOUS
  <2>1. ASSUME NEW p \in newcomers PROVE welcomed[p] > 1 => p \in repeats
    BY <2>1 DEF VisitorsInv, VisitorsTyped, WelcomedInv, WaitingInv, RostersInv
  <2>2. V!EveryoneIsWelcomed
    BY <2>1 DEF VisitorsInv, MetInv, BaselineInv, V!EveryoneIsWelcomed
  <2>3. V!MilestoneAnnouncedOnce
    <3>1. ASSUME NEW m \in V!Milestones PROVE announced[m] > 1 => m \in doubled
      BY DEF VisitorsInv, VisitorsTyped, MilestonesInv
    <3> QED
      BY <3>1 DEF VisitorsInv, MilestonesInv, V!MilestoneAnnouncedOnce
  <2> QED
    BY <2>2, <2>3 DEF EveryoneIsNoticed
<1> QED
  BY <1>1, VisitorsInit, VisitorsStep, PTL DEF V!Spec

-----------------------------------------------------------------------------
(***************************************************************************)
(* Pins: what the table says is pinned, and no more than the cap.          *)
(***************************************************************************)

PinStates ==
  [at : {"idle", "judge", "pin", "record", "trim", "unpin"}, old : SUBSET PinMessages,
   todo : Seq(PinMessages), m : PinMessages \cup {0}, over : SUBSET PinMessages]

PinsTyped ==
  /\ popular \in SUBSET PinMessages /\ stale \in SUBSET PinMessages
  /\ pinned \in SUBSET PinMessages /\ tracked \in SUBSET PinMessages
  /\ pinSecond \in Nat /\ pinnedAt \in [PinMessages -> Nat]
  /\ \A m \in PinMessages : pinnedAt[m] <= pinSecond
  /\ pinSweep \in [PinSweeps -> PinStates]
  /\ \A s \in PinSweeps : pinSweep[s].at \in {"pin", "record"} => pinSweep[s].m \in PinMessages
  /\ pins \in [PinMessages -> Nat] /\ takenDown \in [PinMessages -> Nat]

\* One sweep runs; a message is pinned once more than the cap took it down as long as
\* it is in the table or about to be; and what went was no newer than what stayed.
OneSweep ==
  \A s, t \in PinSweeps : pinSweep[s].at # "idle" /\ pinSweep[t].at # "idle" => s = t
PinnedOnce ==
  \A m \in PinMessages :
    pins[m] = IF m \in tracked \/ \E s \in PinSweeps : pinSweep[s].at = "record" /\ pinSweep[s].m = m
                THEN takenDown[m] + 1 ELSE takenDown[m]
OldestWent ==
  \A m \in tracked, d \in PinMessages \ tracked : takenDown[d] > 0 => pinnedAt[d] <= pinnedAt[m]

\* What the table is while nobody writes it, and while sweep s does.
PinsSettled == pinned = tracked \ byHand /\ Cardinality(tracked) <= PinCap
PinStage(s) ==
  LET here == pinSweep[s] IN
  /\ here.at = "pin" => here.m \notin tracked
  /\ here.at = "record" => /\ here.m \notin tracked /\ pinned = (tracked \cup {here.m}) \ byHand
                          /\ Cardinality(tracked) <= PinCap
  /\ here.at \in {"trim", "unpin"} => pinned = tracked \ byHand
  /\ here.at = "trim" => Cardinality(tracked) <= PinCap + 1
  /\ here.at = "unpin" =>
       \/ here.over = {} /\ Cardinality(tracked) <= PinCap
       \/ /\ Cardinality(tracked) = PinCap + 1
          /\ \E old \in tracked : here.over = {old} /\ \A m \in tracked : pinnedAt[old] <= pinnedAt[m]

PinsInv ==
  ~pinMarred =>
    /\ PinsTyped /\ OneSweep /\ PinnedOnce /\ OldestWent
    /\ (\A s \in PinSweeps : pinSweep[s].at \in {"idle", "judge", "pin"}) => PinsSettled
    /\ \A s \in PinSweeps : PinStage(s)

LEMMA PinParameters == IsFiniteSet(PinMessages) /\ PinCap \in Nat \ {0}
<1>1. \A S : X!IsFiniteSet(S) <=> IsFiniteSet(S)
  BY DEF IsFiniteSet, X!IsFiniteSet
<1> QED
  BY <1>1, PinnedOnes DEF X!PinsAssumption

LEMMA PinCounts == \A S : X!Cardinality(S) = Cardinality(S)
BY DEF Cardinality, X!Cardinality

\* A table with one row more, and one less.
LEMMA PinTable ==
  ASSUME NEW T \in SUBSET PinMessages
  PROVE  /\ Cardinality(T) \in Nat
         /\ \A m \in PinMessages \ T : Cardinality(T \cup {m}) = Cardinality(T) + 1
         /\ \A m \in T : Cardinality(T \ {m}) = Cardinality(T) - 1
<1>1. IsFiniteSet(T)
  BY PinParameters, FS_Subset
<1> QED
  BY <1>1, FS_CardinalityType, FS_AddElement, FS_RemoveElement

LEMMA PinsStart == X!Init => PinsInv
<1> SUFFICES ASSUME X!Init PROVE PinsInv
  OBVIOUS
<1>1. X!Idle \in PinStates /\ X!Idle.at = "idle"
  BY DEF X!Idle, PinStates
<1>2. /\ popular = {} /\ stale = {} /\ pinned = {} /\ tracked = {} /\ pinSecond = 1
      /\ pinnedAt = [m \in PinMessages |-> 0]
      /\ pinSweep = [s \in PinSweeps |-> X!Idle]
      /\ pins = [m \in PinMessages |-> 0] /\ takenDown = [m \in PinMessages |-> 0]
  BY DEF X!Init
<1>3. \A s \in PinSweeps : pinSweep[s] = X!Idle
  BY <1>2
<1>4. PinsTyped
  BY <1>1, <1>2, <1>3 DEF PinsTyped
<1>5. OneSweep /\ PinnedOnce /\ OldestWent
  BY <1>1, <1>2, <1>3 DEF OneSweep, PinnedOnce, OldestWent
<1>6. PinsSettled
  BY <1>2, PinParameters, FS_EmptySet DEF PinsSettled
<1>7. \A s \in PinSweeps : PinStage(s)
  BY <1>1, <1>3 DEF PinStage
<1> QED
  BY <1>4, <1>5, <1>6, <1>7 DEF PinsInv

\* Sweep s moves while no other is under way.
LEMMA PinsMeet ==
  ASSUME PinsTyped, NEW s \in PinSweeps, NEW r \in PinStates,
         \A t \in PinSweeps : t # s => pinSweep[t].at = "idle",
         pinSweep' = [pinSweep EXCEPT ![s] = r],
         r.at \in {"pin", "record"} => r.m \in PinMessages,
         UNCHANGED <<popular, stale, pinSecond>>,
         pinned' \in SUBSET PinMessages, tracked' \in SUBSET PinMessages,
         pinnedAt' \in [PinMessages -> Nat], \A m \in PinMessages : pinnedAt'[m] <= pinSecond,
         pins' \in [PinMessages -> Nat], takenDown' \in [PinMessages -> Nat],
         \A m \in PinMessages : pins'[m] = IF m \in tracked' \/ (r.at = "record" /\ r.m = m)
                                             THEN takenDown'[m] + 1 ELSE takenDown'[m],
         OldestWent',
         r.at \in {"idle", "judge", "pin"} => PinsSettled',
         PinStage(s)'
  PROVE  PinsInv'
<1>1. /\ pinSweep' \in [PinSweeps -> PinStates] /\ pinSweep'[s] = r
      /\ \A t \in PinSweeps : t # s => pinSweep'[t] = pinSweep[t]
  BY DEF PinsTyped
<1>2. PinsTyped'
  BY <1>1 DEF PinsTyped
<1>3. OneSweep'
  BY <1>1 DEF OneSweep
<1>4. (\A t \in PinSweeps : pinSweep'[t].at \in {"idle", "judge", "pin"}) => PinsSettled'
  BY <1>1
<1>5. \A t \in PinSweeps : PinStage(t)'
  <2> SUFFICES ASSUME NEW t \in PinSweeps, t # s PROVE PinStage(t)'
    OBVIOUS
  <2>1. pinSweep'[t].at = "idle"
    BY <1>1
  <2> QED
    BY <2>1 DEF PinStage
<1>6. PinnedOnce'
  <2>1. \A m : (\E t \in PinSweeps : pinSweep'[t].at = "record" /\ pinSweep'[t].m = m) <=> r.at = "record" /\ r.m = m
    BY <1>1
  <2> QED
    BY <2>1 DEF PinnedOnce
<1> QED
  BY <1>2, <1>3, <1>4, <1>5, <1>6 DEF PinsInv

\* The world moves on: reactions, the clock, and who unpins by hand.
LEMMA PinsRest ==
  ASSUME PinsInv, ~pinMarred, popular' \in SUBSET PinMessages, stale' \in SUBSET PinMessages,
         pinSecond' \in {pinSecond, pinSecond + 1},
         \/ UNCHANGED <<pinned, byHand>>
         \/ \E m \in PinMessages : pinned' = pinned \ {m} /\ byHand' = byHand \cup {m},
         UNCHANGED <<tracked, pinnedAt, pinSweep, pins, takenDown>>
  PROVE  PinsInv'
<1>1. /\ PinsTyped /\ OneSweep /\ PinnedOnce /\ OldestWent
      /\ (\A s \in PinSweeps : pinSweep[s].at \in {"idle", "judge", "pin"}) => PinsSettled
      /\ \A s \in PinSweeps : PinStage(s)
  BY DEF PinsInv
<1>2. PinsTyped'
  BY <1>1 DEF PinsTyped
<1>3. OneSweep' /\ PinnedOnce' /\ OldestWent'
  BY <1>1 DEF OneSweep, PinnedOnce, OldestWent
<1>4. \A T : pinned = T \ byHand => pinned' = T \ byHand'
  OBVIOUS
<1>5. PinsSettled => PinsSettled'
  BY <1>4 DEF PinsSettled
<1>6. ASSUME NEW s \in PinSweeps PROVE PinStage(s)'
  <2>1. PinStage(s)
    BY <1>1
  <2> QED
    BY <2>1, <1>4 DEF PinStage
<1> QED
  BY <1>1, <1>2, <1>3, <1>5, <1>6 DEF PinsInv

LEMMA PinSweepMoves ==
  ASSUME PinsInv, ~pinMarred, ~pinMarred', NEW s \in PinSweeps,
         \/ X!Start(s) \/ X!Judge(s) \/ X!End(s) \/ X!Pin(s) \/ X!Record(s) \/ X!Trim(s)
         \/ X!Unpin(s) \/ X!Trimmed(s)
  PROVE  PinsInv'
<1> DEFINE here == pinSweep[s]
<1>0. /\ PinsTyped /\ OneSweep /\ PinnedOnce /\ OldestWent /\ PinStage(s)
      /\ (\A t \in PinSweeps : pinSweep[t].at \in {"idle", "judge", "pin"}) => PinsSettled
      /\ PinCap \in Nat \ {0}
  BY PinParameters DEF PinsInv, PinsTyped
<1>1. /\ here \in PinStates /\ here.old \in SUBSET PinMessages /\ here.todo \in Seq(PinMessages)
      /\ here.m \in PinMessages \cup {0} /\ here.over \in SUBSET PinMessages
      /\ popular \in SUBSET PinMessages /\ stale \in SUBSET PinMessages
      /\ pinned \in SUBSET PinMessages /\ tracked \in SUBSET PinMessages
      /\ pinSecond \in Nat /\ pinnedAt \in [PinMessages -> Nat]
      /\ \A m \in PinMessages : pinnedAt[m] <= pinSecond
      /\ pins \in [PinMessages -> Nat] /\ takenDown \in [PinMessages -> Nat]
  BY <1>0 DEF PinsTyped, PinStates
<1>2. here.at # "idle" => \A t \in PinSweeps : t # s => pinSweep[t].at = "idle"
  BY <1>0 DEF OneSweep
<1>3. here.at \in {"judge", "pin"} => PinsSettled
  BY <1>0, <1>2
<1>3a. /\ Cardinality(tracked) \in Nat
       /\ \A m \in PinMessages \ tracked : Cardinality(tracked \cup {m}) = Cardinality(tracked) + 1
       /\ \A m \in tracked : Cardinality(tracked \ {m}) = Cardinality(tracked) - 1
  BY <1>1, PinTable
<1>3b. (here.at = "idle" \/ here.at # "record") /\ (\A t \in PinSweeps : t # s => pinSweep[t].at = "idle") =>
         \A m \in PinMessages : pins[m] = IF m \in tracked THEN takenDown[m] + 1 ELSE takenDown[m]
  BY <1>0 DEF PinnedOnce
<1>4. CASE X!Start(s)
  <2>1. PICK list \in X!NewestFirst(popular) :
          pinSweep' = [pinSweep EXCEPT ![s] = [X!Idle EXCEPT !.at = "judge", !.old = stale,
                                                              !.todo = list]]
    BY <1>4 DEF X!Start
  <2>2. /\ here.at = "idle" /\ \A t \in PinSweeps : t # s => pinSweep[t].at = "idle"
        /\ UNCHANGED <<popular, stale, pinSecond, pinned, byHand, tracked, pinnedAt, pins, takenDown>>
    BY <1>4 DEF X!Start, X!world, X!table
  <2>3. list \in Seq(PinMessages)
    <3>1. IsFiniteSet(popular) /\ \A S : X!Cardinality(S) = Cardinality(S)
      BY <1>1, PinParameters, PinCounts, FS_Subset
    <3>2. Cardinality(popular) \in Nat /\ list \in [1 .. Cardinality(popular) -> popular]
      BY <3>1, FS_CardinalityType DEF X!NewestFirst
    <3>3. list \in [1 .. Cardinality(popular) -> PinMessages]
      BY <3>2, <1>1
    <3> QED
      BY <3>2, <3>3
  <2> DEFINE r == [X!Idle EXCEPT !.at = "judge", !.old = stale, !.todo = list]
  <2>4. r \in PinStates /\ r.at = "judge"
    <3>1. X!Idle \in PinStates
      BY DEF X!Idle, PinStates
    <3> QED
      BY <3>1, <2>3, <1>1 DEF PinStates
  <2>5. PinsSettled /\ PinsSettled' /\ OldestWent'
    BY <2>2, <1>0 DEF PinsSettled, OldestWent
  <2>6. pinSweep'[s] = r
    BY <2>1, <1>0 DEF PinsTyped
  <2>7. PinStage(s)'
    BY <2>4, <2>6 DEF PinStage
  <2> HIDE DEF r
  <2> QED
    BY <1>0, <1>1, <1>3b, <2>1, <2>2, <2>4, <2>5, <2>7, PinsMeet DEF r
<1>5. CASE X!Judge(s)
  <2> DEFINE m == Head(here.todo)
             at == IF m \in here.old \/ m \in tracked THEN "judge" ELSE "pin"
             r == [here EXCEPT !.todo = Tail(@), !.m = m, !.at = at]
  <2>1. /\ here.at = "judge" /\ here.todo # <<>> /\ pinSweep' = [pinSweep EXCEPT ![s] = r]
        /\ UNCHANGED <<popular, stale, pinSecond, pinned, byHand, tracked, pinnedAt, pins, takenDown>>
    BY <1>5 DEF X!Judge, X!world, X!table
  <2>2. m \in PinMessages /\ Tail(here.todo) \in Seq(PinMessages)
    BY <2>1, <1>1
  <2>3. at \in {"judge", "pin"}
    OBVIOUS
  <2>4. /\ r \in PinStates /\ r.at = at /\ r.m = m
    BY <1>1, <2>2, <2>3 DEF PinStates
  <2>5. PinsSettled' /\ OldestWent'
    BY <2>1, <1>0, <1>3 DEF PinsSettled, OldestWent
  <2>6. pinSweep'[s] = r
    BY <2>1, <1>0 DEF PinsTyped
  <2>7. PinStage(s)'
    BY <2>1, <2>4, <2>6 DEF PinStage
  <2> HIDE DEF r, m, at
  <2> QED
    BY <1>0, <1>1, <1>2, <1>3b, <2>1, <2>2, <2>3, <2>4, <2>5, <2>7, PinsMeet
<1>6. CASE X!End(s)
  <2>1. /\ here.at = "judge" /\ pinSweep' = [pinSweep EXCEPT ![s] = X!Idle]
        /\ UNCHANGED <<popular, stale, pinSecond, pinned, byHand, tracked, pinnedAt, pins, takenDown>>
    BY <1>6 DEF X!End, X!world, X!table
  <2>2. X!Idle \in PinStates /\ X!Idle.at = "idle"
    BY DEF X!Idle, PinStates
  <2>3. PinsSettled' /\ OldestWent'
    BY <2>1, <1>0, <1>3 DEF PinsSettled, OldestWent
  <2>4. pinSweep'[s] = X!Idle
    BY <2>1, <1>0 DEF PinsTyped
  <2>5. PinStage(s)'
    BY <2>2, <2>4 DEF PinStage
  <2> QED
    BY <1>0, <1>1, <1>2, <1>3b, <2>1, <2>2, <2>3, <2>5, PinsMeet
<1>7. CASE X!Pin(s)
  <2> DEFINE m == here.m
             r == [here EXCEPT !.at = "record"]
  <2>1. /\ here.at = "pin" /\ pinned' = pinned \cup {m} /\ byHand' = byHand \ {m}
        /\ pins' = [pins EXCEPT ![m] = @ + 1]
        /\ pinSweep' = [pinSweep EXCEPT ![s].at = "record"]
        /\ UNCHANGED <<popular, stale, pinSecond, tracked, pinnedAt, takenDown>>
    BY <1>7 DEF X!Pin, X!To, X!world, X!table
  <2>2. pinSweep' = [pinSweep EXCEPT ![s] = r]
    BY <2>1
  <2>3. m \in PinMessages /\ m \notin tracked /\ PinsSettled
    BY <2>1, <1>0, <1>3 DEF PinsTyped, PinStage
  <2>4. r \in PinStates /\ r.at = "record" /\ r.m = m
    BY <1>1 DEF PinStates
  <2>5. pinned' \in SUBSET PinMessages /\ pins' \in [PinMessages -> Nat] /\ OldestWent'
    BY <2>1, <2>3, <1>0, <1>1 DEF OldestWent
  <2>6. \A n \in PinMessages : pins'[n] = IF n \in tracked' \/ (r.at = "record" /\ r.m = n)
                                              THEN takenDown'[n] + 1 ELSE takenDown'[n]
    <3>1. \A n \in PinMessages : pins'[n] = IF n \in tracked' \/ m = n THEN takenDown'[n] + 1 ELSE takenDown'[n]
      BY <2>1, <2>3, <1>1, <1>2, <1>3b
    <3> HIDE DEF r, m
    <3> QED
      BY <3>1, <2>4
  <2>7. pinSweep'[s] = r
    BY <2>2, <1>0 DEF PinsTyped
  <2>8. PinStage(s)'
    <3>1. pinSweep'[s].at = "record" /\ pinSweep'[s].m = m
      BY <2>4, <2>7
    <3>2. m \notin tracked' /\ pinned' = (tracked' \cup {m}) \ byHand' /\ Cardinality(tracked') <= PinCap
      BY <2>1, <2>3 DEF PinsSettled
    <3> HIDE DEF r, m
    <3> QED
      BY <3>1, <3>2 DEF PinStage
  <2> HIDE DEF r, m
  <2>9. /\ \A t \in PinSweeps : t # s => pinSweep[t].at = "idle"
        /\ UNCHANGED <<popular, stale, pinSecond>>
        /\ tracked' \in SUBSET PinMessages /\ takenDown' \in [PinMessages -> Nat]
        /\ pinnedAt' \in [PinMessages -> Nat] /\ \A n \in PinMessages : pinnedAt'[n] <= pinSecond
    BY <1>1, <1>2, <2>1
  <2> QED
    BY <1>0, <2>2, <2>3, <2>4, <2>5, <2>6, <2>8, <2>9, PinsMeet
<1>8. CASE X!Record(s)
  <2> DEFINE m == here.m
             r == [here EXCEPT !.at = "trim"]
  <2>1. /\ here.at = "record" /\ m \in PinMessages /\ m \notin tracked
        /\ pinned = (tracked \cup {m}) \ byHand /\ Cardinality(tracked) <= PinCap
    BY <1>8, <1>0 DEF X!Record, PinsTyped, PinStage
  <2>2. /\ tracked' = tracked \cup {m} /\ pinnedAt' = [pinnedAt EXCEPT ![m] = pinSecond]
        /\ pinSweep' = [pinSweep EXCEPT ![s].at = "trim"]
        /\ UNCHANGED <<popular, stale, pinSecond, pinned, byHand, pins, takenDown>>
    BY <1>8, <2>1 DEF X!Record, X!To, X!world
  <2>3. pinSweep' = [pinSweep EXCEPT ![s] = r]
    BY <2>2
  <2>4. r \in PinStates /\ r.at = "trim" /\ r.m = m
    BY <1>1 DEF PinStates
  <2>5. /\ tracked' \in SUBSET PinMessages /\ Cardinality(tracked') <= PinCap + 1
        /\ pinnedAt' \in [PinMessages -> Nat] /\ \A n \in PinMessages : pinnedAt'[n] <= pinSecond
    <3>1. tracked' \in SUBSET PinMessages
      BY <2>1, <2>2, <1>1
    <3>2. Cardinality(tracked') <= PinCap + 1
      BY <2>1, <2>2, <1>0, <1>3a
    <3> HIDE DEF m
    <3>3. pinnedAt' \in [PinMessages -> Nat] /\ \A n \in PinMessages : pinnedAt'[n] <= pinSecond
      BY <2>1, <2>2, <1>1
    <3> QED
      BY <3>1, <3>2, <3>3
  <2>6. OldestWent'
    <3> SUFFICES ASSUME NEW n \in tracked', NEW d \in PinMessages \ tracked', takenDown[d] > 0
                 PROVE  pinnedAt'[d] <= pinnedAt'[n]
      BY <2>2 DEF OldestWent
    <3>1. d # m /\ d \notin tracked /\ pinnedAt'[d] = pinnedAt[d] /\ pinnedAt[d] <= pinSecond
      BY <2>1, <2>2, <1>1
    <3>2. CASE n = m
      BY <3>1, <3>2, <2>1, <2>2, <1>1
    <3>3. CASE n # m
      BY <3>1, <3>3, <2>1, <2>2, <1>0, <1>1 DEF OldestWent
    <3> QED
      BY <3>2, <3>3
  <2>7. \A n \in PinMessages : pins'[n] = IF n \in tracked' THEN takenDown'[n] + 1 ELSE takenDown'[n]
    <3>1. \A n : (\E t \in PinSweeps : pinSweep[t].at = "record" /\ pinSweep[t].m = n) <=> n = m
      BY <2>1, <1>2
    <3> QED
      BY <3>1, <2>1, <2>2, <1>0 DEF PinnedOnce
  <2>8. pinSweep'[s] = r
    BY <2>3, <1>0 DEF PinsTyped
  <2>9. PinStage(s)'
    <3>1. pinSweep'[s].at = "trim"
      BY <2>4, <2>8
    <3>2. pinned' = tracked' \ byHand' /\ Cardinality(tracked') <= PinCap + 1
      BY <2>1, <2>2, <2>5
    <3> HIDE DEF r, m
    <3> QED
      BY <3>1, <3>2 DEF PinStage
  <2> HIDE DEF r
  <2> QED
    BY <1>0, <1>1, <1>2, <2>1, <2>2, <2>3, <2>4, <2>5, <2>6, <2>7, <2>9, PinsMeet
<1>9. CASE X!Trim(s)
  <2>1. here.at = "trim" /\ pinned = tracked \ byHand /\ Cardinality(tracked) <= PinCap + 1
    BY <1>9, <1>0 DEF X!Trim, PinStage
  <2>2. PICK over \in X!Beyond : pinSweep' = [pinSweep EXCEPT ![s].at = "unpin", ![s].over = over]
    BY <1>9 DEF X!Trim
  <2>3. UNCHANGED <<popular, stale, pinSecond, pinned, byHand, tracked, pinnedAt, pins, takenDown>>
    BY <1>9 DEF X!Trim, X!world, X!table
  <2>4. /\ over \in SUBSET tracked /\ Cardinality(over) = X!Excess
        /\ \A o \in over, q \in tracked \ over : pinnedAt[o] <= pinnedAt[q]
    BY <2>2, PinCounts DEF X!Beyond
  <2>5. \/ over = {} /\ Cardinality(tracked) <= PinCap
        \/ /\ Cardinality(tracked) = PinCap + 1
           /\ \E old \in tracked : over = {old} /\ \A m \in tracked : pinnedAt[old] <= pinnedAt[m]
    <3>1. IsFiniteSet(over)
      BY <2>4, <1>1, PinParameters, FS_Subset
    <3>2. CASE Cardinality(tracked) <= PinCap
      <4>1. Cardinality(over) = 0
        BY <3>2, <2>4, <1>0, <1>3a, PinCounts DEF X!Excess
      <4> QED
        BY <4>1, <3>1, <3>2, FS_EmptySet
    <3>3. CASE ~(Cardinality(tracked) <= PinCap)
      <4>1. Cardinality(tracked) = PinCap + 1 /\ Cardinality(over) = 1
        BY <3>3, <2>1, <2>4, <1>0, <1>3a, PinCounts DEF X!Excess
      <4>2. PICK old : over = {old}
        BY <4>1, <3>1, FS_Singleton
      <4>3. \A m \in tracked : pinnedAt[old] <= pinnedAt[m]
        BY <4>2, <2>4, <1>1
      <4> QED
        BY <4>1, <4>2, <4>3, <2>4
    <3> QED
      BY <3>2, <3>3
  <2> DEFINE r == [here EXCEPT !.at = "unpin", !.over = over]
  <2>6. pinSweep' = [pinSweep EXCEPT ![s] = r]
    BY <2>2, <1>0 DEF PinsTyped
  <2>7. r \in PinStates /\ r.at = "unpin" /\ r.over = over
    BY <2>4, <1>1 DEF PinStates
  <2>8. pinSweep'[s] = r
    BY <2>6, <1>0 DEF PinsTyped
  <2>9. OldestWent'
    BY <2>3, <1>0 DEF OldestWent
  <2> HIDE DEF r
  <2>10. PinStage(s)'
    BY <2>1, <2>3, <2>5, <2>7, <2>8 DEF PinStage
  <2> QED
    BY <1>0, <1>1, <1>2, <1>3b, <2>1, <2>3, <2>6, <2>7, <2>9, <2>10, PinsMeet
<1>10. CASE X!Unpin(s)
  <2>1. PICK old \in here.over :
          /\ here.at = "unpin" /\ pinned' = pinned \ {old} /\ tracked' = tracked \ {old}
          /\ takenDown' = [takenDown EXCEPT ![old] = @ + 1]
          /\ pinSweep' = [pinSweep EXCEPT ![s].over = @ \ {old}]
          /\ UNCHANGED <<popular, stale, pinSecond, byHand, pinnedAt, pins>>
    BY <1>10 DEF X!Unpin, X!world
  <2>2. /\ pinned = tracked \ byHand /\ Cardinality(tracked) = PinCap + 1 /\ here.over = {old}
        /\ old \in tracked /\ \A m \in tracked : pinnedAt[old] <= pinnedAt[m]
    BY <2>1, <1>0 DEF PinStage
  <2> DEFINE r == [here EXCEPT !.over = {}]
  <2>3. pinSweep' = [pinSweep EXCEPT ![s] = r]
    <3>1. here.over \ {old} = {}
      BY <2>2
    <3>2. [here EXCEPT !.over = @ \ {old}] = r
      BY <3>1
    <3>3. pinSweep' = [pinSweep EXCEPT ![s] = [here EXCEPT !.over = @ \ {old}]]
      BY <2>1
    <3> QED
      BY <3>2, <3>3
  <2>4. r \in PinStates /\ r.at = "unpin" /\ r.over = {}
    BY <2>1, <1>1 DEF PinStates
  <2>5. /\ tracked' \in SUBSET PinMessages /\ Cardinality(tracked') <= PinCap
        /\ pinned' \in SUBSET PinMessages /\ takenDown' \in [PinMessages -> Nat] /\ old \in PinMessages
        /\ pinned' = tracked' \ byHand'
    <3>1. old \in PinMessages /\ tracked' \in SUBSET PinMessages /\ pinned' \in SUBSET PinMessages
      BY <2>1, <2>2, <1>1
    <3>2. Cardinality(tracked') <= PinCap
      BY <2>1, <2>2, <1>0, <1>3a
    <3>3. takenDown' \in [PinMessages -> Nat]
      BY <3>1, <2>1, <1>1
    <3>4. pinned' = tracked' \ byHand'
      BY <2>1, <2>2
    <3> QED
      BY <3>1, <3>2, <3>3, <3>4
  <2>6. OldestWent'
    <3> SUFFICES ASSUME NEW n \in tracked', NEW d \in PinMessages \ tracked', takenDown'[d] > 0
                 PROVE  pinnedAt[d] <= pinnedAt[n]
      BY <2>1 DEF OldestWent
    <3>1. CASE d = old
      BY <3>1, <2>1, <2>2
    <3>2. CASE d # old
      BY <3>2, <2>1, <1>0, <1>1 DEF OldestWent
    <3> QED
      BY <3>1, <3>2
  <2>7. \A n \in PinMessages : pins'[n] = IF n \in tracked' THEN takenDown'[n] + 1 ELSE takenDown'[n]
    <3>1. \A n \in PinMessages : pins[n] = IF n \in tracked THEN takenDown[n] + 1 ELSE takenDown[n]
      BY <2>1, <1>2, <1>3b
    <3> QED
      BY <3>1, <2>1, <2>2, <2>5, <1>1
  <2>8. pinSweep'[s] = r
    BY <2>3, <1>0 DEF PinsTyped
  <2> HIDE DEF r
  <2>9. PinStage(s)'
    BY <2>4, <2>5, <2>8 DEF PinStage
  <2> QED
    BY <1>0, <1>1, <1>2, <2>1, <2>3, <2>4, <2>5, <2>6, <2>7, <2>9, PinsMeet
<1>11. CASE X!Trimmed(s)
  <2> DEFINE r == [here EXCEPT !.at = "judge"]
  <2>1. /\ here.at = "unpin" /\ here.over = {}
        /\ pinSweep' = [pinSweep EXCEPT ![s].at = "judge"]
        /\ UNCHANGED <<popular, stale, pinSecond, pinned, byHand, tracked, pinnedAt, pins, takenDown>>
    BY <1>11 DEF X!Trimmed, X!To, X!world, X!table
  <2>2. pinSweep' = [pinSweep EXCEPT ![s] = r]
    BY <2>1
  <2>3. pinned = tracked \ byHand /\ Cardinality(tracked) <= PinCap
    BY <2>1, <1>0 DEF PinStage
  <2>4. r \in PinStates /\ r.at = "judge"
    BY <1>1 DEF PinStates
  <2>5. PinsSettled' /\ OldestWent'
    BY <2>1, <2>3, <1>0 DEF PinsSettled, OldestWent
  <2>6. pinSweep'[s] = r
    BY <2>2, <1>0 DEF PinsTyped
  <2> HIDE DEF r
  <2>7. PinStage(s)'
    BY <2>4, <2>6 DEF PinStage
  <2> QED
    BY <1>0, <1>1, <1>2, <1>3b, <2>1, <2>2, <2>4, <2>5, <2>7, PinsMeet
<1> QED
  BY <1>4, <1>5, <1>6, <1>7, <1>8, <1>9, <1>10, <1>11

LEMMA PinsStep == PinsInv /\ [X!Next]_X!pinVars => PinsInv'
<1> SUFFICES ASSUME PinsInv, [X!Next]_X!pinVars PROVE PinsInv'
  OBVIOUS
<1>1. CASE pinMarred'
  BY <1>1 DEF PinsInv
<1>2. CASE ~pinMarred'
  <2>1. CASE UNCHANGED X!pinVars
    <3>1. ~pinMarred /\ UNCHANGED <<popular, stale, pinSecond, pinned, byHand, tracked, pinnedAt, pinSweep,
                                     pins, takenDown>>
      BY <2>1, <1>2 DEF X!pinVars, X!world, X!table
    <3>2. popular \in SUBSET PinMessages /\ stale \in SUBSET PinMessages
      BY <3>1 DEF PinsInv, PinsTyped
    <3> QED
      BY <3>1, <3>2, PinsRest
  <2>2. CASE X!NextDay \/ X!SecondPasses \/ \E m \in PinMessages : X!React(m) \/ X!TakeDown(m)
    <3>1. ~pinMarred /\ UNCHANGED <<tracked, pinnedAt, pinSweep, pins, takenDown>>
      BY <2>2, <1>2 DEF X!NextDay, X!SecondPasses, X!React, X!TakeDown, X!table, X!world
    <3>2. /\ popular' \in SUBSET PinMessages /\ stale' \in SUBSET PinMessages
          /\ pinSecond' \in {pinSecond, pinSecond + 1}
      BY <3>1, <2>2 DEF PinsInv, PinsTyped, X!NextDay, X!SecondPasses, X!React, X!TakeDown, X!world
    <3>3. \/ UNCHANGED <<pinned, byHand>>
          \/ \E m \in PinMessages : pinned' = pinned \ {m} /\ byHand' = byHand \cup {m}
      BY <2>2 DEF X!NextDay, X!SecondPasses, X!React, X!TakeDown
    <3> QED
      BY <3>1, <3>2, <3>3, PinsRest
  <2>3. CASE \E s \in PinSweeps :
               \/ X!Start(s) \/ X!Judge(s) \/ X!End(s) \/ X!Pin(s) \/ X!Record(s) \/ X!Trim(s)
               \/ X!Unpin(s) \/ X!Trimmed(s)
    <3>1. ~pinMarred
      BY <2>3, <1>2 DEF X!Start, X!Judge, X!End, X!Pin, X!Record, X!Trim, X!Unpin, X!Trimmed
    <3> QED
      BY <2>3, <1>2, <3>1, PinSweepMoves
  <2>4. ~X!WorkerDies
    BY <1>2 DEF X!WorkerDies
  <2> QED
    BY <2>1, <2>2, <2>3, <2>4 DEF X!Next
<1> QED
  BY <1>1, <1>2

LEMMA PinsKept == PinsInv => X!PinsStayWithinTheCap
<1> SUFFICES ASSUME PinsInv, ~pinMarred PROVE X!PinsStayWithinTheCap
  BY DEF X!PinsStayWithinTheCap
<1>1. \A m \in PinMessages : pins[m] \in {takenDown[m], takenDown[m] + 1}
  BY DEF PinsInv, PinnedOnce
<1>2. \A m \in tracked, d \in PinMessages \ tracked : takenDown[d] > 0 => pinnedAt[d] <= pinnedAt[m]
  BY DEF PinsInv, OldestWent
<1> QED
  BY <1>1, <1>2, PinCounts DEF PinsInv, PinsSettled, X!PinsStayWithinTheCap

\* syncChatReactions (feishu-user.ts): for any cap, messages and sweeps, what is
\* pinned is what the table says but for what people unpinned, no more than the cap of
\* it, none the cap took down is of a later second than one it left, and nothing it did
\* not take down is pinned again, as long as no sweep failed or overlapped another.
THEOREM PinsKeepToTheCap == RecordsSpec => []PinsStayWithinTheCap
<1> DEFINE Inv == side = "pins" => PinsInv
<1>1. RecordsInit => Inv
  BY PinsStart DEF RecordsInit
<1>2. Inv /\ [RecordsNext]_recordsVars => Inv'
  <2> SUFFICES ASSUME Inv, [RecordsNext]_recordsVars, side' = "pins" PROVE PinsInv'
    OBVIOUS
  <2>1. side = "pins" /\ [X!Next]_X!pinVars
    BY DEF RecordsNext, recordsVars, popularOnes, X!pinVars, X!world, X!table
  <2> QED
    BY <2>1, PinsStep
<1>3. Inv => PinsStayWithinTheCap
  BY PinsKept DEF PinsStayWithinTheCap
<1> QED
  BY <1>1, <1>2, <1>3, PTL DEF RecordsSpec

-----------------------------------------------------------------------------
(***************************************************************************)
(* DocViews: a clean pass catches up, and tells of nothing twice.          *)
(***************************************************************************)

\* How many documents a pass over all of them asks about.
Asked == IF Len(Space) < MaxTargets THEN Len(Space) ELSE MaxTargets

PassStates ==
  [at : {"rest", "scan", "record", "done"}, todo : Seq(F!Docs),
   batch : SUBSET (F!Docs \X Viewers \X Nat), barred : SUBSET Nat, clean : BOOLEAN,
   asOf : [F!Docs -> [Viewers -> Nat]]]

DocsTyped ==
  /\ ours \in SUBSET F!Docs /\ views \in 0 .. MaxViews
  /\ latest \in [F!Docs -> [Viewers -> 0 .. views]]
  /\ viewPass \in PassStates
  /\ \A d \in F!Docs, v \in Viewers : viewPass.asOf[d][v] <= latest[d][v]

\* Document d was asked about since the pass began, or is left out.
Seen(d) ==
  \A v \in Viewers : viewPass.asOf[d][v] > 0 =>
    \E t \in viewPass.asOf[d][v] .. MaxViews : <<d, v, t>> \in viewRows
Through(k) == \A d \in 1 .. k : Seen(d) \/ F!LeftOut(d)

\* A pass in which nothing failed is through with the documents up to k, and has
\* the others before it.
CleanPass ==
  LET k == Asked - Len(viewPass.todo) IN
  /\ k \in Nat
  /\ \A i \in 1 .. Len(viewPass.todo) : viewPass.todo[i] = k + i
  /\ Through(k)
  /\ \A space \in viewPass.barred :
       space # 0 /\ \E b \in 1 .. k : Space[b] = space /\ b \notin ours

\* The answer a pass has still to write.
HasRead ==
  LET d == viewPass.todo[1] IN
  /\ viewPass.todo # <<>>
  /\ \A v \in Viewers : viewPass.asOf[d][v] > 0 =>
       \E t \in viewPass.asOf[d][v] .. MaxViews : <<d, v, t>> \in viewPass.batch

DocsInv ==
  /\ DocsTyped
  /\ viewsTold \subseteq viewRows /\ toldAgain = {}
  /\ viewPass.at # "rest" /\ viewPass.clean => CleanPass
  /\ viewPass.at = "record" => HasRead
  /\ viewPass.at = "done" => viewPass.todo = <<>>

LEMMA DocsAre ==
  /\ Space \in Seq(Nat) /\ MaxTargets \in Nat /\ MaxViews \in Nat
  /\ F!Docs = 1 .. Len(Space) /\ Len(Space) \in Nat
  /\ Asked \in Nat /\ Asked <= Len(Space) /\ Asked <= MaxTargets
  /\ \A d \in F!Docs : d <= MaxTargets => d <= Asked
<1>1. Space \in Seq(Nat) /\ MaxTargets \in Nat /\ MaxViews \in Nat
  BY Documents DEF F!DocsAssumption
<1>2. F!Docs = 1 .. Len(Space) /\ Len(Space) \in Nat
  BY <1>1 DEF F!Docs
<1> QED
  BY <1>1, <1>2 DEF Asked

LEMMA DocsStart == F!Init => DocsInv
<1> SUFFICES ASSUME F!Init PROVE DocsInv
  OBVIOUS
<1>1. /\ ours \in SUBSET F!Docs /\ latest = F!Rest.asOf /\ views = 0
      /\ viewRows = {} /\ viewsTold = {} /\ toldAgain = {} /\ viewPass = F!Rest
  BY DEF F!Init
<1>2. /\ F!Rest.at = "rest" /\ F!Rest.asOf = [d \in F!Docs |-> [v \in Viewers |-> 0]]
      /\ F!Rest \in PassStates
  BY DEF F!Rest, PassStates
<1>3. DocsTyped
  BY <1>1, <1>2, DocsAre DEF DocsTyped
<1> QED
  BY <1>1, <1>2, <1>3 DEF DocsInv

\* Numbers in order, as many as there are.
LEMMA InOrderIsAll ==
  ASSUME NEW n \in Nat, NEW q \in [1 .. n -> 1 .. n],
         \A i, j \in 1 .. n : i < j => q[i] < q[j]
  PROVE  \A i \in 1 .. n : q[i] = i
<1>0. IsFiniteSet(1 .. n)
  BY FS_Interval
<1> DEFINE Low == {i \in 1 .. n : q[i] < i}
           High == {i \in 1 .. n : q[i] > i}
<1>1. Low = {}
  <2> SUFFICES ASSUME Low # {} PROVE FALSE
    OBVIOUS
  <2> DEFINE f == [i \in 1 .. n |-> -i]
  <2>1. IsFiniteSet(Low) /\ \A x \in Low : f[x] \in Int
    BY <1>0, FS_Subset
  <2>2. PICK m \in Low : \A x \in Low : f[x] <= f[m]
    <3> HIDE DEF f, Low
    <3> QED
      BY <2>1, GreatestValue
  <2>3. m \in 1 .. n /\ q[m] < m /\ q[m] \in 1 .. n
    OBVIOUS
  <2>4. m - 1 \in 1 .. n /\ q[m - 1] < q[m] /\ q[m - 1] \in 1 .. n
    <3>1. m - 1 \in 1 .. n /\ m - 1 < m
      BY <2>3
    <3> QED
      BY <2>3, <3>1
  <2>5. m - 1 \in Low
    BY <2>3, <2>4
  <2> QED
    BY <2>2, <2>3, <2>5
<1>2. High = {}
  <2> SUFFICES ASSUME High # {} PROVE FALSE
    OBVIOUS
  <2>1. IsFiniteSet(High) /\ \A x \in High : x \in Int
    BY <1>0, FS_Subset
  <2>2. PICK m \in High : \A x \in High : x <= m
    <3> HIDE DEF High
    <3> QED
      BY <2>1, Greatest
  <2>3. m \in 1 .. n /\ q[m] > m /\ q[m] \in 1 .. n
    OBVIOUS
  <2>4. m + 1 \in 1 .. n /\ q[m] < q[m + 1] /\ q[m + 1] \in 1 .. n
    <3> HIDE DEF High
    <3>1. m + 1 \in 1 .. n /\ m < m + 1
      BY <2>3
    <3> QED
      BY <2>3, <3>1
  <2>5. m + 1 \in High
    BY <2>3, <2>4
  <2> QED
    BY <2>2, <2>3, <2>5
<1> QED
  BY <1>1, <1>2

LEMMA ThroughStays ==
  ASSUME NEW k, Through(k), viewRows \subseteq viewRows', ours' = ours,
         viewPass'.asOf = viewPass.asOf
  PROVE  Through(k)'
  BY DEF Through, Seen, F!LeftOut

\* The pass gets on by a document.
LEMMA PassGoesOn ==
  ASSUME DocsTyped, CleanPass, NEW d, viewPass.todo # <<>>, d = viewPass.todo[1],
         viewRows \subseteq viewRows', ours' = ours,
         viewPass'.asOf = viewPass.asOf, viewPass'.todo = Tail(viewPass.todo),
         Seen(d)' \/ F!LeftOut(d),
         \A space \in viewPass'.barred :
           space \in viewPass.barred \/ (space # 0 /\ Space[d] = space /\ d \notin ours)
  PROVE  CleanPass'
<1>0. viewPass.todo \in Seq(F!Docs) /\ Len(viewPass.todo) \in Nat \ {0} /\ Asked \in Nat
  BY DocsAre DEF DocsTyped, PassStates
<1>1. PICK k \in Nat :
        /\ k = Asked - Len(viewPass.todo)
        /\ \A i \in 1 .. Len(viewPass.todo) : viewPass.todo[i] = k + i
        /\ Through(k)
        /\ \A space \in viewPass.barred :
             space # 0 /\ \E b \in 1 .. k : Space[b] = space /\ b \notin ours
  BY DEF CleanPass
<1>2. d = k + 1
  <2>1. 1 \in 1 .. Len(viewPass.todo)
    BY <1>0
  <2>2. viewPass.todo[1] = k + 1
    BY <1>1, <2>1
  <2> QED BY <2>2
<1>3. /\ Len(viewPass'.todo) = Len(viewPass.todo) - 1 /\ Len(viewPass'.todo) \in Nat
      /\ \A i \in 1 .. Len(viewPass'.todo) :
           i + 1 \in 1 .. Len(viewPass.todo) /\ viewPass'.todo[i] = viewPass.todo[i + 1]
  BY <1>0
<1>4. Asked' = Asked /\ Asked - Len(viewPass'.todo) = k + 1
  <2>1. Asked' = Asked
    BY DEF Asked
  <2>2. k = Asked - Len(viewPass.todo) /\ Len(viewPass'.todo) = Len(viewPass.todo) - 1
    BY <1>1, <1>3
  <2>3. \A a, b \in Nat : k = a - b => a - (b - 1) = k + 1
    OBVIOUS
  <2>4. Asked - (Len(viewPass.todo) - 1) = k + 1
    BY <2>2, <2>3, <1>0
  <2> QED
    BY <2>1, <2>2, <2>4
<1>5. \A i \in 1 .. Len(viewPass'.todo) : viewPass'.todo[i] = (k + 1) + i
  <2> SUFFICES ASSUME NEW i \in 1 .. Len(viewPass'.todo) PROVE viewPass'.todo[i] = (k + 1) + i
    OBVIOUS
  <2>1. viewPass'.todo[i] = k + (i + 1)
    BY <1>1, <1>3
  <2> QED
    BY <2>1
<1>6. Through(k)'
  BY <1>1, ThroughStays
<1>7. Seen(d)' \/ F!LeftOut(d)'
  BY DEF F!LeftOut
<1>8. \A c \in 1 .. k + 1 : c \in 1 .. k \/ c = d
  BY <1>1, <1>2
<1>9. Through(k + 1)'
  BY <1>6, <1>7, <1>8 DEF Through
<1>10. \A space \in viewPass'.barred :
         space # 0 /\ \E b \in 1 .. k + 1 : Space[b] = space /\ b \notin ours'
  <2> SUFFICES ASSUME NEW space \in viewPass'.barred
               PROVE  space # 0 /\ \E b \in 1 .. k + 1 : Space[b] = space /\ b \notin ours'
    OBVIOUS
  <2>1. CASE space \in viewPass.barred
    <3>1. space # 0 /\ \E b \in 1 .. k : Space[b] = space /\ b \notin ours
      BY <1>1, <2>1
    <3>2. PICK b \in 1 .. k : Space[b] = space /\ b \notin ours
      BY <3>1
    <3>3. b \in 1 .. k + 1
      BY <1>1
    <3> QED
      BY <3>1, <3>2, <3>3
  <2>2. CASE space # 0 /\ Space[d] = space /\ d \notin ours
    <3>1. d \in 1 .. k + 1
      BY <1>1, <1>2
    <3> QED
      BY <3>1, <2>2
  <2> QED
    BY <2>1, <2>2
<1>11. \A n \in Nat : n = k + 1 =>
         /\ n \in Nat /\ \A i \in 1 .. Len(viewPass'.todo) : viewPass'.todo[i] = n + i
         /\ Through(n)'
         /\ \A space \in viewPass'.barred :
              space # 0 /\ \E b \in 1 .. n : Space[b] = space /\ b \notin ours'
  BY <1>5, <1>9, <1>10
<1>12. k + 1 \in Nat
  BY <1>1
<1> QED
  BY <1>4, <1>11, <1>12 DEF CleanPass

LEMMA PassBegins ==
  ASSUME DocsInv, F!Start
  PROVE  DocsInv'
<1>0. DocsTyped /\ viewsTold \subseteq viewRows /\ toldAgain = {}
  BY DEF DocsInv
<1>1. PICK listed \in SUBSET F!Docs : \E all \in F!InOrder[listed] :
        viewPass' = [F!Rest EXCEPT !.at = "scan", !.todo = F!First(MaxTargets, all),
                                   !.clean = (listed = F!Docs), !.asOf = latest]
  BY DEF F!Start
<1>2. PICK all \in F!InOrder[listed] :
        viewPass' = [F!Rest EXCEPT !.at = "scan", !.todo = F!First(MaxTargets, all),
                                   !.clean = (listed = F!Docs), !.asOf = latest]
  BY <1>1
<1>3. UNCHANGED <<ours, latest, views, viewRows, viewsTold, toldAgain>>
  BY DEF F!Start
<1> DEFINE n == Cardinality(listed)
           first == F!First(MaxTargets, all)
<1>4. /\ n \in Nat /\ all \in [1 .. n -> listed]
      /\ \A i, j \in 1 .. n : i < j => all[i] < all[j]
  <2>1. \A S : F!Cardinality(S) = Cardinality(S)
    BY DEF Cardinality, F!Cardinality
  <2>2. IsFiniteSet(F!Docs)
    BY DocsAre, FS_Interval
  <2>3. IsFiniteSet(listed)
    BY <2>2, FS_Subset
  <2>4. n \in Nat
    BY <2>3, FS_CardinalityType
  <2> QED
    BY <2>1, <2>4 DEF F!InOrder
<1>5. all \in Seq(F!Docs) /\ Len(all) = n
  <2>1. all \in [1 .. n -> F!Docs]
    BY <1>4
  <2> HIDE DEF n
  <2> QED
    BY <2>1, <1>4
<1> DEFINE m == IF n < MaxTargets THEN n ELSE MaxTargets
<1>6. /\ first \in Seq(F!Docs) /\ Len(first) = m /\ m \in Nat
      /\ \A i \in 1 .. m : first[i] = all[i] /\ i \in 1 .. n
  <2>1. m \in Nat /\ MaxTargets \in Nat /\ \A i \in 1 .. m : i \in 1 .. n /\ all[i] \in F!Docs
    <3> HIDE DEF n
    <3>1. m \in Nat /\ MaxTargets \in Nat /\ \A i \in 1 .. m : i \in 1 .. n
      BY <1>4, DocsAre
    <3> HIDE DEF m
    <3>2. \A i \in 1 .. n : all[i] \in F!Docs
      BY <1>4
    <3> QED
      BY <3>1, <3>2
  <2>2. first = SubSeq(all, 1, m)
    BY <1>5 DEF F!First
  <2> HIDE DEF n, m, first
  <2>3. /\ SubSeq(all, 1, m) \in Seq(F!Docs) /\ Len(SubSeq(all, 1, m)) = m
        /\ \A i \in 1 .. m : SubSeq(all, 1, m)[i] = all[i]
    BY <2>1, SubSeqProperties
  <2> QED
    BY <2>1, <2>2, <2>3
<1> HIDE DEF first, m, n
<1>7. latest \in [F!Docs -> [Viewers -> Nat]]
  <2>1. views \in Nat
    BY <1>0, DocsAre DEF DocsTyped
  <2>2. \A d \in F!Docs : latest[d] \in [Viewers -> Nat]
    BY <2>1, <1>0 DEF DocsTyped
  <2> QED
    BY <2>2, <1>0 DEF DocsTyped
<1>8. F!Rest \in PassStates /\ F!Rest.barred = {}
  BY DEF F!Rest, PassStates
<1>9. /\ viewPass' \in PassStates /\ viewPass'.at = "scan" /\ viewPass'.todo = first
      /\ viewPass'.clean = (listed = F!Docs) /\ viewPass'.asOf = latest /\ viewPass'.barred = {}
  BY <1>2, <1>6, <1>7, <1>8 DEF PassStates, first
<1>10. DocsTyped'
  <2>1. \A d \in F!Docs, v \in Viewers : latest[d][v] <= latest[d][v]
    BY <1>7
  <2> QED
    BY <2>1, <1>0, <1>3, <1>9 DEF DocsTyped
<1>11. ASSUME viewPass'.clean PROVE CleanPass'
  <2>1. listed = 1 .. Len(Space) /\ Len(Space) \in Nat
    BY <1>9, <1>11, DocsAre
  <2>2. n = Len(Space)
    <3>1. Cardinality(1 .. Len(Space)) = Len(Space)
      <4> DEFINE size == Len(Space)
      <4>1. 1 \in Int /\ size \in Int /\ (1 > size => size = 0)
        BY <2>1
      <4> HIDE DEF size
      <4>2. Cardinality(1 .. size) = IF 1 > size THEN 0 ELSE size - 1 + 1
        BY <4>1, FS_Interval
      <4> QED
        BY <4>1, <4>2 DEF size
    <3> QED
      BY <2>1, <3>1 DEF n
  <2>3. \A i \in 1 .. n : all[i] = i
    BY <1>4, <2>1, <2>2, InOrderIsAll
  <2>4. m = Asked /\ Asked' = Asked
    BY <2>2 DEF m, Asked
  <2>5. Asked - Len(viewPass'.todo) = 0
    BY <2>4, <1>6, <1>9
  <2>6. \A i \in 1 .. Len(viewPass'.todo) : viewPass'.todo[i] = 0 + i
    BY <2>3, <1>6, <1>9
  <2>7. Through(0)'
    BY DEF Through
  <2> QED
    BY <2>4, <2>5, <2>6, <2>7, <1>9 DEF CleanPass
<1> QED
  BY <1>0, <1>3, <1>9, <1>10, <1>11 DEF DocsInv


LEMMA DocsStep ==
  ASSUME DocsInv, [F!Next]_F!docVars
  PROVE  DocsInv'
<1>0. /\ DocsTyped /\ viewsTold \subseteq viewRows /\ toldAgain = {}
      /\ viewPass \in PassStates /\ ours \in SUBSET F!Docs
  BY DEF DocsInv, DocsTyped
<1>1. viewPass.todo # <<>> =>
        /\ F!Target = viewPass.todo[1] /\ viewPass.todo[1] \in F!Docs
        /\ Tail(viewPass.todo) \in Seq(F!Docs)
  BY <1>0 DEF PassStates, F!Target
<1>2. viewPass.clean /\ viewPass.at # "rest" => CleanPass
  BY DEF DocsInv
<1>3. CASE UNCHANGED F!docVars
  <2>1. UNCHANGED <<ours, latest, views, viewRows, viewsTold, toldAgain, viewPass>>
    BY <1>3 DEF F!docVars
  <2> QED
    BY <2>1 DEF DocsInv, DocsTyped, CleanPass, HasRead, Through, Seen, Asked, F!LeftOut
<1>4. CASE F!Start
  BY <1>4, PassBegins
<1>5. CASE F!SkipBarred
  <2> DEFINE d == viewPass.todo[1]
  <2>1. /\ viewPass.at = "scan" /\ viewPass.todo # <<>> /\ Space[d] \in viewPass.barred
        /\ viewPass' = [viewPass EXCEPT !.todo = Tail(@)]
        /\ UNCHANGED <<ours, latest, views, viewRows, viewsTold, toldAgain>>
    BY <1>5, <1>1 DEF F!SkipBarred
  <2>2. /\ viewPass' \in PassStates /\ viewPass'.at = "scan" /\ viewPass'.asOf = viewPass.asOf
        /\ viewPass'.todo = Tail(viewPass.todo) /\ viewPass'.barred = viewPass.barred
        /\ viewPass'.clean = viewPass.clean
    BY <2>1, <1>0, <1>1 DEF PassStates
  <2>3. DocsTyped'
    BY <2>1, <2>2, <1>0 DEF DocsTyped
  <2>4. ASSUME viewPass.clean PROVE CleanPass'
    <3>1. CleanPass
      BY <2>1, <2>4, <1>2
    <3>2. F!LeftOut(d)
      <4>1. PICK k \in Nat : /\ k = Asked - Len(viewPass.todo)
                             /\ \A i \in 1 .. Len(viewPass.todo) : viewPass.todo[i] = k + i
                             /\ \A space \in viewPass.barred :
                                  space # 0 /\ \E b \in 1 .. k : Space[b] = space /\ b \notin ours
        BY <3>1 DEF CleanPass
      <4>2. d = k + 1
        <5>1. 1 \in 1 .. Len(viewPass.todo)
          BY <2>1, <1>0 DEF PassStates
        <5> QED
          BY <4>1, <5>1
      <4>3. PICK b \in 1 .. k : Space[b] = Space[d] /\ b \notin ours
        BY <2>1, <4>1
      <4>4. b \in 1 .. d - 1 /\ Space[d] # 0
        BY <2>1, <4>1, <4>2
      <4> QED
        BY <4>3, <4>4 DEF F!LeftOut
    <3> QED
      BY <1>0, <2>1, <2>2, <3>1, <3>2, PassGoesOn
  <2> QED
    BY <1>0, <2>1, <2>2, <2>3, <2>4 DEF DocsInv
<1>6. CASE F!Refused
  <2> DEFINE d == viewPass.todo[1]
  <2>1. /\ viewPass.at = "scan" /\ viewPass.todo # <<>> /\ d \notin ours
        /\ viewPass' = [viewPass EXCEPT !.todo = Tail(@), !.barred = @ \cup F!Barred(d)]
        /\ UNCHANGED <<ours, latest, views, viewRows, viewsTold, toldAgain>>
    BY <1>6, <1>1 DEF F!Refused
  <2>2. F!Barred(d) \in SUBSET Nat /\ \A space \in F!Barred(d) : space # 0 /\ Space[d] = space
    <3>1. Space[d] \in Nat
      BY <2>1, <1>1, DocsAre
    <3> HIDE DEF d
    <3> QED
      BY <3>1 DEF F!Barred
  <2>3. /\ viewPass' \in PassStates /\ viewPass'.at = "scan" /\ viewPass'.asOf = viewPass.asOf
        /\ viewPass'.todo = Tail(viewPass.todo)
        /\ viewPass'.barred = viewPass.barred \cup F!Barred(d)
        /\ viewPass'.clean = viewPass.clean
    BY <2>1, <2>2, <1>0, <1>1 DEF PassStates
  <2>4. DocsTyped'
    BY <2>1, <2>3, <1>0 DEF DocsTyped
  <2>5. ASSUME viewPass.clean PROVE CleanPass'
    <3>1. CleanPass
      BY <2>1, <2>5, <1>2
    <3>2. F!LeftOut(d)
      BY <2>1 DEF F!LeftOut
    <3>3. \A space \in viewPass'.barred :
            space \in viewPass.barred \/ (space # 0 /\ Space[d] = space /\ d \notin ours)
      BY <2>1, <2>2, <2>3
    <3> QED
      BY <1>0, <2>1, <2>3, <3>1, <3>2, <3>3, PassGoesOn
  <2> QED
    BY <1>0, <2>1, <2>3, <2>4, <2>5 DEF DocsInv
<1>7. CASE F!Scan
  <2> DEFINE d == viewPass.todo[1]
             entries == {<<d, v, latest[d][v]>> : v \in {x \in Viewers : latest[d][x] > 0}}
  <2>0. latest \in [F!Docs -> [Viewers -> 0 .. views]] /\ views \in 0 .. MaxViews
        /\ MaxViews \in Nat
    BY <1>0, DocsAre DEF DocsTyped
  <2>1. /\ viewPass.at = "scan" /\ viewPass.todo # <<>> /\ d \in F!Docs
        /\ UNCHANGED <<ours, latest, views, viewRows, viewsTold, toldAgain>>
    BY <1>7, <1>1 DEF F!Scan
  <2>2. \/ viewPass' = [viewPass EXCEPT !.at = "record", !.batch = entries]
        \/ viewPass' = [viewPass EXCEPT !.todo = Tail(@), !.clean = FALSE]
    <3>1. F!Target = d
      BY <2>1, <1>1
    <3> HIDE DEF d
    <3> QED
      BY <1>7, <3>1 DEF F!Scan
  <2>3. CASE viewPass' = [viewPass EXCEPT !.at = "record", !.batch = entries]
    <3>1. entries \in SUBSET (F!Docs \X Viewers \X Nat)
      <4>1. \A v \in Viewers : latest[d][v] \in Nat
        BY <2>0, <2>1
      <4> QED
        BY <2>1, <4>1
    <3>2. /\ viewPass' \in PassStates /\ viewPass'.at = "record" /\ viewPass'.asOf = viewPass.asOf
          /\ viewPass'.todo = viewPass.todo /\ viewPass'.barred = viewPass.barred
          /\ viewPass'.clean = viewPass.clean /\ viewPass'.batch = entries
      <4> HIDE DEF entries
      <4> QED
        BY <2>3, <3>1, <1>0 DEF PassStates
    <3>3. DocsTyped'
      BY <2>1, <3>2, <1>0 DEF DocsTyped
    <3>4. HasRead'
      <4> SUFFICES ASSUME NEW v \in Viewers, viewPass.asOf[d][v] > 0
                   PROVE  \E t \in viewPass.asOf[d][v] .. MaxViews : <<d, v, t>> \in entries
        BY <2>1, <3>2 DEF HasRead
      <4>1. /\ viewPass.asOf[d][v] <= latest[d][v] /\ viewPass.asOf[d][v] \in Nat
            /\ latest[d][v] \in 0 .. views
        BY <1>0, <2>0, <2>1 DEF DocsTyped, PassStates
      <4>2. latest[d][v] \in viewPass.asOf[d][v] .. MaxViews /\ latest[d][v] > 0
        BY <4>1, <2>0
      <4>3. <<d, v, latest[d][v]>> \in entries
        BY <4>2
      <4> QED
        BY <4>2, <4>3
    <3>5. CleanPass => CleanPass'
      BY <2>1, <3>2 DEF CleanPass, Through, Seen, Asked, F!LeftOut
    <3> QED
      BY <1>0, <1>2, <2>1, <3>2, <3>3, <3>4, <3>5 DEF DocsInv
  <2>4. CASE viewPass' = [viewPass EXCEPT !.todo = Tail(@), !.clean = FALSE]
    <3>1. /\ viewPass' \in PassStates /\ viewPass'.at = "scan" /\ viewPass'.asOf = viewPass.asOf
          /\ ~viewPass'.clean
      BY <2>1, <2>4, <1>0, <1>1 DEF PassStates
    <3>2. DocsTyped'
      BY <2>1, <3>1, <1>0 DEF DocsTyped
    <3> QED
      BY <1>0, <2>1, <3>1, <3>2 DEF DocsInv
  <2> QED
    BY <2>2, <2>3, <2>4
<1>8. CASE F!Record
  <2> DEFINE tail == [viewPass EXCEPT !.at = "scan", !.todo = Tail(@), !.batch = {}]
  <2>0. PICK d : d = viewPass.todo[1]
    OBVIOUS
  <2>1. viewPass.at = "record" /\ viewPass.todo # <<>> /\ d \in F!Docs /\ HasRead
    BY <1>8, <1>1, <2>0 DEF F!Record, DocsInv, HasRead
  <2>2. PICK kept \in SUBSET viewPass.batch, shown \in SUBSET viewPass.batch :
          /\ shown \subseteq kept
          /\ \/ shown = viewPass.batch /\ viewPass' = tail
             \/ viewPass' = [tail EXCEPT !.clean = FALSE]
          /\ viewRows' = viewRows \cup kept
          /\ viewsTold' = viewsTold \cup F!Fresh(shown)
          /\ toldAgain' = toldAgain \cup (viewsTold \cap F!Fresh(shown))
    BY <1>8 DEF F!Record
  <2>3. UNCHANGED <<ours, latest, views>>
    BY <1>8 DEF F!Record
  <2>4. viewsTold' \subseteq viewRows' /\ toldAgain' = {} /\ viewRows \subseteq viewRows'
    BY <2>2, <1>0 DEF F!Fresh
  <2>5. /\ tail \in PassStates /\ tail.at = "scan" /\ tail.todo = Tail(viewPass.todo)
        /\ tail.asOf = viewPass.asOf /\ tail.barred = viewPass.barred
        /\ tail.clean = viewPass.clean
    BY <1>0, <1>1, <2>1 DEF PassStates
  <2> HIDE DEF tail
  <2>6. /\ viewPass' \in PassStates /\ viewPass'.at = "scan" /\ viewPass'.asOf = viewPass.asOf
        /\ viewPass'.clean => viewPass.clean /\ shown = viewPass.batch /\ viewPass' = tail
    BY <2>2, <2>5 DEF PassStates
  <2>7. DocsTyped'
    BY <2>3, <2>6, <1>0 DEF DocsTyped
  <2>8. ASSUME viewPass'.clean PROVE CleanPass'
    <3>1. CleanPass /\ viewPass' = tail /\ shown = viewPass.batch
      BY <2>1, <2>6, <2>8, <1>2
    <3>2. viewPass.batch \subseteq viewRows'
      BY <2>2, <3>1
    <3>3. Seen(d)'
      BY <2>0, <2>1, <2>6, <3>2 DEF Seen, HasRead
    <3> QED
      BY <1>0, <2>0, <2>1, <2>3, <2>4, <2>5, <2>6, <3>1, <3>3, PassGoesOn
  <2> QED
    BY <2>4, <2>6, <2>7, <2>8 DEF DocsInv
<1>9. CASE F!Done
  <2>1. /\ viewPass.at = "scan" /\ viewPass.todo = <<>>
        /\ viewPass' = [viewPass EXCEPT !.at = "done"]
        /\ UNCHANGED <<ours, latest, views, viewRows, viewsTold, toldAgain>>
    BY <1>9 DEF F!Done
  <2>2. /\ viewPass' \in PassStates /\ viewPass'.at = "done" /\ viewPass'.asOf = viewPass.asOf
        /\ viewPass'.todo = viewPass.todo /\ viewPass'.barred = viewPass.barred
        /\ viewPass'.clean = viewPass.clean
    BY <2>1, <1>0 DEF PassStates
  <2>3. DocsTyped'
    BY <2>1, <2>2, <1>0 DEF DocsTyped
  <2>4. CleanPass => CleanPass'
    BY <2>1, <2>2 DEF CleanPass, Through, Seen, Asked, F!LeftOut
  <2> QED
    BY <1>0, <1>2, <2>1, <2>2, <2>3, <2>4 DEF DocsInv
<1>10. CASE F!WorkerDies
  <2>1. viewPass' = F!Rest /\ UNCHANGED <<ours, latest, views, viewRows, viewsTold, toldAgain>>
    BY <1>10 DEF F!WorkerDies
  <2>2. /\ F!Rest.at = "rest" /\ F!Rest.asOf = [d \in F!Docs |-> [v \in Viewers |-> 0]]
        /\ F!Rest \in PassStates
    BY DEF F!Rest, PassStates
  <2>3. latest \in [F!Docs -> [Viewers -> 0 .. views]] /\ views \in Nat
    BY <1>0, DocsAre DEF DocsTyped
  <2>4. DocsTyped'
    BY <2>1, <2>2, <2>3, <1>0 DEF DocsTyped
  <2> QED
    BY <1>0, <2>1, <2>2, <2>4 DEF DocsInv
<1>11. ASSUME NEW d \in F!Docs, NEW v \in Viewers, F!View(d, v) PROVE DocsInv'
  <2>1. /\ views < MaxViews /\ views' = views + 1
        /\ latest' = [latest EXCEPT ![d] = [latest[d] EXCEPT ![v] = views + 1]]
        /\ UNCHANGED <<ours, viewRows, viewsTold, toldAgain, viewPass>>
    BY <1>11 DEF F!View
  <2>2. latest \in [F!Docs -> [Viewers -> 0 .. views]] /\ views \in 0 .. MaxViews /\ MaxViews \in Nat
    BY <1>0, DocsAre DEF DocsTyped
  <2>3. views' \in 0 .. MaxViews
    BY <2>1, <2>2
  <2>4. \A c \in F!Docs, u \in Viewers :
          latest'[c][u] = IF c = d /\ u = v THEN views + 1 ELSE latest[c][u]
    BY <2>1, <2>2
  <2>5. latest' \in [F!Docs -> [Viewers -> 0 .. views']]
    <3>1. latest \in [F!Docs -> [Viewers -> 0 .. views + 1]]
      <4>1. \A c \in F!Docs : latest[c] \in [Viewers -> 0 .. views + 1]
        BY <2>2
      <4> QED
        BY <2>2, <4>1
    <3>2. [latest[d] EXCEPT ![v] = views + 1] \in [Viewers -> 0 .. views + 1]
      BY <2>2, <3>1
    <3> QED
      BY <2>1, <3>1, <3>2
  <2>6. \A c \in F!Docs, u \in Viewers : viewPass.asOf[c][u] <= latest'[c][u]
    <3> SUFFICES ASSUME NEW c \in F!Docs, NEW u \in Viewers
                 PROVE  viewPass.asOf[c][u] <= latest'[c][u]
      OBVIOUS
    <3>1. /\ viewPass.asOf[c][u] <= latest[c][u] /\ viewPass.asOf[c][u] \in Nat
          /\ latest[c][u] \in 0 .. views
      BY <1>0, <2>2 DEF DocsTyped, PassStates
    <3> QED
      BY <2>2, <2>4, <3>1
  <2>7. DocsTyped'
    BY <1>0, <2>1, <2>3, <2>5, <2>6 DEF DocsTyped
  <2>8. (CleanPass => CleanPass') /\ (HasRead => HasRead')
    BY <2>1 DEF CleanPass, HasRead, Through, Seen, Asked, F!LeftOut
  <2> QED
    BY <2>1, <2>7, <2>8 DEF DocsInv
<1> QED
  BY <1>3, <1>4, <1>5, <1>6, <1>7, <1>8, <1>9, <1>10, <1>11 DEF F!Next

LEMMA ViewsCaughtUp == DocsInv => F!ViewsAreCaughtUpOnce
<1> SUFFICES ASSUME DocsInv PROVE F!ViewsAreCaughtUpOnce
  OBVIOUS
<1>1. viewsTold \subseteq viewRows /\ toldAgain = {}
  BY DEF DocsInv
<1>2. ASSUME viewPass.at = "done", viewPass.clean, NEW d \in F!Docs, ~F!LeftOut(d)
      PROVE  Seen(d)
  <2>1. CleanPass /\ viewPass.todo = <<>>
    BY <1>2 DEF DocsInv
  <2>2. Through(Asked)
    <3>1. Asked - Len(viewPass.todo) = Asked
      BY <2>1, DocsAre
    <3> QED
      BY <2>1, <3>1 DEF CleanPass
  <2>3. d \in 1 .. Asked
    <3>1. d \in 1 .. Len(Space) /\ ~(d > MaxTargets)
      BY <1>2, DocsAre DEF F!LeftOut
    <3> QED
      BY <3>1, DocsAre
  <2> QED
    BY <1>2, <2>2, <2>3 DEF Through
<1> QED
  BY <1>1, <1>2 DEF F!ViewsAreCaughtUpOnce, Seen

\* syncDocViewRecords (feishu-user.ts): for any documents, viewers and limit, a
\* pass in which nothing failed has each viewer's view, as of its start or later,
\* of every document it does not leave out, and no view is reported twice.
THEOREM PassesCatchUp == RecordsSpec => []ViewsAreCaughtUpOnce
<1> DEFINE Inv == side = "docs" => DocsInv
<1>1. RecordsInit => Inv
  BY DocsStart DEF RecordsInit
<1>2. Inv /\ [RecordsNext]_recordsVars => Inv'
  <2> SUFFICES ASSUME Inv, [RecordsNext]_recordsVars, side' = "docs" PROVE DocsInv'
    OBVIOUS
  <2>1. side = "docs" /\ [F!Next]_F!docVars
    BY DEF RecordsNext, recordsVars, docs, F!docVars
  <2> QED
    BY <2>1, DocsStep
<1>3. Inv => ViewsAreCaughtUpOnce
  BY ViewsCaughtUp DEF ViewsAreCaughtUpOnce
<1> QED
  BY <1>1, <1>2, <1>3, PTL DEF RecordsSpec

-----------------------------------------------------------------------------
(***************************************************************************)
(* Memory: a scope has one row for its key, made from the latest messages, *)
(* and a summary that fits is in the prompt.                               *)
(***************************************************************************)

MemoryRows ==
  [id : Nat \ {0}, ns : Y!Scopes, keyed : BOOLEAN, text : Nat, size : Nat,
   visibility : {"private", "group", "admin_only"}, at : Nat, expires : Nat]
MemoryWriters ==
  [at : {"idle", "working", "found"}, ns : Y!Scopes \cup {Y!Global}, text : Nat, hit : Nat]

MemoryTyped ==
  /\ IsFiniteSet(memories) /\ Cardinality(memories) <= MaxMemories
  /\ memories \subseteq MemoryRows
  /\ writer \in [Y!Writers -> MemoryWriters]
  /\ heard \in [Y!Scopes -> Nat] /\ mixed \subseteq Y!Scopes
  /\ said \in Nat /\ clockNow \in Nat

\* An id is one row's, a row a writer found is a keyed one of its scope, whether it
\* is still there or not, and the keyed rows of users are their own.
RowsAreTold ==
  /\ \A r, q \in memories : r.id = q.id => r = q
  /\ \A r \in memories : r.keyed => r.visibility # "admin_only"
  /\ \A w \in Y!Writers : \A r \in memories :
       writer[w].at = "found" /\ r.id = writer[w].hit => r.keyed /\ r.ns = writer[w].ns

\* A writer at work writes something of what was said, no older than what a write
\* before it brought.
Busy(w, ns) == writer[w].at # "idle" /\ writer[w].ns = ns
WritersKeep ==
  /\ \A w \in Y!Writers :
       /\ writer[w].at # "idle" => writer[w].ns \in Y!Scopes /\ writer[w].text \in 1 .. said
       /\ writer[w].at # "found" => writer[w].hit = 0
  /\ \A ns \in Y!Scopes : heard[ns] <= said

\* In a scope where nothing met: one writer, which knows of the scope's row.
AloneIn(ns) ==
  /\ \A w, x \in Y!Writers : Busy(w, ns) /\ Busy(x, ns) => w = x
  /\ \A w \in Y!Writers : Busy(w, ns) =>
       /\ heard[ns] <= writer[w].text
       /\ writer[w].at = "found" =>
            IF Y!Keyed(ns) = {} THEN writer[w].hit = 0
            ELSE \E r \in Y!Keyed(ns) : r.id = writer[w].hit
  /\ IF heard[ns] = 0 THEN Y!Keyed(ns) = {}
     ELSE \E r \in Y!Keyed(ns) : Y!Keyed(ns) = {r} /\ r.text = heard[ns]

MemoryInv ==
  MemoryTyped /\ RowsAreTold /\ WritersKeep /\ \A ns \in Y!Scopes \ mixed : AloneIn(ns)

-----------------------------------------------------------------------------
LEMMA MemoryLibrary ==
  /\ \A S : Y!IsFiniteSet(S) <=> IsFiniteSet(S)
  /\ \A S : Y!Cardinality(S) = Cardinality(S)
<1>1. \A S : Y!IsFiniteSet(S) <=> IsFiniteSet(S)
  BY DEF IsFiniteSet, Y!IsFiniteSet
<1>2. \A S : Y!Cardinality(S) = Cardinality(S)
  BY DEF Cardinality, Y!Cardinality
<1> QED
  BY <1>1, <1>2

LEMMA MemoryParameters ==
  /\ IsFiniteSet(Y!Writers) /\ Cardinality(Y!Writers) \in Nat
  /\ Sizes \subseteq Nat /\ Sizes # {}
  /\ GroupLimit \in Nat /\ UserLimit \in Nat /\ MaxMemories \in Nat
<1>1. IsFiniteSet(Y!Writers)
  BY Memories, MemoryLibrary DEF Y!MemoryAssumption, Y!Writers
<1>2. Cardinality(Y!Writers) \in Nat
  BY <1>1, FS_CardinalityType
<1> QED
  BY <1>1, <1>2, Memories DEF Y!MemoryAssumption

\* Numbers have a least one.
LEMMA LeastNumber ==
  ASSUME NEW S, S # {}, \A x \in S : x \in Nat
  PROVE  Y!Min(S) \in S /\ \A x \in S : Y!Min(S) <= x
<1>1. PICK top \in S : TRUE
  OBVIOUS
<1> DEFINE low == {x \in S : x <= top}
           back == {top - x : x \in low}
<1>2. IsFiniteSet(0 .. top)
  <2>1. 0 \in Int /\ top \in Int
    OBVIOUS
  <2> QED
    BY <2>1, FS_Interval
<1>3. back \subseteq 0 .. top /\ back # {} /\ \A y \in back : y \in Int
  OBVIOUS
<1>4. IsFiniteSet(back)
  <2> HIDE DEF back
  <2> QED
    BY <1>2, <1>3, FS_Subset
<1>5. PICK m \in back : \A y \in back : y <= m
  <2> HIDE DEF back
  <2> QED
    BY <1>3, <1>4, Greatest
<1>6. PICK x \in low : m = top - x
  BY <1>5
<1>7. ASSUME NEW y \in S PROVE x <= y
  <2>1. CASE y \in low
    <3>1. top - y <= top - x
      BY <1>5, <1>6, <2>1
    <3> QED
      BY <3>1
  <2>2. CASE ~ (y <= top)
    BY <2>2
  <2> QED
    BY <2>1, <2>2
<1>8. \E z \in S : \A y \in S : z =< y
  BY <1>7
<1> QED
  BY <1>8 DEF Y!Min

\* What a function takes on over a finite set is no more than the set.
LEMMA ValuesAreNoMore ==
  ASSUME NEW S, IsFiniteSet(S), NEW f, f = [x \in S |-> f[x]]
  PROVE  /\ IsFiniteSet({f[x] : x \in S})
         /\ Cardinality({f[x] : x \in S}) <= Cardinality(S)
<1> DEFINE T == {f[x] : x \in S}
<1>1. f \in Surjection(S, T)
  <2>1. f \in [S -> T]
    OBVIOUS
  <2>2. \A t \in T : \E s \in S : f[s] = t
    OBVIOUS
  <2> QED
    BY <2>1, <2>2 DEF Surjection
<1> HIDE DEF T
<1>2. IsFiniteSet(T) /\ Cardinality(T) <= Cardinality(S)
  BY <1>1, FS_Surjection
<1> QED
  BY <1>2 DEF T

\* The database has an id left, one that nobody holds.
LEMMA AnIdIsLeft ==
  ASSUME MemoryInv, Cardinality(memories) < MaxMemories
  PROVE  /\ Y!NewId \in Nat \ {0}
         /\ \A r \in memories : r.id # Y!NewId
         /\ \A w \in Y!Writers : writer[w].hit # Y!NewId
<1> DEFINE ids == {r.id : r \in memories}
           hits == {writer[w].hit : w \in Y!Writers}
           top == MaxMemories + Cardinality(Y!Writers)
           free == (1 .. top) \ (ids \cup hits)
<1>1. IsFiniteSet(ids) /\ Cardinality(ids) <= Cardinality(memories)
  <2> DEFINE f == [r \in memories |-> r.id]
  <2>1. {f[r] : r \in memories} = ids
    OBVIOUS
  <2>2. f = [r \in memories |-> f[r]]
    OBVIOUS
  <2>3. IsFiniteSet(memories)
    BY DEF MemoryInv, MemoryTyped
  <2> HIDE DEF f, ids
  <2> QED
    BY <2>1, <2>2, <2>3, ValuesAreNoMore
<1>2. IsFiniteSet(hits) /\ Cardinality(hits) <= Cardinality(Y!Writers)
  <2> DEFINE f == [w \in Y!Writers |-> writer[w].hit]
  <2>1. {f[w] : w \in Y!Writers} = hits
    OBVIOUS
  <2>2. f = [w \in Y!Writers |-> f[w]]
    OBVIOUS
  <2> HIDE DEF f, hits
  <2> QED
    BY <2>1, <2>2, MemoryParameters, ValuesAreNoMore
<1>3. IsFiniteSet(ids \cup hits) /\ Cardinality(ids \cup hits) < top
  <2> HIDE DEF ids, hits
  <2>1. /\ IsFiniteSet(ids \cup hits)
        /\ Cardinality(ids \cup hits) = Cardinality(ids) + Cardinality(hits) - Cardinality(ids \cap hits)
    BY <1>1, <1>2, FS_Union
  <2>2. IsFiniteSet(ids \cap hits) /\ IsFiniteSet(memories)
    BY <1>1, FS_Subset DEF MemoryInv, MemoryTyped
  <2>3. /\ Cardinality(ids) \in Nat /\ Cardinality(hits) \in Nat /\ Cardinality(ids \cap hits) \in Nat
        /\ Cardinality(memories) \in Nat
    BY <1>1, <1>2, <2>2, FS_CardinalityType
  <2> QED
    BY <1>1, <1>2, <2>1, <2>3, MemoryParameters
<1>4. top \in Nat /\ Cardinality(1 .. top) = top
  <2>1. top \in Nat /\ 1 \in Int /\ top \in Int
    BY MemoryParameters
  <2> HIDE DEF top
  <2> QED
    BY <2>1, FS_Interval
<1>5. free # {}
  <2> SUFFICES ASSUME free = {} PROVE FALSE
    OBVIOUS
  <2>1. 1 .. top \in SUBSET (ids \cup hits)
    OBVIOUS
  <2> HIDE DEF ids, hits, top
  <2>2. Cardinality(1 .. top) <= Cardinality(ids \cup hits)
    BY <1>3, <2>1, FS_Subset
  <2>3. Cardinality(ids \cup hits) \in Nat
    BY <1>3, FS_CardinalityType
  <2> QED
    BY <1>3, <1>4, <2>2, <2>3
<1>6. \A x \in free : x \in Nat
  OBVIOUS
<1>7. Y!NewId = Y!Min(free)
  BY MemoryLibrary DEF Y!NewId
<1>8. Y!NewId \in free
  <2> HIDE DEF free
  <2> QED
    BY <1>5, <1>6, <1>7, LeastNumber
<1> QED
  BY <1>8, <1>4

\* A scope is a user's or a chat's.
LEMMA ScopesAre ==
  /\ \A u \in MemoryUsers : Y!UserScope(u) \in Y!Scopes
  /\ \A c \in MemoryChats : Y!GroupScope(c) \in Y!Scopes
  /\ Y!Global \notin Y!Scopes
  BY DEF Y!Scopes, Y!UserScope, Y!GroupScope, Y!Global

LEMMA MemoryStarts == Y!Init => MemoryInv
<1> SUFFICES ASSUME Y!Init PROVE MemoryInv
  OBVIOUS
<1>1. /\ memories = {} /\ said = 0 /\ clockNow = 0 /\ mixed = {}
      /\ writer = [w \in Y!Writers |-> Y!Idle] /\ heard = [ns \in Y!Scopes |-> 0]
  BY DEF Y!Init
<1>2. Y!Idle \in MemoryWriters /\ Y!Idle.at = "idle" /\ Y!Idle.hit = 0
  BY DEF Y!Idle, MemoryWriters
<1>3. MemoryTyped
  BY <1>1, <1>2, FS_EmptySet, MemoryParameters DEF MemoryTyped
<1>4. RowsAreTold /\ WritersKeep
  BY <1>1, <1>2 DEF RowsAreTold, WritersKeep
<1>5. \A ns \in Y!Scopes \ mixed : AloneIn(ns)
  BY <1>1, <1>2 DEF AloneIn, Busy, Y!Keyed
<1> QED
  BY <1>3, <1>4, <1>5 DEF MemoryInv

\* Messages and seconds come.
LEMMA MessagesCome == ASSUME MemoryInv, Y!Speak PROVE MemoryInv'
<1>1. said' = said + 1 /\ UNCHANGED <<memories, clockNow, writer, heard, mixed>>
  BY DEF Y!Speak
<1>2. MemoryTyped'
  BY <1>1 DEF MemoryInv, MemoryTyped
<1>3. RowsAreTold' /\ \A ns \in Y!Scopes \ mixed' : AloneIn(ns)'
  BY <1>1 DEF MemoryInv, RowsAreTold, AloneIn, Busy, Y!Keyed
<1>4. WritersKeep'
  <2>1. \A n \in Nat : n <= said => n <= said + 1
    BY DEF MemoryInv, MemoryTyped
  <2>2. \A n \in 1 .. said : n \in 1 .. said + 1
    BY DEF MemoryInv, MemoryTyped
  <2> QED
    BY <1>1, <2>1, <2>2 DEF MemoryInv, MemoryTyped, WritersKeep
<1> QED
  BY <1>2, <1>3, <1>4 DEF MemoryInv

LEMMA SecondsPass == ASSUME MemoryInv, Y!SecondPasses PROVE MemoryInv'
<1>1. clockNow' = clockNow + 1 /\ UNCHANGED <<memories, said, writer, heard, mixed>>
  BY DEF Y!SecondPasses
<1>2. MemoryTyped'
  BY <1>1 DEF MemoryInv, MemoryTyped
<1>3. RowsAreTold' /\ WritersKeep' /\ \A ns \in Y!Scopes \ mixed' : AloneIn(ns)'
  BY <1>1 DEF MemoryInv, RowsAreTold, WritersKeep, AloneIn, Busy, Y!Keyed
<1> QED
  BY <1>2, <1>3 DEF MemoryInv

\* A writer moves and the table does not.
LEMMA WriterMoves ==
  ASSUME MemoryInv, NEW w \in Y!Writers, NEW s \in MemoryWriters,
         writer' = [writer EXCEPT ![w] = s], UNCHANGED <<memories, said, clockNow, heard>>,
         mixed \subseteq mixed', mixed' \subseteq Y!Scopes,
         s.at # "idle" => s.ns \in Y!Scopes /\ s.text \in 1 .. said,
         s.at # "found" => s.hit = 0,
         s.at = "found" => \A r \in memories : r.id = s.hit => r.keyed /\ r.ns = s.ns,
         \A ns \in Y!Scopes \ mixed' : s.at # "idle" /\ s.ns = ns =>
           /\ \A x \in Y!Writers : Busy(x, ns) => x = w
           /\ heard[ns] <= s.text
           /\ s.at = "found" => IF Y!Keyed(ns) = {} THEN s.hit = 0
                                ELSE \E r \in Y!Keyed(ns) : r.id = s.hit
  PROVE  MemoryInv'
<1>1. writer'[w] = s /\ \A x \in Y!Writers : x # w => writer'[x] = writer[x]
  BY DEF MemoryInv, MemoryTyped
<1>2. MemoryTyped'
  BY DEF MemoryInv, MemoryTyped
<1>3. RowsAreTold'
  BY <1>1 DEF MemoryInv, RowsAreTold
<1>4. WritersKeep'
  BY <1>1 DEF MemoryInv, WritersKeep
<1>5. ASSUME NEW ns \in Y!Scopes \ mixed' PROVE AloneIn(ns)'
  <2>1. AloneIn(ns)
    BY <1>5 DEF MemoryInv
  <2>2. Y!Keyed(ns)' = Y!Keyed(ns)
    BY DEF Y!Keyed
  <2>3. \A x, y \in Y!Writers : Busy(x, ns)' /\ Busy(y, ns)' => x = y
    BY <1>1, <2>1 DEF AloneIn, Busy
  <2>4. ASSUME NEW x \in Y!Writers, Busy(x, ns)'
        PROVE  /\ heard'[ns] <= writer'[x].text
               /\ writer'[x].at = "found" =>
                    IF Y!Keyed(ns)' = {} THEN writer'[x].hit = 0
                    ELSE \E r \in Y!Keyed(ns)' : r.id = writer'[x].hit
    <3>1. CASE x = w
      BY <1>1, <2>2, <2>4, <3>1 DEF Busy
    <3>2. CASE x # w
      BY <1>1, <2>1, <2>2, <2>4, <3>2 DEF AloneIn, Busy
    <3> QED
      BY <3>1, <3>2
  <2>5. IF heard'[ns] = 0 THEN Y!Keyed(ns)' = {}
        ELSE \E r \in Y!Keyed(ns)' : Y!Keyed(ns)' = {r} /\ r.text = heard'[ns]
    BY <2>1, <2>2 DEF AloneIn
  <2> QED
    BY <2>3, <2>4, <2>5 DEF AloneIn
<1> QED
  BY <1>2, <1>3, <1>4, <1>5 DEF MemoryInv

LEMMA MemoryBegins ==
  ASSUME MemoryInv, NEW w \in Y!Writers, NEW ns \in Y!Scopes, Y!Begin(w, ns)
  PROVE  MemoryInv'
<1> DEFINE s == [Y!Idle EXCEPT !.at = "working", !.ns = ns, !.text = said]
<1>1. /\ writer[w].at = "idle" /\ said > 0 /\ writer' = [writer EXCEPT ![w] = s]
      /\ mixed' = IF \E x \in Y!Writers \ {w} : writer[x].at # "idle" /\ writer[x].ns = ns
                  THEN mixed \cup {ns} ELSE mixed
      /\ UNCHANGED <<memories, said, clockNow, heard>>
  BY DEF Y!Begin
<1>2. said \in Nat /\ mixed \subseteq Y!Scopes
  BY DEF MemoryInv, MemoryTyped
<1>3. /\ s \in MemoryWriters /\ s.at = "working" /\ s.ns = ns /\ s.text = said /\ s.hit = 0
  BY <1>2 DEF Y!Idle, MemoryWriters
<1> HIDE DEF s
<1>4. s.text \in 1 .. said
  BY <1>1, <1>2, <1>3
<1>5. ASSUME ns \notin mixed'
      PROVE  (\A x \in Y!Writers : Busy(x, ns) => x = w) /\ heard[ns] <= s.text
  BY <1>1, <1>3, <1>5 DEF MemoryInv, WritersKeep, Busy
<1>6. mixed \subseteq mixed' /\ mixed' \subseteq Y!Scopes
  BY <1>1, <1>2
<1>7. \A o \in Y!Scopes \ mixed' : s.at # "idle" /\ s.ns = o =>
         /\ \A x \in Y!Writers : Busy(x, o) => x = w
         /\ heard[o] <= s.text
         /\ s.at = "found" => IF Y!Keyed(o) = {} THEN s.hit = 0
                              ELSE \E r \in Y!Keyed(o) : r.id = s.hit
  BY <1>3, <1>5
<1>8. s.at # "found" => s.hit = 0
  BY <1>3
<1>9. s.at = "found" => \A r \in memories : r.id = s.hit => r.keyed /\ r.ns = s.ns
  BY <1>3
<1> QED
  BY <1>1, <1>3, <1>4, <1>6, <1>7, <1>8, <1>9, WriterMoves

LEMMA MemoryFails ==
  ASSUME MemoryInv, NEW w \in Y!Writers, Y!Fail(w)
  PROVE  MemoryInv'
<1>1. /\ writer' = [writer EXCEPT ![w] = Y!Idle]
      /\ UNCHANGED <<memories, said, clockNow, heard, mixed>>
  BY DEF Y!Fail
<1>2. Y!Idle \in MemoryWriters /\ Y!Idle.at = "idle" /\ Y!Idle.hit = 0
  BY DEF Y!Idle, MemoryWriters
<1>3. mixed \subseteq mixed' /\ mixed' \subseteq Y!Scopes
  BY <1>1 DEF MemoryInv, MemoryTyped
<1> QED
  BY <1>1, <1>2, <1>3, WriterMoves

LEMMA RowIsFound ==
  ASSUME MemoryInv, NEW w \in Y!Writers, Y!LookUp(w)
  PROVE  MemoryInv'
<1> DEFINE ns == writer[w].ns
<1>1. PICK hit \in IF Y!Keyed(ns) = {} THEN {0} ELSE {r.id : r \in Y!Keyed(ns)} :
        writer' = [writer EXCEPT ![w].at = "found", ![w].hit = hit]
  BY DEF Y!LookUp
<1>2. writer[w].at = "working" /\ UNCHANGED <<memories, said, clockNow, heard, mixed>>
  BY DEF Y!LookUp
<1> DEFINE s == [writer[w] EXCEPT !.at = "found", !.hit = hit]
<1>3. writer[w] \in MemoryWriters /\ ns \in Y!Scopes /\ writer[w].text \in 1 .. said
  BY <1>2 DEF MemoryInv, MemoryTyped, WritersKeep
<1>4. \A r \in memories : r.id \in Nat \ {0}
  BY DEF MemoryInv, MemoryTyped, MemoryRows
<1>5. /\ Y!Keyed(ns) = {} => hit = 0
      /\ Y!Keyed(ns) # {} => \E r \in Y!Keyed(ns) : r.id = hit
      /\ hit \in Nat
  <2>1. Y!Keyed(ns) \subseteq memories
    BY DEF Y!Keyed
  <2> HIDE DEF ns
  <2> QED
    BY <1>1, <1>4, <2>1
<1>6. writer' = [writer EXCEPT ![w] = s]
  BY <1>1, <1>3 DEF MemoryInv, MemoryTyped, MemoryWriters
<1>7. s \in MemoryWriters /\ s.at = "found" /\ s.ns = ns /\ s.text = writer[w].text /\ s.hit = hit
  BY <1>3, <1>5 DEF MemoryWriters
<1> HIDE DEF s
<1>8. ASSUME NEW r \in memories, r.id = hit PROVE r.keyed /\ r.ns = ns
  <2>1. PICK q \in Y!Keyed(ns) : q.id = hit
    BY <1>4, <1>5, <1>8
  <2>2. q = r
    BY <1>8, <2>1 DEF MemoryInv, RowsAreTold, Y!Keyed
  <2> QED
    BY <2>1, <2>2 DEF Y!Keyed
<1>9. ASSUME ns \notin mixed
      PROVE  (\A x \in Y!Writers : Busy(x, ns) => x = w) /\ heard[ns] <= s.text
  <2>1. AloneIn(ns) /\ Busy(w, ns)
    BY <1>2, <1>3, <1>9 DEF MemoryInv, Busy
  <2> QED
    BY <2>1, <1>7 DEF AloneIn
<1>10. mixed \subseteq mixed' /\ mixed' \subseteq Y!Scopes
  BY <1>2 DEF MemoryInv, MemoryTyped
<1>11. \A o \in Y!Scopes \ mixed' : s.at # "idle" /\ s.ns = o =>
         /\ \A x \in Y!Writers : Busy(x, o) => x = w
         /\ heard[o] <= s.text
         /\ s.at = "found" => IF Y!Keyed(o) = {} THEN s.hit = 0
                              ELSE \E r \in Y!Keyed(o) : r.id = s.hit
  BY <1>2, <1>5, <1>7, <1>9
<1>12. s.at # "idle" => s.ns \in Y!Scopes /\ s.text \in 1 .. said
  BY <1>3, <1>7
<1>13. s.at = "found" => \A r \in memories : r.id = s.hit => r.keyed /\ r.ns = s.ns
  BY <1>7, <1>8
<1>14. s.at # "found" => s.hit = 0
  BY <1>7
<1> HIDE DEF ns
<1> QED
  BY <1>2, <1>6, <1>7, <1>10, <1>11, <1>12, <1>13, <1>14, WriterMoves

\* Rows go: those that expired, or those of a scope.
LEMMA RowsGo ==
  ASSUME MemoryInv, NEW gone, gone \subseteq memories, Y!Delete(gone)
  PROVE  MemoryInv'
<1> DEFINE met == {writer[w].ns : w \in {x \in Y!Writers :
                     writer[x].at = "found" /\ writer[x].hit \in {r.id : r \in gone}}}
<1>1. /\ memories' = memories \ gone /\ mixed' = mixed \cup met
      /\ heard' = [ns \in Y!Scopes |-> IF gone \cap Y!Keyed(ns) # {} THEN 0 ELSE heard[ns]]
      /\ UNCHANGED <<said, clockNow, writer>>
  BY DEF Y!Delete
<1>2. met \subseteq Y!Scopes
  BY DEF MemoryInv, WritersKeep
<1>3. MemoryTyped'
  <2>1. IsFiniteSet(memories \ gone) /\ Cardinality(memories \ gone) <= Cardinality(memories)
    BY FS_Subset DEF MemoryInv, MemoryTyped
  <2>2. IsFiniteSet(memories) /\ Cardinality(memories) <= MaxMemories
    BY DEF MemoryInv, MemoryTyped
  <2>3. Cardinality(memories \ gone) \in Nat /\ Cardinality(memories) \in Nat /\ MaxMemories \in Nat
    BY <2>1, <2>2, FS_CardinalityType, MemoryParameters
  <2>4. Cardinality(memories \ gone) <= MaxMemories
    BY <2>1, <2>2, <2>3
  <2>5. heard' \in [Y!Scopes -> Nat]
    BY <1>1 DEF MemoryInv, MemoryTyped
  <2> HIDE DEF met
  <2> QED
    BY <1>1, <1>2, <2>1, <2>4, <2>5 DEF MemoryInv, MemoryTyped
<1>4. RowsAreTold'
  BY <1>1 DEF MemoryInv, RowsAreTold
<1>5. WritersKeep'
  <2>1. \A ns \in Y!Scopes : heard'[ns] <= said
    BY <1>1 DEF MemoryInv, MemoryTyped, WritersKeep
  <2> QED
    BY <1>1, <2>1 DEF MemoryInv, WritersKeep
<1>6. ASSUME NEW ns \in Y!Scopes \ mixed' PROVE AloneIn(ns)'
  <2> DEFINE Rows == Y!Keyed(ns)
  <2>1. AloneIn(ns) /\ ns \notin met
    BY <1>1, <1>6 DEF MemoryInv
  <2>2. Y!Keyed(ns)' = Rows \ gone
    BY <1>1 DEF Y!Keyed
  <2>3. heard'[ns] = IF gone \cap Rows # {} THEN 0 ELSE heard[ns]
    BY <1>1
  <2>4. heard[ns] \in Nat
    BY DEF MemoryInv, MemoryTyped
  <2>5. ASSUME NEW w \in Y!Writers, Busy(w, ns), writer[w].at = "found", Rows # {}
        PROVE  \E r \in Rows \ gone : r.id = writer[w].hit
    <3>1. PICK r \in Rows : r.id = writer[w].hit
      BY <2>1, <2>5 DEF AloneIn
    <3>2. writer[w].hit \notin {q.id : q \in gone}
      BY <2>1, <2>5 DEF Busy
    <3> QED
      BY <3>1, <3>2
  <2>6. ASSUME NEW w \in Y!Writers, Busy(w, ns)'
        PROVE  /\ heard'[ns] <= writer'[w].text
               /\ writer'[w].at = "found" =>
                    IF Y!Keyed(ns)' = {} THEN writer'[w].hit = 0
                    ELSE \E r \in Y!Keyed(ns)' : r.id = writer'[w].hit
    <3>1. Busy(w, ns) /\ writer[w].text \in Nat
      BY <1>1, <2>6 DEF Busy, MemoryInv, MemoryTyped, MemoryWriters
    <3>2. heard[ns] <= writer[w].text
      BY <2>1, <3>1 DEF AloneIn
    <3>3. heard'[ns] <= writer[w].text
      BY <2>3, <3>1, <3>2
    <3>4. writer[w].at = "found" /\ Rows = {} => writer[w].hit = 0
      BY <2>1, <3>1 DEF AloneIn
    <3> HIDE DEF Rows
    <3> QED
      BY <1>1, <2>2, <2>5, <3>1, <3>3, <3>4
  <2>7. IF heard'[ns] = 0 THEN Y!Keyed(ns)' = {}
        ELSE \E r \in Y!Keyed(ns)' : Y!Keyed(ns)' = {r} /\ r.text = heard'[ns]
    <3>1. CASE gone \cap Rows # {}
      <4>1. heard[ns] # 0 /\ \E r \in Rows : Rows = {r}
        BY <2>1, <3>1 DEF AloneIn
      <4> HIDE DEF Rows
      <4> QED
        BY <4>1, <2>2, <2>3, <3>1
    <3>2. CASE gone \cap Rows = {}
      <4>1. Y!Keyed(ns)' = Rows
        BY <2>2, <3>2
      <4> QED
        BY <2>1, <2>3, <3>2, <4>1 DEF AloneIn
    <3> QED
      BY <3>1, <3>2
  <2>8. \A w, x \in Y!Writers : Busy(w, ns)' /\ Busy(x, ns)' => w = x
    BY <1>1, <2>1 DEF AloneIn, Busy
  <2> QED
    BY <2>6, <2>7, <2>8 DEF AloneIn
<1> QED
  BY <1>3, <1>4, <1>5, <1>6 DEF MemoryInv

\* A row without a key comes.
LEMMA RowIsAdded ==
  ASSUME MemoryInv, NEW u \in MemoryUsers, NEW size \in Nat,
         NEW v \in {"private", "admin_only"}, Y!Add(u, size, v)
  PROVE  MemoryInv'
<1> DEFINE new == [id |-> Y!NewId, ns |-> Y!UserScope(u), keyed |-> FALSE, text |-> 0,
                   size |-> size, visibility |-> v, at |-> clockNow, expires |-> 0]
<1>1. /\ Cardinality(memories) < MaxMemories /\ memories' = memories \cup {new}
      /\ UNCHANGED <<said, clockNow, writer, heard, mixed>>
  BY MemoryLibrary DEF Y!Add
<1>2. /\ Y!NewId \in Nat \ {0} /\ \A r \in memories : r.id # Y!NewId
      /\ \A w \in Y!Writers : writer[w].hit # Y!NewId
  BY <1>1, AnIdIsLeft
<1>3. new \in MemoryRows /\ new.id = Y!NewId /\ ~ new.keyed
  BY <1>2, ScopesAre DEF MemoryRows, MemoryInv, MemoryTyped
<1> HIDE DEF new
<1>4. MemoryTyped'
  <2>1. new \notin memories
    BY <1>2, <1>3
  <2>2. IsFiniteSet(memories)
    BY DEF MemoryInv, MemoryTyped
  <2>3. IsFiniteSet(memories') /\ Cardinality(memories') = Cardinality(memories) + 1
    BY <1>1, <2>1, <2>2, FS_AddElement
  <2>4. Cardinality(memories) \in Nat
    BY <2>2, FS_CardinalityType
  <2>5. Cardinality(memories') <= MaxMemories
    BY <1>1, <2>3, <2>4, MemoryParameters
  <2> QED
    BY <1>1, <1>3, <2>3, <2>5 DEF MemoryInv, MemoryTyped
<1>5. RowsAreTold'
  BY <1>1, <1>2, <1>3 DEF MemoryInv, RowsAreTold
<1>6. WritersKeep'
  BY <1>1 DEF MemoryInv, WritersKeep
<1>7. ASSUME NEW ns \in Y!Scopes \ mixed' PROVE AloneIn(ns)'
  <2>1. Y!Keyed(ns)' = Y!Keyed(ns)
    BY <1>1, <1>3 DEF Y!Keyed
  <2>2. AloneIn(ns)
    BY <1>1, <1>7 DEF MemoryInv
  <2> QED
    BY <1>1, <2>1, <2>2 DEF AloneIn, Busy
<1> QED
  BY <1>4, <1>5, <1>6, <1>7 DEF MemoryInv

\* What a write does to the table: one row is new, the others are as they were.
LEMMA RowIsWritten ==
  ASSUME MemoryInv, NEW w \in Y!Writers, writer[w].at = "found",
         writer[w].hit = 0 => Cardinality(memories) < MaxMemories,
         NEW size \in Nat, NEW expires \in Nat, memories' = Y!Written(w, size, expires)
  PROVE  \E new \in MemoryRows :
           /\ new.keyed /\ new.ns = writer[w].ns /\ new.text = writer[w].text
           /\ new.visibility # "admin_only"
           /\ \A r \in memories : r.id = new.id => r.keyed /\ r.ns = new.ns
           /\ \A r \in memories' : r = new \/ (r \in memories /\ r.id # new.id)
           /\ \A r \in memories : r.id # new.id => r \in memories'
           /\ writer[w].hit = 0 => new \in memories' /\ \A x \in Y!Writers : writer[x].hit # new.id
           /\ writer[w].hit # 0 =>
                /\ new.id = writer[w].hit
                /\ new \in memories' <=> \E r \in memories : r.id = new.id
           /\ IsFiniteSet(memories') /\ Cardinality(memories') <= MaxMemories
<1> DEFINE hit == writer[w].hit
           id == IF hit = 0 THEN Y!NewId ELSE hit
           new == Y!Row(id, w, size, expires)
<1>1. /\ writer[w].ns \in Y!Scopes /\ writer[w].text \in Nat /\ hit \in Nat /\ clockNow \in Nat
  BY DEF MemoryInv, MemoryTyped, MemoryWriters, WritersKeep
<1>2. hit = 0 => /\ Y!NewId \in Nat \ {0} /\ \A r \in memories : r.id # Y!NewId
                 /\ \A x \in Y!Writers : writer[x].hit # Y!NewId
  BY AnIdIsLeft
<1>3. id \in Nat \ {0}
  BY <1>1, <1>2
<1>4. /\ new \in MemoryRows /\ new.id = id /\ new.keyed /\ new.ns = writer[w].ns
      /\ new.text = writer[w].text /\ new.visibility # "admin_only"
  <2> HIDE DEF id
  <2> QED
    BY <1>1, <1>3 DEF Y!Row, MemoryRows
<1>5. memories' = IF hit = 0 THEN memories \cup {new}
                  ELSE {IF r.id = hit THEN new ELSE r : r \in memories}
  BY DEF Y!Written
<1>6. IsFiniteSet(memories) /\ Cardinality(memories) <= MaxMemories /\ MaxMemories \in Nat
      /\ Cardinality(memories) \in Nat
  <2>1. IsFiniteSet(memories) /\ Cardinality(memories) <= MaxMemories
    BY DEF MemoryInv, MemoryTyped
  <2> QED
    BY <2>1, FS_CardinalityType, MemoryParameters
<1>7. \A r \in memories : hit # 0 /\ r.id = hit => r.keyed /\ r.ns = writer[w].ns
  BY DEF MemoryInv, RowsAreTold
<1>8. CASE hit = 0
  <2>1. id = Y!NewId
    BY <1>8
  <2> HIDE DEF id, new
  <2>2. memories' = memories \cup {new} /\ new.id = Y!NewId
    BY <1>4, <1>5, <1>8, <2>1
  <2>3. new \notin memories
    BY <1>2, <1>8, <2>2
  <2>4. IsFiniteSet(memories') /\ Cardinality(memories') = Cardinality(memories) + 1
    BY <1>6, <2>2, <2>3, FS_AddElement
  <2>5. Cardinality(memories') <= MaxMemories
    BY <1>6, <1>8, <2>4
  <2> HIDE DEF hit
  <2>6. \A x \in Y!Writers : writer[x].hit # new.id
    BY <1>2, <1>8, <2>2
  <2>7. hit = writer[w].hit
    BY DEF hit
  <2> QED
    BY <1>2, <1>4, <1>8, <2>2, <2>4, <2>5, <2>6, <2>7
<1>9. CASE hit # 0
  <2>1. id = hit
    BY <1>9
  <2> HIDE DEF id, new
  <2>2. memories' = {IF r.id = hit THEN new ELSE r : r \in memories} /\ new.id = hit
    BY <1>4, <1>5, <1>9, <2>1
  <2>3. IsFiniteSet(memories') /\ Cardinality(memories') <= Cardinality(memories)
    <3> DEFINE f == [r \in memories |-> IF r.id = hit THEN new ELSE r]
    <3>1. {f[r] : r \in memories} = memories'
      BY <2>2
    <3>2. f = [r \in memories |-> f[r]]
      OBVIOUS
    <3> HIDE DEF f
    <3> QED
      BY <1>6, <3>1, <3>2, ValuesAreNoMore
  <2>4. Cardinality(memories') <= MaxMemories
    <3>1. Cardinality(memories') \in Nat
      BY <2>3, FS_CardinalityType
    <3> QED
      BY <1>6, <2>3, <3>1
  <2>5. \A r \in memories' : r = new \/ (r \in memories /\ r.id # new.id)
    BY <2>2
  <2>6. \A r \in memories : r.id # new.id => r \in memories'
    BY <2>2
  <2>7. new \in memories' <=> \E r \in memories : r.id = new.id
    BY <2>2
  <2>8. \A r \in memories : r.id = new.id => r.keyed /\ r.ns = new.ns
    BY <1>4, <1>7, <1>9, <2>2
  <2> QED
    BY <1>4, <1>9, <2>2, <2>3, <2>4, <2>5, <2>6, <2>7, <2>8 DEF hit
<1> QED
  BY <1>8, <1>9

LEMMA MemoryWrites ==
  ASSUME MemoryInv, NEW w \in Y!Writers, Y!Write(w)
  PROVE  MemoryInv'
<1> DEFINE ns == writer[w].ns
           text == writer[w].text
<1>1. /\ writer[w].at = "found" /\ writer' = [writer EXCEPT ![w] = Y!Idle]
      /\ heard' = [heard EXCEPT ![ns] = Y!Max({heard[ns], text})]
      /\ UNCHANGED <<said, clockNow, mixed>>
      /\ writer[w].hit = 0 => Cardinality(memories) < MaxMemories
  BY MemoryLibrary DEF Y!Write
<1>2. PICK size \in Nat, expires \in Nat : memories' = Y!Written(w, size, expires)
  <2>1. PICK size \in Y!Lengths(w), expires \in Y!Expiries(w) : memories' = Y!Written(w, size, expires)
    BY DEF Y!Write
  <2>2. size \in Nat
    BY MemoryParameters DEF Y!Lengths
  <2>3. expires \in Nat
    BY DEF Y!Expiries, MemoryInv, MemoryTyped
  <2> QED
    BY <2>1, <2>2, <2>3
<1>3. PICK new \in MemoryRows :
        /\ new.keyed /\ new.ns = ns /\ new.text = text /\ new.visibility # "admin_only"
        /\ \A r \in memories : r.id = new.id => r.keyed /\ r.ns = new.ns
        /\ \A r \in memories' : r = new \/ (r \in memories /\ r.id # new.id)
        /\ \A r \in memories : r.id # new.id => r \in memories'
        /\ writer[w].hit = 0 => new \in memories' /\ \A x \in Y!Writers : writer[x].hit # new.id
        /\ writer[w].hit # 0 =>
             /\ new.id = writer[w].hit
             /\ new \in memories' <=> \E r \in memories : r.id = new.id
        /\ IsFiniteSet(memories') /\ Cardinality(memories') <= MaxMemories
  BY <1>1, <1>2, RowIsWritten
<1>4. ns \in Y!Scopes /\ text \in 1 .. said /\ heard[ns] \in Nat /\ said \in Nat
  BY <1>1 DEF MemoryInv, MemoryTyped, WritersKeep
<1> HIDE DEF ns, text
<1>5. LET m == Y!Max({heard[ns], text}) IN
        m \in Nat /\ m <= said /\ (heard[ns] <= text => m = text) /\ m >= text
  <2>1. \E x \in {heard[ns], text} : \A y \in {heard[ns], text} : x >= y
    BY <1>4
  <2>2. /\ Y!Max({heard[ns], text}) \in {heard[ns], text}
        /\ \A y \in {heard[ns], text} : Y!Max({heard[ns], text}) >= y
    BY <2>1 DEF Y!Max
  <2>3. heard[ns] <= said
    BY <1>4 DEF MemoryInv, WritersKeep
  <2> QED
    BY <1>4, <2>2, <2>3
<1>6. /\ writer'[w] = Y!Idle /\ \A x \in Y!Writers : x # w => writer'[x] = writer[x]
      /\ Y!Idle \in MemoryWriters /\ Y!Idle.at = "idle" /\ Y!Idle.hit = 0
  BY <1>1 DEF MemoryInv, MemoryTyped, Y!Idle, MemoryWriters
<1>7. MemoryTyped'
  <2>1. memories' \subseteq MemoryRows
    BY <1>3 DEF MemoryInv, MemoryTyped
  <2>2. heard' \in [Y!Scopes -> Nat]
    BY <1>1, <1>5 DEF MemoryInv, MemoryTyped
  <2>3. writer' \in [Y!Writers -> MemoryWriters]
    BY <1>1, <1>6 DEF MemoryInv, MemoryTyped
  <2> QED
    BY <1>1, <1>3, <2>1, <2>2, <2>3 DEF MemoryInv, MemoryTyped
<1>8. RowsAreTold'
  <2>1. \A r, q \in memories' : r.id = q.id => r = q
    BY <1>3 DEF MemoryInv, RowsAreTold
  <2>2. \A r \in memories' : r.keyed => r.visibility # "admin_only"
    BY <1>3 DEF MemoryInv, RowsAreTold
  <2>3. ASSUME NEW x \in Y!Writers, NEW r \in memories', writer'[x].at = "found",
               r.id = writer'[x].hit
        PROVE  r.keyed /\ r.ns = writer'[x].ns
    <3>1. x # w /\ writer'[x] = writer[x]
      BY <1>6, <2>3
    <3>2. CASE r = new
      <4>1. writer[w].hit # 0
        BY <1>3, <2>3, <3>1, <3>2
      <4>2. PICK q \in memories : q.id = new.id
        BY <1>3, <3>2, <4>1
      <4>3. q.ns = writer[x].ns
        BY <2>3, <3>1, <3>2, <4>2 DEF MemoryInv, RowsAreTold
      <4> QED
        BY <1>3, <3>1, <3>2, <4>2, <4>3
    <3>3. CASE r \in memories
      BY <2>3, <3>1, <3>3 DEF MemoryInv, RowsAreTold
    <3> QED
      BY <1>3, <3>2, <3>3
  <2> QED
    BY <2>1, <2>2, <2>3 DEF RowsAreTold
<1>9. WritersKeep'
  <2>1. \A o \in Y!Scopes : heard'[o] <= said
    BY <1>1, <1>4, <1>5 DEF MemoryInv, MemoryTyped, WritersKeep
  <2> QED
    BY <1>1, <1>6, <2>1 DEF MemoryInv, WritersKeep
<1>10. ASSUME NEW o \in Y!Scopes \ mixed' PROVE AloneIn(o)'
  <2>1. AloneIn(o)
    BY <1>1, <1>10 DEF MemoryInv
  <2>2. \A x \in Y!Writers : Busy(x, o)' => x # w /\ Busy(x, o) /\ writer'[x] = writer[x]
    BY <1>6 DEF Busy
  <2>3. \A x, y \in Y!Writers : Busy(x, o)' /\ Busy(y, o)' => x = y
    BY <2>1, <2>2 DEF AloneIn
  <2>4. CASE o # ns
    <3>1. Y!Keyed(o)' = Y!Keyed(o)
      BY <1>3, <2>4 DEF Y!Keyed
    <3>2. heard'[o] = heard[o]
      BY <1>1, <2>4 DEF MemoryInv, MemoryTyped
    <3> QED
      BY <2>1, <2>2, <2>3, <3>1, <3>2 DEF AloneIn
  <2>5. CASE o = ns
    <3>1. Busy(w, o)
      BY <1>1, <2>5 DEF Busy, ns
    <3>2. \A x \in Y!Writers : ~ Busy(x, o)'
      BY <2>1, <2>2, <3>1 DEF AloneIn
    <3>3. heard[o] <= text
      BY <2>1, <3>1 DEF AloneIn, text
    <3>4. heard'[o] = text /\ text # 0
      BY <1>1, <1>4, <1>5, <2>5, <3>3 DEF MemoryInv, MemoryTyped
    <3>5. Y!Keyed(o)' = {new}
      <4>1. CASE Y!Keyed(o) = {}
        <5>1. writer[w].hit = 0
          BY <1>1, <2>1, <3>1, <4>1 DEF AloneIn
        <5> QED
          BY <1>3, <2>5, <4>1, <5>1 DEF Y!Keyed
      <4>2. CASE Y!Keyed(o) # {}
        <5>1. PICK r \in Y!Keyed(o) : r.id = writer[w].hit
          BY <1>1, <2>1, <3>1, <4>2 DEF AloneIn
        <5>2. Y!Keyed(o) = {r}
          BY <2>1, <4>2, <5>1 DEF AloneIn
        <5>3. r \in memories /\ r.id # 0
          BY <5>1 DEF Y!Keyed, MemoryInv, MemoryTyped, MemoryRows
        <5>4. new.id = r.id /\ new \in memories'
          BY <1>3, <5>1, <5>3
        <5>5. ASSUME NEW q \in Y!Keyed(o)' PROVE q = new
          <6>1. q \in memories' /\ q.ns = o /\ q.keyed
            BY DEF Y!Keyed
          <6>2. q # new => q \in Y!Keyed(o) /\ q.id # new.id
            BY <1>3, <6>1 DEF Y!Keyed
          <6> QED
            BY <5>2, <5>4, <6>2
        <5>6. new \in Y!Keyed(o)'
          BY <1>3, <2>5, <5>4 DEF Y!Keyed
        <5> QED
          BY <5>5, <5>6
      <4> QED
        BY <4>1, <4>2
    <3> QED
      BY <1>3, <2>3, <3>2, <3>4, <3>5 DEF AloneIn
  <2> QED
    BY <2>4, <2>5
<1> QED
  BY <1>7, <1>8, <1>9, <1>10 DEF MemoryInv

LEMMA MemoryStep == MemoryInv /\ [Y!Next]_Y!memoryVars => MemoryInv'
<1> SUFFICES ASSUME MemoryInv, [Y!Next]_Y!memoryVars PROVE MemoryInv'
  OBVIOUS
<1>1. CASE UNCHANGED Y!memoryVars
  BY <1>1 DEF Y!memoryVars, MemoryInv, MemoryTyped, RowsAreTold, WritersKeep, AloneIn, Busy, Y!Keyed
<1>2. CASE Y!Next
  <2>1. CASE Y!Purge
    BY <2>1, RowsGo DEF Y!Purge
  <2>2. ASSUME NEW w \in Y!Writers, NEW ns \in Y!Scopes, Y!Begin(w, ns) PROVE MemoryInv'
    BY <2>2, MemoryBegins
  <2>3. ASSUME NEW w \in Summaries \cup Operators, Y!Summarize(w) PROVE MemoryInv'
    BY <2>2, <2>3, ScopesAre DEF Y!Summarize, Y!Writers
  <2>4. ASSUME NEW w \in Aggregators, Y!Aggregate(w) PROVE MemoryInv'
    BY <2>2, <2>4, ScopesAre DEF Y!Aggregate, Y!Writers
  <2>5. ASSUME NEW w \in Y!Writers, Y!Fail(w) \/ Y!LookUp(w) \/ Y!Write(w) PROVE MemoryInv'
    BY <2>5, MemoryFails, RowIsFound, MemoryWrites
  <2>6. ASSUME NEW ns \in Y!Scopes, Y!Clear(ns) PROVE MemoryInv'
    BY <2>6, RowsGo DEF Y!Clear
  <2>7. ASSUME NEW u \in MemoryUsers, NEW v \in {"private", "admin_only"}, Y!Add(u, Y!Min(Sizes), v)
        PROVE  MemoryInv'
    <3>1. Y!Min(Sizes) \in Nat
      BY MemoryParameters, LeastNumber
    <3> QED
      BY <2>7, <3>1, RowIsAdded
  <2> QED
    BY <1>2, <2>1, <2>3, <2>4, <2>5, <2>6, <2>7, MessagesCome, SecondsPass DEF Y!Next
<1> QED
  BY <1>1, <1>2

-----------------------------------------------------------------------------
\* A prompt is packed row by row, by a fold along the order: a function defined by
\* recursion on the sets of places whose rows were seen, the last place first.  That
\* there is one is shown by a smallest set without.
Top(s) == Y!Max(s)
NothingTaken == [user |-> 0, group |-> 0, rows |-> {}]
Packs(it, order, c, u, S) ==
  it = [s \in SUBSET S |->
          IF s = {} THEN NothingTaken ELSE Y!Take(c, u, it[s \ {Top(s)}], order[Top(s)])]
Packer(order, c, u, S) == CHOOSE it : Packs(it, order, c, u, S)

LEMMA PromptIsPacked ==
  \A order, c, u : Y!Injected(order, c, u) = Packer(order, c, u, DOMAIN order)[DOMAIN order].rows
  BY DEF Y!Injected, Y!FoldLeft, Y!MapThenFoldSet, Packer, Packs, Top, NothingTaken

LEMMA TopIn ==
  ASSUME NEW s, IsFiniteSet(s), s # {}, \A x \in s : x \in Int
  PROVE  Top(s) \in s /\ \A x \in s : x <= Top(s)
<1>1. PICK m \in s : \A n \in s : n <= m
  BY Greatest
<1>2. \E x \in s : \A y \in s : x >= y
  BY <1>1
<1>3. Top(s) \in s /\ \A y \in s : Top(s) >= y
  BY <1>2 DEF Top, Y!Max
<1> QED
  BY <1>3

LEMMA PackersAgree ==
  ASSUME NEW order, NEW c, NEW u, NEW T, IsFiniteSet(T), NEW Piece \in SUBSET T,
         \A s \in SUBSET T : s # {} => Top(s) \in s,
         NEW g, Packs(g, order, c, u, T), NEW h, Packs(h, order, c, u, Piece)
  PROVE  \A s \in SUBSET Piece : g[s] = h[s]
<1> DEFINE Differ == {s \in SUBSET Piece : g[s] # h[s]}
<1> SUFFICES ASSUME Differ # {} PROVE FALSE
  OBVIOUS
<1>0. IsFiniteSet(Piece)
  BY FS_Subset
<1>1. PICK s \in Differ : \A r \in Differ : r \subseteq s => r = s
  <2>1. Differ \in SUBSET SUBSET Piece
    OBVIOUS
  <2> HIDE DEF Differ
  <2> QED
    BY <1>0, <2>1, Smallest
<1>2. s # {}
  BY <1>1 DEF Packs
<1>3. Top(s) \in s
  BY <1>1, <1>2
<1>4. s \ {Top(s)} \notin Differ
  BY <1>1, <1>3
<1>5. g[s \ {Top(s)}] = h[s \ {Top(s)}]
  BY <1>4, <1>1
<1>6. g[s] = Y!Take(c, u, g[s \ {Top(s)}], order[Top(s)])
  <2>1. s \in SUBSET T
    BY <1>1
  <2> HIDE DEF Differ
  <2> QED
    BY <1>2, <2>1 DEF Packs
<1>7. h[s] = Y!Take(c, u, h[s \ {Top(s)}], order[Top(s)])
  BY <1>1, <1>2 DEF Packs
<1> QED
  BY <1>1, <1>5, <1>6, <1>7

LEMMA PackerExists ==
  ASSUME NEW order, NEW c, NEW u, NEW S, IsFiniteSet(S),
         \A s \in SUBSET S : s # {} => Top(s) \in s
  PROVE  Packs(Packer(order, c, u, S), order, c, u, S)
<1> DEFINE Pack(T) == Packer(order, c, u, T)
           Good(T) == Packs(Packer(order, c, u, T), order, c, u, T)
           Without == {T \in SUBSET S : ~ Good(T)}
<1>1. SUFFICES ASSUME Without # {} PROVE FALSE
  OBVIOUS
<1>2. PICK T \in Without : \A Piece \in Without : Piece \subseteq T => Piece = T
  <2>1. Without \in SUBSET SUBSET S
    OBVIOUS
  <2> HIDE DEF Without
  <2> QED
    BY <1>1, <2>1, Smallest
<1>3. \A Piece \in SUBSET T : Piece # T => Good(Piece)
  BY <1>2
<1> DEFINE Before(s) == s \ {Top(s)}
           Value(s) == IF s = {} THEN NothingTaken
                       ELSE Y!Take(c, u, Pack(Before(s))[Before(s)], order[Top(s)])
           all == [s \in SUBSET T |-> Value(s)]
<1>4. ASSUME NEW s \in SUBSET T, s # {}
      PROVE  all[Before(s)] = Pack(Before(s))[Before(s)]
  <2> DEFINE r == Before(s)
             p == Before(r)
  <2>1. r # T /\ r \in SUBSET T
    BY <1>4, <1>2
  <2>2. Packs(Pack(r), order, c, u, r)
    BY <2>1, <1>3
  <2>3. CASE r = {}
    <3>1. Pack(r)[r] = NothingTaken
      BY <2>2, <2>3 DEF Packs
    <3> QED
      BY <3>1, <2>3
  <2>4. CASE r # {}
    <3>1. Pack(r)[r] = Y!Take(c, u, Pack(r)[p], order[Top(r)])
      BY <2>2, <2>4 DEF Packs
    <3>2. p # T /\ p \in SUBSET T /\ p \in SUBSET r
      BY <2>1
    <3>3. Packs(Pack(p), order, c, u, p)
      BY <3>2, <1>3
    <3>4. IsFiniteSet(r)
      BY FS_Subset, <2>1, <1>2
    <3>5. Pack(r)[p] = Pack(p)[p]
      <4>1. \A t \in SUBSET r : t # {} => Top(t) \in t
        BY <2>1, <1>2
      <4>2. p \in SUBSET p
        OBVIOUS
      <4> HIDE DEF r, p, Pack
      <4> QED
        BY <3>2, <3>3, <3>4, <2>2, <4>1, <4>2, PackersAgree
    <3>6. all[r] = Y!Take(c, u, Pack(p)[p], order[Top(r)])
      BY <2>1, <2>4
    <3> QED
      BY <3>1, <3>5, <3>6
  <2> QED
    BY <2>3, <2>4
<1>5. Packs(all, order, c, u, T)
  <2>1. \A s \in SUBSET T :
          all[s] = IF s = {} THEN NothingTaken ELSE Y!Take(c, u, all[s \ {Top(s)}], order[Top(s)])
    BY <1>4
  <2> HIDE DEF all
  <2>2. all = [s \in SUBSET T |-> all[s]]
    BY DEF all
  <2> QED
    BY <2>1, <2>2 DEF Packs
<1>6. Good(T)
  BY <1>5 DEF Packer
<1> QED
  BY <1>2, <1>6

\* Row by row.
LEMMA PackedRowByRow ==
  ASSUME NEW order, NEW c, NEW u, NEW n \in Nat, DOMAIN order = 1 .. n
  PROVE  \E g : /\ g[0] = NothingTaken
                /\ \A k \in 1 .. n : g[k] = Y!Take(c, u, g[k - 1], order[k])
                /\ Y!Injected(order, c, u) = g[n].rows
<1> DEFINE S == 1 .. n
           it == Packer(order, c, u, S)
           g == [k \in 0 .. n |-> it[1 .. k]]
<1>1. IsFiniteSet(S)
  <2>1. 1 \in Int /\ n \in Int
    OBVIOUS
  <2> QED
    BY <2>1, FS_Interval
<1>2. ASSUME NEW s \in SUBSET S, s # {} PROVE Top(s) \in s /\ \A x \in s : x <= Top(s)
  <2>1. IsFiniteSet(s)
    BY <1>1, FS_Subset
  <2>2. \A x \in s : x \in Int
    OBVIOUS
  <2> QED
    BY <1>2, <2>1, <2>2, TopIn
<1>3. Packs(it, order, c, u, S)
  <2> HIDE DEF S
  <2> QED
    BY <1>1, <1>2, PackerExists
<1> HIDE DEF it
<1>4. g[0] = NothingTaken
  <2>1. 1 .. 0 = {} /\ {} \in SUBSET S
    OBVIOUS
  <2>2. it[{}] = NothingTaken
    BY <1>3, <2>1 DEF Packs
  <2> QED
    BY <2>1, <2>2
<1>5. ASSUME NEW k \in 1 .. n PROVE g[k] = Y!Take(c, u, g[k - 1], order[k])
  <2> DEFINE s == 1 .. k
  <2>1. s \in SUBSET S /\ s # {} /\ k \in s /\ \A x \in s : x <= k /\ x \in Int
    OBVIOUS
  <2>2. Top(s) = k
    <3>1. Top(s) \in s /\ k <= Top(s)
      BY <1>2, <2>1
    <3> QED
      BY <2>1, <3>1
  <2>3. s \ {k} = 1 .. k - 1
    OBVIOUS
  <2>4. it[s] = Y!Take(c, u, it[s \ {Top(s)}], order[Top(s)])
    BY <1>3, <2>1 DEF Packs
  <2>5. g[k] = it[s] /\ g[k - 1] = it[1 .. k - 1]
    OBVIOUS
  <2> HIDE DEF g, s
  <2>6. it[s] = Y!Take(c, u, it[1 .. k - 1], order[k])
    BY <2>2, <2>3, <2>4
  <2> QED
    BY <2>5, <2>6
<1>6. Y!Injected(order, c, u) = g[n].rows
  BY PromptIsPacked DEF it
<1> HIDE DEF g
<1> QED
  BY <1>4, <1>5, <1>6

\* A row of the user's that fits, before which there is none of the user's, is taken
\* and stays.
LEMMA FirstOwnRowIsTaken ==
  ASSUME NEW c, NEW u, NEW n \in Nat, NEW order \in [1 .. n -> MemoryRows],
         NEW g, g[0] = NothingTaken,
         \A k \in 1 .. n : g[k] = Y!Take(c, u, g[k - 1], order[k]),
         NEW j \in 1 .. n, order[j].ns \in Y!OwnScopes(c, u), order[j].size <= UserLimit,
         \A i \in 1 .. n : i < j => order[i].ns \notin Y!OwnScopes(c, u)
  PROVE  order[j] \in g[n].rows
<1> DEFINE Takings == [user : Nat, group : Nat, rows : SUBSET MemoryRows]
           Good(k) == /\ g[k] \in Takings
                      /\ k < j => g[k].user = 0
                      /\ k >= j => order[j] \in g[k].rows
           Bad == {k \in 0 .. n : ~ Good(k)}
<1>1. Good(0)
  BY DEF NothingTaken
<1>2. ASSUME NEW k \in 1 .. n, Good(k - 1) PROVE Good(k)
  <2> DEFINE t == g[k - 1]
             r == order[k]
             own == r.ns \in Y!OwnScopes(c, u)
  <2>1. t \in Takings /\ r \in MemoryRows /\ r.size \in Nat
    BY <1>2 DEF MemoryRows
  <2>2. g[k] = CASE own /\ t.user + r.size <= UserLimit ->
                      [t EXCEPT !.user = @ + r.size, !.rows = @ \cup {r}]
                 [] ~own /\ t.group + r.size <= GroupLimit ->
                      [t EXCEPT !.group = @ + r.size, !.rows = @ \cup {r}]
                 [] OTHER -> t
    BY DEF Y!Take
  <2>3. g[k] \in Takings /\ t.rows \subseteq g[k].rows /\ (~ own => g[k].user = t.user)
        /\ (own /\ t.user + r.size <= UserLimit => r \in g[k].rows)
    <3> HIDE DEF t, r
    <3>1. /\ t.user \in Nat /\ t.group \in Nat /\ t.rows \subseteq MemoryRows
          /\ t = [user |-> t.user, group |-> t.group, rows |-> t.rows]
      BY <2>1
    <3>2. CASE own /\ t.user + r.size <= UserLimit
      <4>1. g[k] = [user |-> t.user + r.size, group |-> t.group, rows |-> t.rows \cup {r}]
        BY <2>2, <3>1, <3>2
      <4>2. t.user + r.size \in Nat
        BY <2>1, <3>1
      <4> QED
        BY <2>1, <3>1, <3>2, <4>1, <4>2
    <3>3. CASE ~own /\ t.group + r.size <= GroupLimit
      <4>1. g[k] = [user |-> t.user, group |-> t.group + r.size, rows |-> t.rows \cup {r}]
        BY <2>2, <3>1, <3>3
      <4>2. t.group + r.size \in Nat
        BY <2>1, <3>1
      <4> QED
        BY <2>1, <3>1, <3>3, <4>1, <4>2
    <3>4. CASE ~ (own /\ t.user + r.size <= UserLimit) /\ ~ (~own /\ t.group + r.size <= GroupLimit)
      <4>1. g[k] = t
        BY <2>2, <3>4
      <4> QED
        BY <2>1, <3>4, <4>1
    <3> QED
      BY <3>2, <3>3, <3>4
  <2>4. CASE k < j
    <3>1. ~ own /\ t.user = 0
      BY <1>2, <2>4
    <3> QED
      BY <2>3, <2>4, <3>1
  <2>5. CASE k = j
    <3>1. own /\ t.user = 0 /\ r.size <= UserLimit
      BY <1>2, <2>5
    <3>2. r \in g[k].rows
      BY <2>1, <2>3, <3>1
    <3> QED
      BY <2>3, <2>5, <3>2
  <2>6. CASE k > j
    <3>1. order[j] \in t.rows
      BY <1>2, <2>6
    <3> QED
      BY <2>3, <2>6, <3>1
  <2> QED
    BY <2>4, <2>5, <2>6
<1>3. Bad = {}
  <2> SUFFICES ASSUME Bad # {} PROVE FALSE
    OBVIOUS
  <2>1. \A k \in Bad : k \in Nat
    OBVIOUS
  <2>2. Y!Min(Bad) \in Bad /\ \A k \in Bad : Y!Min(Bad) <= k
    <3> HIDE DEF Bad
    <3> QED
      BY <2>1, LeastNumber
  <2>3. PICK k \in Bad : \A i \in Bad : k <= i
    BY <2>2
  <2>4. k # 0 /\ k \in 0 .. n /\ ~ Good(k)
    BY <1>1, <2>3
  <2>5. k - 1 \in 0 .. n /\ ~ (k <= k - 1) /\ k \in 1 .. n
    BY <2>4
  <2>6. k - 1 \notin Bad
    BY <2>3, <2>5
  <2>7. Good(k - 1)
    BY <2>5, <2>6
  <2> HIDE DEF Good
  <2> QED
    BY <1>2, <2>4, <2>5, <2>7
<1>4. Good(n)
  BY <1>3
<1> QED
  BY <1>4

\* An order of a set has each of its members.
LEMMA OrderHasAll ==
  ASSUME NEW R, IsFiniteSet(R), NEW order \in Y!SetToSeqs(R)
  PROVE  /\ Cardinality(R) \in Nat /\ order \in [1 .. Cardinality(R) -> R]
         /\ \A r \in R : \E j \in 1 .. Cardinality(R) : order[j] = r
         /\ \A i, j \in 1 .. Cardinality(R) : i # j => order[i] # order[j]
<1> DEFINE n == Cardinality(R)
<1>1. n \in Nat
  BY FS_CardinalityType
<1>2. order \in [1 .. n -> R] /\ \A i, j \in 1 .. n : i # j => order[i] # order[j]
  BY MemoryLibrary DEF Y!SetToSeqs
<1>3. order \in Injection(1 .. n, R)
  BY <1>2 DEF Injection, IsInjective
<1>4. Cardinality(1 .. n) = n
  <2>1. 1 \in Int /\ n \in Int
    BY <1>1
  <2> HIDE DEF n
  <2> QED
    BY <1>1, <2>1, FS_Interval
<1>5. order \in Surjection(1 .. n, R)
  BY <1>3, <1>4, FS_Injection
<1> QED
  BY <1>1, <1>2, <1>5 DEF Surjection

LEMMA SummaryIsInThePrompt == MemoryInv => Y!PromptCarriesTheSummary
<1> SUFFICES ASSUME MemoryInv, NEW u \in MemoryUsers, NEW c \in MemoryChats,
                    NEW r \in Y!Keyed(Y!UserScope(u)),
                    r.size <= UserLimit, r.expires = 0 \/ r.expires > clockNow,
                    \A q \in memories \ {r} : q.ns = r.ns => q.at < r.at,
                    NEW admin \in BOOLEAN, NEW prompt \in Y!Prompts(c, u, admin)
             PROVE  r \in prompt
  BY DEF Y!PromptCarriesTheSummary
<1> DEFINE R == {q \in memories : Y!Readable(q, c, u, admin) /\ (q.expires = 0 \/ q.expires > clockNow)}
<1>1. PICK order \in Y!NewestFirst(R) : prompt = Y!Injected(order, c, u)
  BY DEF Y!Prompts
<1>2. r \in memories /\ r.ns = Y!UserScope(u) /\ r.keyed
  BY DEF Y!Keyed
<1>3. r.ns \in Y!OwnScopes(c, u)
  BY <1>2 DEF Y!OwnScopes
<1>4. r \in R
  <2>1. r.visibility # "admin_only"
    BY <1>2 DEF MemoryInv, RowsAreTold
  <2>2. r.ns \in Y!AllowedScopes(c, u)
    BY <1>2 DEF Y!AllowedScopes
  <2> QED
    BY <1>2, <1>3, <2>1, <2>2 DEF Y!Readable
<1>5. R \subseteq memories /\ memories \subseteq MemoryRows /\ IsFiniteSet(R)
  BY FS_Subset DEF MemoryInv, MemoryTyped
<1> HIDE DEF R
<1> DEFINE n == Cardinality(R)
<1>6. /\ order \in Y!SetToSeqs(R)
      /\ \A i, j \in DOMAIN order : i < j => order[i].at >= order[j].at
  BY <1>1 DEF Y!NewestFirst
<1>7. /\ n \in Nat /\ order \in [1 .. n -> R]
      /\ \A q \in R : \E j \in 1 .. n : order[j] = q
      /\ \A i, j \in 1 .. n : i # j => order[i] # order[j]
  BY <1>5, <1>6, OrderHasAll
<1> HIDE DEF n
<1>8. PICK j \in 1 .. n : order[j] = r
  BY <1>4, <1>7
<1>9. ASSUME NEW i \in 1 .. n, i < j PROVE order[i].ns \notin Y!OwnScopes(c, u)
  <2>1. order[i] \in memories /\ order[i] # r
    BY <1>5, <1>7, <1>8, <1>9
  <2>2. order[i].at \in Nat /\ r.at \in Nat /\ order[i].ns \in Y!Scopes
    BY <1>2, <1>5, <2>1 DEF MemoryRows
  <2>3. order[i].at >= r.at
    BY <1>6, <1>7, <1>8, <1>9
  <2>4. order[i].ns # r.ns
    BY <2>1, <2>2, <2>3
  <2>5. order[i].ns # Y!GroupUserScope(c, u)
    BY <2>2 DEF Y!Scopes, Y!UserScope, Y!GroupScope, Y!GroupUserScope
  <2> QED
    BY <1>2, <2>4, <2>5 DEF Y!OwnScopes
<1>10. order \in [1 .. n -> MemoryRows] /\ DOMAIN order = 1 .. n
  BY <1>5, <1>7
<1>11. PICK g : /\ g[0] = NothingTaken
                /\ \A k \in 1 .. n : g[k] = Y!Take(c, u, g[k - 1], order[k])
                /\ Y!Injected(order, c, u) = g[n].rows
  <2>1. n \in Nat
    BY <1>7
  <2>2. DOMAIN order = 1 .. n
    BY <1>10
  <2> QED
    BY <2>1, <2>2, PackedRowByRow
<1>12. order[j] \in g[n].rows
  BY <1>3, <1>7, <1>8, <1>9, <1>10, <1>11, FirstOwnRowIsTaken
<1> QED
  BY <1>1, <1>8, <1>11, <1>12

LEMMA WritesHaveLanded == MemoryInv => Y!WritesLand
  BY DEF MemoryInv, AloneIn, Y!WritesLand

\* store/memory.ts, upsertMemory and agent.ts, prepare: for any number of writers,
\* deletions and prompts a scope where nothing met has one row for its key, made
\* from the latest messages, and a summary that fits the budget is in every prompt
\* of its user until a later memory of the user comes.
THEOREM MemoriesAreCurrent == RecordsSpec => []MemoryIsCurrent
<1>1. RecordsInit => MemoryInv
  BY MemoryStarts DEF RecordsInit
<1>2. MemoryInv /\ [RecordsNext]_recordsVars => MemoryInv'
  <2>1. [RecordsNext]_recordsVars => [Y!Next]_Y!memoryVars
    BY DEF RecordsNext, recordsVars, memory, Y!memoryVars
  <2> QED
    BY <2>1, MemoryStep
<1>3. MemoryInv => MemoryIsCurrent
  BY WritesHaveLanded, SummaryIsInThePrompt DEF MemoryIsCurrent
<1> QED
  BY <1>1, <1>2, <1>3, PTL DEF RecordsSpec

=============================================================================
