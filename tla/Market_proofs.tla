---------------------------- MODULE Market_proofs ----------------------------
(***************************************************************************)
(* Theorems about Market for every set of bets, bettors, stakes, caps,     *)
(* handlers, settlement runs and cancellation runs: types, who is paid and *)
(* how often, what a reported success means, what a refund leaves, and by  *)
(* how much a bettor can get over the cap.                                 *)
(***************************************************************************)
EXTENDS Market, SumTheorems

-----------------------------------------------------------------------------
(***************************************************************************)
(* Types.                                                                  *)
(***************************************************************************)

\* A settlement with one of its fields replaced is a settlement.
LEMMA SettlingField ==
  ASSUME NEW s \in Settling
  PROVE  /\ \A a \in {"idle", "picked", "read", "pay", "over", "finished"} :
              [s EXCEPT !.at = a] \in Settling
         /\ \A q \in SUBSET Tickets : [s EXCEPT !.todo = q] \in Settling
  BY DEF Settling

LEMMA SettlingType == NoSettling \in Settling /\ Over \in Settling
  BY DEF NoSettling, Over, Settling

LEMMA CancellingType == NoCancelling \in Cancelling
  BY DEF NoCancelling, Cancelling

\* The winners of a survey are options somebody has bet on.
LEMMA TopOptionsType ==
  ASSUME TypeOK
  PROVE  TopOptions(PendingRows) \subseteq Options
<1>1. \A t \in Pending : PendingRows[t].option \in Options
  BY MarketAssumption DEF TypeOK, Pending, PendingRows, Rows
<1>2. DOMAIN PendingRows = Pending
  BY DEF PendingRows
<1> QED
  BY <1>1, <1>2 DEF TopOptions, Backed

\* A cancellation has bets left to refund only among those recorded.
Refundable == \A c \in Cancels : cancel[c].todo \subseteq recorded

TypeInv == TypeOK /\ Refundable

LEMMA InitType == Init => TypeInv
<1> SUFFICES ASSUME Init PROVE TypeInv
  OBVIOUS
<1>1. settle \in [Settlers -> Settling] /\ cancel \in [Cancels -> Cancelling]
  BY SettlingType, CancellingType DEF Init
<1>2. stops \in 0 .. MaxStops /\ edits \in 0 .. MaxEdits
  BY MarketAssumption DEF Init
<1>3. Refundable
  BY DEF Init, Refundable, NoCancelling
<1> QED
  BY <1>1, <1>2, <1>3 DEF Init, TypeInv, TypeOK, Stage

LEMMA BetType ==
  ASSUME TypeOK, NEW t \in Tickets, Bet(t)
  PROVE  TypeOK'
<1>0. CASE See(t)
  BY <1>0 DEF TypeOK, See, Stage, proposal, grants
<1>1. CASE Take(t)
  BY <1>1 DEF TypeOK, Take, Stage, proposal, grants
<1>2. CASE Refuse(t)
  BY <1>2 DEF TypeOK, Refuse, Stage, proposal, grants
<1>3. CASE Insert(t)
  BY <1>3 DEF TypeOK, Insert, Stage, proposal, grants
<1>4. CASE Rollback(t)
  BY <1>4 DEF TypeOK, Rollback, Stage, proposal, grants
<1> QED
  BY <1>0, <1>1, <1>2, <1>3, <1>4 DEF Bet

\* Each step of a settlement replaces that settlement by another.
LEMMA SettleType ==
  ASSUME TypeOK, NEW k \in Settlers, Settle(k)
  PROVE  TypeOK'
<1>0. settle[k] \in Settling /\ settle \in [Settlers -> Settling]
  BY DEF TypeOK
<1>1. CASE Pick(k)
  <2>1. PICK o \in Options :
          settle' = [settle EXCEPT ![k].at = "picked",
                                   ![k].winners = IF kind = "bet" THEN {o} ELSE {}]
    BY <1>1 DEF Pick
  <2>2. PICK w \in SUBSET Options : w = IF kind = "bet" THEN {o} ELSE {}
    OBVIOUS
  <2>3. settle' = [settle EXCEPT ![k] = [settle[k] EXCEPT !.at = "picked", !.winners = w]]
    BY <1>0, <2>1, <2>2
  <2>4. [settle[k] EXCEPT !.at = "picked", !.winners = w] \in Settling
    BY <1>0 DEF Settling
  <2>5. settle' \in [Settlers -> Settling]
    BY <1>0, <2>3, <2>4
  <2> QED
    BY <1>1, <2>5 DEF Pick, TypeOK, proposal, bets, grants
<1>2. CASE Read(k)
  <2> DEFINE w == IF kind = "bet" THEN settle[k].winners ELSE TopOptions(PendingRows)
  <2>1. w \in SUBSET Options /\ Pending \in SUBSET Tickets
    BY <1>0, TopOptionsType DEF TypeOK, Pending, Settling
  <2>2. settle' = [settle EXCEPT ![k] = [settle[k] EXCEPT !.at = "read", !.bets = Pending,
                                                          !.winners = w]]
    BY <1>0, <1>2 DEF Read
  <2> HIDE DEF w
  <2>3. [settle[k] EXCEPT !.at = "read", !.bets = Pending, !.winners = w] \in Settling
    BY <1>0, <2>1 DEF Settling
  <2>4. settle' \in [Settlers -> Settling]
    BY <1>0, <2>2, <2>3
  <2> QED
    BY <1>2, <2>4 DEF Read, TypeOK, proposal, bets, grants
<1>3. CASE Gate(k)
  <2>1. CASE status = "active"
    <3> DEFINE won == {t \in settle[k].bets : Choice[t] \in settle[k].winners}
    <3>1. won \in SUBSET Tickets /\ settle[k].winners \in SUBSET Options
      BY <1>0 DEF Settling
    <3>2. settle' = [settle EXCEPT ![k] = [settle[k] EXCEPT !.at = "pay", !.todo = won]]
      BY <1>0, <1>3, <2>1 DEF Gate
    <3> HIDE DEF won
    <3>3. [settle[k] EXCEPT !.at = "pay", !.todo = won] \in Settling
      BY <1>0, <3>1 DEF Settling
    <3>4. settle' \in [Settlers -> Settling]
      BY <1>0, <3>2, <3>3
    <3> QED
      BY <1>3, <2>1, <3>1, <3>4 DEF Gate, TypeOK, bets, grants
  <2>2. CASE status # "active"
    <3>1. settle' \in [Settlers -> Settling]
      BY <1>0, <1>3, <2>2, SettlingType DEF Gate
    <3> QED
      BY <1>3, <2>2, <3>1 DEF Gate, TypeOK, bets, grants
  <2> QED
    BY <2>1, <2>2
<1>4. CASE Pay(k)
  <2>1. PICK t \in settle[k].todo :
          /\ paid' = [paid EXCEPT ![t] = @ + 1]
          /\ settle' = [settle EXCEPT ![k].todo = @ \ {t}]
    BY <1>4 DEF Pay
  <2>2. t \in Tickets /\ settle[k].todo \ {t} \in SUBSET Tickets
    BY <1>0 DEF Settling
  <2>3. settle' \in [Settlers -> Settling]
    BY <1>0, <2>1, <2>2, SettlingField
  <2>4. paid' \in [Tickets -> Nat]
    BY <2>1, <2>2 DEF TypeOK
  <2> QED
    BY <1>4, <2>3, <2>4 DEF Pay, TypeOK, proposal, bets
<1>5. CASE PayFails(k)
  <2>1. settle' \in [Settlers -> Settling]
    BY <1>0, <1>5, SettlingType DEF PayFails
  <2> QED
    BY <1>5, <2>1 DEF PayFails, TypeOK, proposal, bets, grants
<1>6. CASE Finish(k)
  <2>1. settle' \in [Settlers -> Settling]
    BY <1>0, <1>6, SettlingField DEF Finish
  <2>2. chest' \in Nat
    BY <1>6 DEF Finish, TypeOK
  <2> QED
    BY <1>6, <2>1, <2>2 DEF Finish, TypeOK, proposal, bets
<1> QED
  BY <1>1, <1>2, <1>3, <1>4, <1>5, <1>6 DEF Settle

\* Each step of a cancellation replaces that cancellation by another.
LEMMA CancelType ==
  ASSUME TypeInv, NEW c \in Cancels, Cancel(c)
  PROVE  TypeOK'
<1>0. /\ TypeOK /\ cancel[c] \in Cancelling /\ cancel \in [Cancels -> Cancelling]
      /\ Pending \in SUBSET Tickets /\ cancel[c].todo \subseteq recorded
  BY DEF TypeInv, TypeOK, Pending, Refundable
<1>1. CASE PickCancel(c)
  <2>1. [cancel[c] EXCEPT !.at = "picked"] \in Cancelling
    BY <1>0 DEF Cancelling
  <2>2. cancel' \in [Cancels -> Cancelling]
    BY <1>0, <1>1, <2>1 DEF PickCancel
  <2> QED
    BY <1>0, <1>1, <2>2 DEF PickCancel, TypeOK, proposal, bets, grants
<1>2. CASE ReadCancel(c)
  <2>1. [cancel[c] EXCEPT !.at = "refund", !.todo = Pending] \in Cancelling
    BY <1>0 DEF Cancelling
  <2>2. cancel' \in [Cancels -> Cancelling]
    BY <1>0, <1>2, <2>1 DEF ReadCancel
  <2> QED
    BY <1>0, <1>2, <2>2 DEF ReadCancel, TypeOK, proposal, bets, grants
<1>3. CASE Mark(c)
  <2>1. PICK t \in cancel[c].todo :
          /\ refunded' = refunded \cup {t}
          /\ cancel' = [cancel EXCEPT ![c].todo = @ \ {t}, ![c].marked = t]
    BY <1>3 DEF Mark
  <2>2. t \in Tickets /\ t \in recorded
    BY <1>0 DEF Cancelling
  <2>3. [cancel[c] EXCEPT !.todo = cancel[c].todo \ {t}, !.marked = t] \in Cancelling
    BY <1>0, <2>2 DEF Cancelling
  <2>4. cancel' = [cancel EXCEPT ![c] = [cancel[c] EXCEPT !.todo = cancel[c].todo \ {t}, !.marked = t]]
    BY <1>0, <2>1
  <2>5. cancel' \in [Cancels -> Cancelling]
    BY <1>0, <2>3, <2>4
  <2> QED
    BY <1>0, <1>3, <2>1, <2>2, <2>5 DEF Mark, TypeOK, proposal, bets, grants
<1>4. CASE MarkFails(c)
  <2>1. PICK t \in cancel[c].todo : cancel' = [cancel EXCEPT ![c].todo = @ \ {t}]
    BY <1>4 DEF MarkFails
  <2>2. [cancel[c] EXCEPT !.todo = cancel[c].todo \ {t}] \in Cancelling
    BY <1>0 DEF Cancelling
  <2>3. cancel' \in [Cancels -> Cancelling]
    BY <1>0, <2>1, <2>2
  <2> QED
    BY <1>0, <1>4, <2>3 DEF MarkFails, TypeOK, proposal, bets, grants
<1>5. CASE Refund(c)
  <2>1. [cancel[c] EXCEPT !.marked = NoTicket] \in Cancelling /\ cancel[c].marked \in Tickets
    BY <1>0, <1>5 DEF Cancelling, Refund
  <2>2. cancel' \in [Cancels -> Cancelling]
    BY <1>0, <1>5, <2>1 DEF Refund
  <2>3. returned' \in [Tickets -> Nat]
    BY <1>0, <1>5, <2>1 DEF Refund, TypeOK
  <2> QED
    BY <1>0, <1>5, <2>2, <2>3 DEF Refund, TypeOK, proposal, bets
<1>6. CASE Close(c)
  <2>1. [cancel[c] EXCEPT !.at = "done"] \in Cancelling
    BY <1>0 DEF Cancelling
  <2>2. cancel' \in [Cancels -> Cancelling]
    BY <1>0, <1>6, <2>1 DEF Close
  <2> QED
    BY <1>0, <1>6, <2>2 DEF Close, TypeOK, bets, grants
<1> QED
  BY <1>1, <1>2, <1>3, <1>4, <1>5, <1>6 DEF Cancel

LEMMA NextRefundable ==
  ASSUME TypeInv, [Next]_vars
  PROVE  Refundable'
<1>0. cancel \in [Cancels -> Cancelling] /\ Refundable
  BY DEF TypeInv, TypeOK
<1>1. recorded \subseteq recorded'
  BY DEF Next, Bet, See, Take, Refuse, Insert, Rollback, Settle, Pick, Read, Gate, Pay, PayFails,
         Finish, Cancel, PickCancel, ReadCancel, Mark, MarkFails, Refund, Close, NextTick,
         Stop, Expire, Edit, Toggle, vars
<1>2. ASSUME NEW c \in Cancels, Cancel(c)
      PROVE  \A d \in Cancels : cancel'[d].todo \subseteq cancel[d].todo \cup recorded
  <2>1. CASE PickCancel(c)
    BY <1>0, <2>1 DEF PickCancel, Cancelling
  <2>2. CASE ReadCancel(c)
    BY <1>0, <2>2 DEF ReadCancel, Cancelling, Pending
  <2>3. CASE Mark(c)
    BY <1>0, <2>3 DEF Mark, Cancelling
  <2>4. CASE MarkFails(c)
    BY <1>0, <2>4 DEF MarkFails, Cancelling
  <2>5. CASE Refund(c)
    BY <1>0, <2>5 DEF Refund, Cancelling
  <2>6. CASE Close(c)
    BY <1>0, <2>6 DEF Close, Cancelling
  <2> QED
    BY <1>2, <2>1, <2>2, <2>3, <2>4, <2>5, <2>6 DEF Cancel
<1>3. (\E c \in Cancels : Cancel(c)) \/ UNCHANGED cancel
  BY DEF Next, Bet, See, Take, Refuse, Insert, Rollback, Settle, Pick, Read, Gate, Pay, PayFails,
         Finish, NextTick, Stop, Expire, Edit, Toggle, vars
<1> QED
  BY <1>0, <1>1, <1>2, <1>3 DEF Refundable

LEMMA NextType == TypeInv /\ [Next]_vars => TypeInv'
<1> SUFFICES ASSUME TypeInv, [Next]_vars PROVE TypeInv'
  OBVIOUS
<1>0. TypeOK
  BY DEF TypeInv
<1>1. ASSUME NextTick PROVE TypeOK'
  <2>1. settle' \in [Settlers -> Settling]
    BY <1>0, <1>1, SettlingType DEF NextTick, TypeOK
  <2> QED
    BY <1>0, <1>1, <2>1 DEF NextTick, TypeOK, proposal, bets, grants
<1>2. ASSUME Stop PROVE TypeOK'
  <2>1. settle' \in [Settlers -> Settling] /\ stops' \in 0 .. MaxStops
    BY <1>0, <1>2, SettlingType, MarketAssumption DEF Stop, TypeOK
  <2> QED
    BY <1>0, <1>2, <2>1 DEF Stop, TypeOK, proposal, bets, grants
<1>3. ASSUME Expire PROVE TypeOK'
  BY <1>0, <1>3 DEF Expire, TypeOK, bets, grants
<1>7. ASSUME Edit PROVE TypeOK'
  <2>1. edits' \in 0 .. MaxEdits
    BY <1>0, <1>7, MarketAssumption DEF Edit, TypeOK
  <2> QED
    BY <1>0, <1>7, <2>1 DEF Edit, TypeOK, bets, grants
<1>4. ASSUME Toggle PROVE TypeOK'
  BY <1>0, <1>4 DEF Toggle, TypeOK, proposal, bets, grants
<1>5. ASSUME UNCHANGED vars PROVE TypeOK'
  BY <1>0, <1>5 DEF vars, TypeOK
<1>6. TypeOK'
  BY <1>0, <1>1, <1>2, <1>3, <1>4, <1>5, <1>7, BetType, SettleType, CancelType DEF Next
<1> QED
  BY <1>6, NextRefundable DEF TypeInv

\* The proposal, its bets and every run keep their types in every reachable state.
THEOREM Typing == Spec => []TypeOK
<1>1. Spec => []TypeInv
  BY InitType, NextType, PTL DEF Spec
<1> QED
  BY <1>1, PTL DEF TypeInv

-----------------------------------------------------------------------------
(***************************************************************************)
(* Settlements.                                                            *)
(***************************************************************************)

\* The settlements that have passed the gate and have not been given up.
Through == {k \in Settlers : settle[k].at \in {"pay", "finished"}}

Winning(k) == {t \in settle[k].bets : Choice[t] \in settle[k].winners}

\* The gate lets one settlement through, and nothing is paid before it.
GateDiscipline ==
  /\ \A k, l \in Through : k = l
  /\ Through # {} => status = "settled"
  /\ status # "settled" => chest = 0 /\ \A t \in Tickets : paid[t] = 0

\* That settlement pays by the result it wrote: a winning bet it counted is
\* still to be paid, or paid; the chest comes last.
PaysByResult(k) ==
  /\ result = settle[k].winners
  /\ settle[k].todo \subseteq Winning(k)
  /\ \A t \in Winning(k) : paid[t] = IF t \in settle[k].todo THEN 0 ELSE 1
  /\ settle[k].at = "pay" => chest = 0
  /\ settle[k].at = "finished" => settle[k].todo = {} /\ (FillsChest(k) => chest = 1)

PayDiscipline == \A k \in Through : PaysByResult(k)

SettleInv == TypeInv /\ GateDiscipline /\ PayDiscipline /\ PaidOnce /\ PaidByTheResult

Untouched == UNCHANGED <<kind, result, paid, chest>>

\* Steps that pass no gate and grant nothing: bets, refunds, reads, a
\* settlement given up, a cancellation that closes an open proposal.
LEMMA QuietSettle ==
  ASSUME SettleInv, Untouched,
         \A k \in Settlers : \/ settle'[k] = settle[k]
                             \/ settle'[k].at \notin {"pay", "finished"},
         \/ status' = status
         \/ status = "active" /\ status' = "cancelled"
  PROVE  GateDiscipline' /\ PayDiscipline' /\ PaidOnce' /\ PaidByTheResult'
<1>1. \A k \in Through' : k \in Through /\ settle'[k] = settle[k]
  BY DEF Through
<1>2. UNCHANGED <<kind, result, paid, chest>>
  BY DEF Untouched
<1>3. Through' # {} => status' = status
  BY <1>1 DEF SettleInv, GateDiscipline
<1>4. GateDiscipline'
  BY <1>1, <1>2, <1>3 DEF SettleInv, GateDiscipline
<1>5. PayDiscipline'
  BY <1>1, <1>2 DEF SettleInv, PayDiscipline, PaysByResult, Winning, FillsChest
<1>6. PaidOnce' /\ PaidByTheResult'
  BY <1>2 DEF SettleInv, PaidOnce, PaidByTheResult
<1> QED
  BY <1>4, <1>5, <1>6

LEMMA GateSettles ==
  ASSUME SettleInv, NEW k \in Settlers, Gate(k)
  PROVE  GateDiscipline' /\ PayDiscipline' /\ PaidOnce' /\ PaidByTheResult'
<1>0. settle \in [Settlers -> Settling] /\ settle[k] \in Settling
  BY DEF SettleInv, TypeInv, TypeOK
<1>1. CASE status # "active"
  <2>1. Untouched /\ status' = status /\ settle' = [settle EXCEPT ![k] = Over]
    BY <1>1 DEF Gate, Untouched, grants
  <2>2. Over.at = "over"
    BY DEF Over, NoSettling
  <2> QED
    BY <1>0, <2>1, <2>2, QuietSettle
<1>2. CASE status = "active"
  <2>1. /\ status' = "settled" /\ result' = settle[k].winners
        /\ UNCHANGED <<kind, paid, chest>>
        /\ settle' = [settle EXCEPT ![k].at = "pay", ![k].todo = Winning(k)]
    BY <1>2 DEF Gate, Winning, grants
  <2>2. /\ settle'[k].at = "pay" /\ settle'[k].todo = Winning(k)
        /\ settle'[k].bets = settle[k].bets /\ settle'[k].winners = settle[k].winners
        /\ \A l \in Settlers \ {k} : settle'[l] = settle[l]
    BY <1>0, <2>1 DEF Settling
  <2>3. Through = {} /\ chest = 0 /\ \A t \in Tickets : paid[t] = 0
    BY <1>2 DEF SettleInv, GateDiscipline
  <2>4. Through' = {k}
    BY <2>2, <2>3 DEF Through
  <2>5. Winning(k) \subseteq Tickets /\ Winning(k)' = Winning(k)
    BY <1>0, <2>2 DEF Winning, Settling
  <2>6. GateDiscipline'
    BY <2>1, <2>4 DEF GateDiscipline
  <2>7. PaysByResult(k)'
    BY <2>1, <2>2, <2>3, <2>5 DEF PaysByResult
  <2>8. PayDiscipline'
    BY <2>4, <2>7 DEF PayDiscipline
  <2>9. PaidOnce' /\ PaidByTheResult'
    BY <2>1, <2>3 DEF PaidOnce, PaidByTheResult
  <2> QED
    BY <2>6, <2>8, <2>9
<1> QED
  BY <1>1, <1>2

LEMMA PaySettles ==
  ASSUME SettleInv, NEW k \in Settlers, Pay(k)
  PROVE  GateDiscipline' /\ PayDiscipline' /\ PaidOnce' /\ PaidByTheResult'
<1>0. /\ settle \in [Settlers -> Settling] /\ settle[k] \in Settling
      /\ paid \in [Tickets -> Nat]
      /\ k \in Through /\ settle[k].at = "pay"
  BY DEF SettleInv, TypeInv, TypeOK, Pay, Through
<1>1. PICK t \in settle[k].todo :
        /\ paid' = [paid EXCEPT ![t] = @ + 1]
        /\ settle' = [settle EXCEPT ![k].todo = @ \ {t}]
  BY DEF Pay
<1>2. PaysByResult(k) /\ status = "settled"
  BY <1>0 DEF SettleInv, PayDiscipline, GateDiscipline
<1>3. t \in Tickets /\ t \in Winning(k) /\ paid[t] = 0
  BY <1>0, <1>2 DEF PaysByResult, Winning, Settling
<1>4. paid'[t] = 1 /\ \A u \in Tickets \ {t} : paid'[u] = paid[u]
  BY <1>0, <1>1, <1>3
<1>5. UNCHANGED <<kind, status, result, chest>>
  BY DEF Pay, proposal
<1>6. /\ settle'[k].at = "pay" /\ settle'[k].todo = settle[k].todo \ {t}
      /\ settle'[k].bets = settle[k].bets /\ settle'[k].winners = settle[k].winners
      /\ \A l \in Settlers \ {k} : settle'[l] = settle[l]
  BY <1>0, <1>1 DEF Settling
<1>7. Through' = Through /\ Through = {k}
  BY <1>0, <1>6 DEF Through, SettleInv, GateDiscipline
<1>8. GateDiscipline'
  BY <1>2, <1>5, <1>7 DEF SettleInv, GateDiscipline
<1>9. Winning(k)' = Winning(k) /\ Winning(k) \subseteq Tickets
  BY <1>0, <1>6 DEF Winning, Settling
<1>10. PaysByResult(k)'
  <2>1. /\ result = settle[k].winners /\ settle[k].todo \subseteq Winning(k)
        /\ \A u \in Winning(k) : paid[u] = IF u \in settle[k].todo THEN 0 ELSE 1
        /\ chest = 0
    BY <1>0, <1>2 DEF PaysByResult
  <2>2. result' = settle'[k].winners /\ settle'[k].todo \subseteq Winning(k)' /\ chest' = 0
    BY <1>5, <1>6, <1>9, <2>1
  <2>3. \A u \in Winning(k)' : paid'[u] = IF u \in settle'[k].todo THEN 0 ELSE 1
    BY <1>4, <1>6, <1>9, <2>1
  <2> QED
    BY <1>6, <2>2, <2>3 DEF PaysByResult
<1>11. PayDiscipline'
  BY <1>7, <1>10 DEF PayDiscipline
<1>12. PaidOnce'
  BY <1>4, <1>5 DEF SettleInv, PaidOnce
<1>13. Choice[t] \in result
  BY <1>2, <1>3 DEF PaysByResult, Winning
<1>14. PaidByTheResult'
  BY <1>2, <1>4, <1>5, <1>13 DEF SettleInv, PaidByTheResult
<1> QED
  BY <1>8, <1>11, <1>12, <1>14

LEMMA FinishSettles ==
  ASSUME SettleInv, NEW k \in Settlers, Finish(k)
  PROVE  GateDiscipline' /\ PayDiscipline' /\ PaidOnce' /\ PaidByTheResult'
<1>0. /\ settle \in [Settlers -> Settling] /\ settle[k] \in Settling
      /\ k \in Through /\ settle[k].at = "pay" /\ settle[k].todo = {}
      /\ UNCHANGED <<kind, status, result, paid>>
  BY DEF SettleInv, TypeInv, TypeOK, Finish, Through, proposal
<1>1. /\ settle'[k].at = "finished" /\ settle'[k].todo = {}
      /\ settle'[k].bets = settle[k].bets /\ settle'[k].winners = settle[k].winners
      /\ \A l \in Settlers \ {k} : settle'[l] = settle[l]
  BY <1>0 DEF Finish, Settling
<1>2. PaysByResult(k) /\ status = "settled"
  BY <1>0 DEF SettleInv, PayDiscipline, GateDiscipline
<1>3. chest = 0 /\ chest' = IF FillsChest(k) THEN 1 ELSE 0
  BY <1>0, <1>2 DEF PaysByResult, Finish
<1>4. Through' = Through /\ Through = {k}
  BY <1>0, <1>1 DEF Through, SettleInv, GateDiscipline
<1>5. GateDiscipline'
  BY <1>0, <1>2, <1>4 DEF SettleInv, GateDiscipline
<1>6. Winning(k)' = Winning(k) /\ FillsChest(k)' = FillsChest(k)
  BY <1>0, <1>1 DEF Winning, FillsChest
<1>7. PaysByResult(k)'
  BY <1>0, <1>1, <1>2, <1>3, <1>6 DEF PaysByResult
<1>8. PayDiscipline'
  BY <1>4, <1>7 DEF PayDiscipline
<1>9. PaidOnce' /\ PaidByTheResult'
  BY <1>0, <1>3 DEF SettleInv, PaidOnce, PaidByTheResult
<1> QED
  BY <1>5, <1>8, <1>9

LEMMA NextSettle == SettleInv /\ [Next]_vars => SettleInv'
<1> SUFFICES ASSUME SettleInv, [Next]_vars PROVE SettleInv'
  OBVIOUS
<1> DEFINE Kept == GateDiscipline' /\ PayDiscipline' /\ PaidOnce' /\ PaidByTheResult'
<1>0. settle \in [Settlers -> Settling]
  BY DEF SettleInv, TypeInv, TypeOK
<1>1. ASSUME NEW t \in Tickets, Bet(t)
      PROVE  Kept
  <2>1. Untouched /\ UNCHANGED <<status, settle>>
    BY <1>1 DEF Bet, See, Take, Refuse, Insert, Rollback, Untouched, proposal, grants
  <2> QED
    BY <2>1, QuietSettle
<1>2. ASSUME NEW k \in Settlers, Pick(k) \/ Read(k) \/ PayFails(k)
      PROVE  Kept
  <2>1. Untouched /\ UNCHANGED status
    BY <1>2 DEF Pick, Read, PayFails, Untouched, proposal, grants
  <2>2. \A l \in Settlers : \/ settle'[l] = settle[l]
                            \/ settle'[l].at \notin {"pay", "finished"}
    <3>1. CASE Pick(k)
      BY <1>0, <3>1 DEF Pick, Settling
    <3>2. CASE Read(k)
      BY <1>0, <3>2 DEF Read, Settling
    <3>3. CASE PayFails(k)
      BY <1>0, <3>3 DEF PayFails, Over, NoSettling
    <3> QED
      BY <1>2, <3>1, <3>2, <3>3
  <2> QED
    BY <2>1, <2>2, QuietSettle
<1>3. ASSUME NEW c \in Cancels, Cancel(c)
      PROVE  Kept
  <2>1. Untouched /\ UNCHANGED settle
    BY <1>3 DEF Cancel, PickCancel, ReadCancel, Mark, MarkFails, Refund, Close, Untouched,
                proposal, grants
  <2>2. status' = status \/ (status = "active" /\ status' = "cancelled")
    BY <1>3 DEF Cancel, PickCancel, ReadCancel, Mark, MarkFails, Refund, Close, proposal
  <2> QED
    BY <2>1, <2>2, QuietSettle
<1>4. ASSUME NextTick \/ Stop \/ Expire \/ Edit \/ Toggle \/ UNCHANGED vars
      PROVE  Kept
  <2>1. Untouched /\ UNCHANGED status
    BY <1>4 DEF NextTick, Stop, Expire, Edit, Toggle, vars, Untouched, proposal, grants
  <2>2. \A l \in Settlers : \/ settle'[l] = settle[l]
                            \/ settle'[l].at \notin {"pay", "finished"}
    BY <1>0, <1>4 DEF NextTick, Stop, Expire, Edit, Toggle, vars, Over, NoSettling
  <2> QED
    BY <2>1, <2>2, QuietSettle
<1>5. Kept
  BY <1>1, <1>2, <1>3, <1>4, GateSettles, PaySettles, FinishSettles DEF Next, Settle
<1> QED
  BY <1>5, NextType DEF SettleInv

LEMMA InitSettle == Init => SettleInv
<1> SUFFICES ASSUME Init PROVE SettleInv
  OBVIOUS
<1>1. Through = {}
  BY DEF Init, Through, NoSettling
<1> QED
  BY <1>1, InitType DEF Init, SettleInv, GateDiscipline, PayDiscipline, PaidOnce, PaidByTheResult

LEMMA SettleInvariant == Spec => []SettleInv
  BY InitSettle, NextSettle, PTL DEF Spec

\* However many settle, and whatever dies or fails half-way: the gate lets one
\* of them pay, so that no bet is paid twice and the chest is filled once.
THEOREM NobodyIsPaidTwice == Spec => []PaidOnce
  BY SettleInvariant, PTL DEF SettleInv

\* Whoever was paid was paid by the result the proposal ended with, although
\* each settlement counts and decides on its own before it comes to the gate.
THEOREM PaymentsFollowTheResult == Spec => []PaidByTheResult
  BY SettleInvariant, PTL DEF SettleInv

\* A settlement that reports success has paid every winning bet it counted,
\* and the chest.
THEOREM ReportedSuccessIsPaid == Spec => []SuccessMeansPaid
<1>1. SettleInv => SuccessMeansPaid
  BY DEF SettleInv, PayDiscipline, PaysByResult, Through, Winning, SuccessMeansPaid
<1> QED
  BY <1>1, SettleInvariant, PTL

-----------------------------------------------------------------------------
(***************************************************************************)
(* Refunds.                                                                *)
(***************************************************************************)

\* A bet whose stake is about to be granted back is marked.
RefundInv ==
  /\ TypeInv /\ RefundedIsOutOfPlay
  /\ \A c \in Cancels : cancel[c].marked \in refunded \cup {NoTicket}

LEMMA NextRefund == RefundInv /\ [Next]_vars => RefundInv'
<1> SUFFICES ASSUME RefundInv, [Next]_vars PROVE RefundInv'
  OBVIOUS
<1> DEFINE Marked == \A c \in Cancels : cancel'[c].marked \in refunded' \cup {NoTicket}
<1>0. /\ cancel \in [Cancels -> Cancelling] /\ returned \in [Tickets -> Nat]
      /\ RefundedIsOutOfPlay
      /\ \A c \in Cancels : cancel[c].marked \in refunded \cup {NoTicket}
  BY DEF RefundInv, TypeInv, TypeOK
<1>1. ASSUME UNCHANGED <<returned, refunded, cancel>>
      PROVE  Marked /\ RefundedIsOutOfPlay'
  BY <1>0, <1>1 DEF RefundedIsOutOfPlay
<1>2. ASSUME NEW c \in Cancels, PickCancel(c) \/ ReadCancel(c) \/ MarkFails(c) \/ Close(c)
      PROVE  Marked /\ RefundedIsOutOfPlay'
  <2>1. UNCHANGED <<returned, refunded>>
    BY <1>2 DEF PickCancel, ReadCancel, MarkFails, Close, grants
  <2>2. \A d \in Cancels : cancel'[d].marked = cancel[d].marked
    <3>1. CASE PickCancel(c)
      BY <1>0, <3>1 DEF PickCancel, Cancelling
    <3>2. CASE ReadCancel(c)
      BY <1>0, <3>2 DEF ReadCancel, Cancelling
    <3>3. CASE MarkFails(c)
      BY <1>0, <3>3 DEF MarkFails, Cancelling
    <3>4. CASE Close(c)
      BY <1>0, <3>4 DEF Close, Cancelling
    <3> QED
      BY <1>2, <3>1, <3>2, <3>3, <3>4
  <2> QED
    BY <1>0, <2>1, <2>2 DEF RefundedIsOutOfPlay
<1>3. ASSUME NEW c \in Cancels, Mark(c)
      PROVE  Marked /\ RefundedIsOutOfPlay'
  <2>1. PICK t \in cancel[c].todo :
          /\ refunded' = refunded \cup {t}
          /\ cancel' = [cancel EXCEPT ![c].todo = @ \ {t}, ![c].marked = t]
    BY <1>3 DEF Mark
  <2>2. cancel'[c].marked = t /\ \A d \in Cancels \ {c} : cancel'[d] = cancel[d]
    BY <1>0, <2>1 DEF Cancelling
  <2>3. UNCHANGED returned
    BY <1>3 DEF Mark, grants
  <2> QED
    BY <1>0, <2>1, <2>2, <2>3 DEF RefundedIsOutOfPlay
<1>4. ASSUME NEW c \in Cancels, Refund(c)
      PROVE  Marked /\ RefundedIsOutOfPlay'
  <2>1. cancel[c].marked \in refunded /\ UNCHANGED refunded
    BY <1>0, <1>4 DEF Refund
  <2>2. cancel'[c].marked = NoTicket /\ \A d \in Cancels \ {c} : cancel'[d] = cancel[d]
    BY <1>0, <1>4 DEF Refund, Cancelling
  <2>3. \A t \in Tickets : returned'[t] = returned[t] \/ t = cancel[c].marked
    BY <1>0, <1>4 DEF Refund
  <2> QED
    BY <1>0, <2>1, <2>2, <2>3 DEF RefundedIsOutOfPlay
<1>5. (\E c \in Cancels : Cancel(c)) \/ UNCHANGED <<returned, refunded, cancel>>
  BY DEF Next, Bet, See, Take, Refuse, Insert, Rollback, Settle, Pick, Read, Gate, Pay, PayFails,
         Finish, NextTick, Stop, Expire, Edit, Toggle, vars, grants
<1>6. Marked /\ RefundedIsOutOfPlay'
  BY <1>0, <1>1, <1>2, <1>3, <1>4, <1>5 DEF Cancel, RefundedIsOutOfPlay
<1> QED
  BY <1>6, NextType DEF RefundInv

\* A bet whose stake went back is marked, and so out of every later count,
\* although the mark and the grant are transactions of two databases.
THEOREM RefundsAreOutOfPlay == Spec => []RefundedIsOutOfPlay
<1>1. Init => RefundInv
  BY InitType DEF Init, RefundInv, RefundedIsOutOfPlay, NoCancelling
<1> QED
  BY <1>1, NextRefund, PTL DEF Spec, RefundInv

-----------------------------------------------------------------------------
(***************************************************************************)
(* The cap.                                                                *)
(***************************************************************************)

\* The handlers that have taken a stake, and the bets that count or soon may.
Taken == {t \in Tickets : bet[t] = "taken"}
InPlay == Pending \cup Taken

Stakes(ts) == SumFunctionOnSet(Lp, ts)

\* Of any bets of one bettor, the one let pass last has seen all the others but
\* those the other handlers held, and the cap its handler had read admits them.
Admits(ts, t, unseen) == Cardinality(unseen) < Lanes /\ Stakes(ts \ unseen) <= cap[t]

OneBettor(ts) == \A t, u \in ts : Bettor[t] = Bettor[u]

CapDiscipline ==
  /\ Cardinality(InHand) <= Lanes
  /\ \A t \in recorded : bet[t] = "done"
  /\ \A t \in InPlay : Lp[t] <= cap[t]
  /\ \A ts \in SUBSET InPlay :
       ts # {} /\ OneBettor(ts) => \E t \in ts, unseen \in SUBSET ts : Admits(ts, t, unseen)

CapInv == TypeInv /\ CapDiscipline

\* The sum getUserTotalBetLp makes over rows is the sum of the stakes.
LEMMA RowsAreStakes ==
  ASSUME TypeOK, NEW ts \in SUBSET Pending
  PROVE  LpOf(Rows, ts) = Stakes(ts)
<1> DEFINE f == [b \in ts |-> Rows[b].lp]
<1>1. ts \in SUBSET Tickets /\ ts \in SUBSET recorded
  BY DEF TypeOK, Pending
<1>2. \A b \in ts : f[b] = Lp[b]
  BY <1>1 DEF Rows
<1>3. SumFunctionOnSet(f, ts) = SumFunctionOnSet(Lp, ts)
  <2> HIDE DEF f
  <2> QED
    BY <1>1, <1>2, SumSame, MarketAssumption
<1> QED
  BY <1>3 DEF LpOf, Stakes

LEMMA StakesTheorem ==
  /\ \A ts \in SUBSET Tickets : Stakes(ts) \in Int
  /\ \A ts \in SUBSET Tickets : \A us \in SUBSET ts : Stakes(us) <= Stakes(ts)
  /\ \A ts \in SUBSET Tickets : \A t \in Tickets \ ts :
       Stakes(ts \cup {t}) = Stakes(ts) + Lp[t]
  /\ Stakes({}) = 0
<1>1. /\ IsFiniteSet(Tickets)
      /\ \A t \in Tickets : Lp[t] \in Int
      /\ \A t \in Tickets : Lp[t] \in Nat
  BY MarketAssumption
<1>2. \A ts \in SUBSET Tickets : Stakes(ts) \in Int
  BY <1>1, SumType DEF Stakes
<1>3. \A ts \in SUBSET Tickets : \A us \in SUBSET ts : Stakes(us) <= Stakes(ts)
  BY <1>1, SumMonotone DEF Stakes
<1>4. \A ts \in SUBSET Tickets : \A t \in Tickets \ ts :
        Stakes(ts \cup {t}) = Stakes(ts) + Lp[t]
  BY <1>1, SumAdd DEF Stakes
<1> QED
  BY <1>2, <1>3, <1>4, SumEmpty DEF Stakes

LEMMA HandsType ==
  ASSUME TypeOK
  PROVE  /\ InPlay \subseteq Tickets /\ InHand \subseteq Tickets /\ Taken \subseteq InHand
         /\ IsFiniteSet(InHand) /\ Cardinality(InHand) \in Nat
         /\ \A q \in SUBSET InHand :
              IsFiniteSet(q) /\ Cardinality(q) \in Nat /\ Cardinality(q) <= Cardinality(InHand)
<1>1. InPlay \subseteq Tickets /\ InHand \subseteq Tickets /\ Taken \subseteq InHand
  BY DEF TypeOK, InPlay, InHand, Taken, Pending
<1>2. IsFiniteSet(InHand)
  BY <1>1, MarketAssumption, FS_Subset
<1>3. ASSUME NEW q \in SUBSET InHand
      PROVE  IsFiniteSet(q) /\ Cardinality(q) <= Cardinality(InHand)
  BY <1>2, FS_Subset
<1> QED
  BY <1>1, <1>2, <1>3, FS_CardinalityType

\* Fewer bets in play, by the same caps: those left have seen no less.
LEMMA FewerInPlay ==
  ASSUME CapInv, InPlay' \subseteq InPlay, InHand' \subseteq InHand,
         \A t \in InPlay' : cap'[t] = cap[t],
         \A t \in recorded' : bet'[t] = "done"
  PROVE  CapDiscipline'
<1>1. Cardinality(InHand') <= Lanes
  BY HandsType, MarketAssumption DEF CapInv, TypeInv, CapDiscipline
<1>2. \A t \in InPlay' : Lp[t] <= cap'[t]
  BY DEF CapInv, CapDiscipline
<1>3. ASSUME NEW ts \in SUBSET InPlay', ts # {}, OneBettor(ts)
      PROVE  \E t \in ts, unseen \in SUBSET ts :
               Cardinality(unseen) < Lanes /\ Stakes(ts \ unseen) <= cap'[t]
  <2>1. ts \in SUBSET InPlay
    BY <1>3
  <2>2. PICK t \in ts, unseen \in SUBSET ts : Admits(ts, t, unseen)
    BY <1>3, <2>1 DEF CapInv, CapDiscipline
  <2>3. cap'[t] = cap[t]
    BY <1>3
  <2> QED
    BY <2>2, <2>3 DEF Admits
<1> QED
  BY <1>1, <1>2, <1>3 DEF CapDiscipline, Admits, OneBettor, Stakes

\* A handler comes to the proposal: there is a lane for it.
LEMMA SeeCapped ==
  ASSUME CapInv, NEW t \in Tickets, See(t)
  PROVE  CapDiscipline'
<1>0. /\ TypeOK /\ bet \in [Tickets -> Stage] /\ cap \in [Tickets -> MaxBets \cup {0}]
      /\ Lanes \in Nat /\ recorded \subseteq Tickets
  BY MarketAssumption DEF CapInv, TypeInv, TypeOK
<1>1. /\ InHand' = InHand \cup {t} /\ InPlay' = InPlay /\ UNCHANGED recorded
      /\ \A u \in Tickets \ {t} : cap'[u] = cap[u] /\ bet'[u] = bet[u]
      /\ bet[t] = "new" /\ Cardinality(InHand) < Lanes
  BY <1>0 DEF See, InHand, InPlay, Taken, Pending
<1>2. t \notin InPlay /\ t \notin recorded
  BY <1>1 DEF InPlay, Taken, Pending, CapInv, CapDiscipline
<1>3. InPlay \subseteq Tickets /\ \A u \in InPlay : cap'[u] = cap[u]
  BY <1>0, <1>1, <1>2, HandsType
<1>4. Cardinality(InHand') <= Lanes
  <2>1. t \notin InHand
    BY <1>1 DEF InHand
  <2>2. Cardinality(InHand \cup {t}) = Cardinality(InHand) + 1
    BY <1>0, <2>1, HandsType, FS_AddElement
  <2> QED
    BY <1>0, <1>1, <2>2, HandsType
<1>5. \A u \in recorded' : bet'[u] = "done"
  BY <1>0, <1>1, <1>2 DEF CapInv, CapDiscipline
<1>6. \A u \in InPlay' : Lp[u] <= cap'[u]
  BY <1>1, <1>3 DEF CapInv, CapDiscipline
<1>7. ASSUME NEW ts \in SUBSET InPlay', ts # {}, OneBettor(ts)
      PROVE  \E u \in ts, unseen \in SUBSET ts :
               Cardinality(unseen) < Lanes /\ Stakes(ts \ unseen) <= cap'[u]
  <2>1. ts \in SUBSET InPlay
    BY <1>1, <1>7
  <2>2. PICK u \in ts, unseen \in SUBSET ts : Admits(ts, u, unseen)
    BY <1>7, <2>1 DEF CapInv, CapDiscipline
  <2>3. cap'[u] = cap[u]
    BY <1>3, <2>1
  <2> QED
    BY <2>2, <2>3 DEF Admits
<1> QED
  BY <1>4, <1>5, <1>6, <1>7 DEF CapDiscipline, Admits, OneBettor, Stakes

\* A bet let pass: its handler has seen all but what the others have in hand.
LEMMA TakeCapped ==
  ASSUME CapInv, NEW t \in Tickets, Take(t)
  PROVE  CapDiscipline'
<1>0. /\ TypeOK /\ bet \in [Tickets -> Stage] /\ cap \in [Tickets -> MaxBets \cup {0}]
      /\ MaxBets \subseteq Nat /\ Lanes \in Nat /\ Lp[t] \in Nat /\ recorded \subseteq Tickets
      /\ UNCHANGED <<recorded, refunded, cap>> /\ bet' = [bet EXCEPT ![t] = "taken"]
      /\ bet[t] = "seen"
  BY MarketAssumption DEF CapInv, TypeInv, TypeOK, Take
<1>1. InHand' = InHand /\ Taken' = Taken \cup {t} /\ Pending' = Pending /\ t \in InHand
  BY <1>0 DEF InHand, Taken, Pending
<1>2. InPlay' = InPlay \cup {t} /\ InPlay \subseteq Tickets /\ t \notin recorded
  BY <1>0, <1>1, HandsType DEF InPlay, CapInv, CapDiscipline
<1>3. cap[t] \in Int
  <2>1. cap[t] \in MaxBets \cup {0}
    BY <1>0
  <2>2. \A m \in MaxBets : m \in Int
    BY MarketAssumption
  <2> QED
    BY <2>1, <2>2
<1> DEFINE own == OfBettor(t)
<1>4. own \in SUBSET Pending /\ own \in SUBSET Tickets /\ t \notin own
  BY <1>0, <1>2 DEF OfBettor, Pending
<1>5. Stakes(own \cup {t}) <= cap[t] /\ Stakes(own \cup {t}) \in Int
      /\ own \cup {t} \in SUBSET Tickets /\ Lp[t] <= cap[t]
  <2>1. LpOf(Rows, own) + Lp[t] <= cap[t]
    BY DEF Take, WithinCap
  <2>2. LpOf(Rows, own) = Stakes(own)
    BY <1>0, <1>4, RowsAreStakes
  <2> HIDE DEF own
  <2>3. Stakes(own \cup {t}) = Stakes(own) + Lp[t]
    BY <1>4, StakesTheorem
  <2>4. Stakes({}) <= Stakes(own) /\ Stakes({}) = 0 /\ Stakes(own) \in Int
    BY <1>4, StakesTheorem
  <2> QED
    BY <1>0, <1>3, <1>4, <2>1, <2>2, <2>3, <2>4
<1>6. Cardinality(InHand') <= Lanes /\ \A u \in recorded' : bet'[u] = "done"
  BY <1>0, <1>1, <1>2 DEF CapInv, CapDiscipline
<1>7. \A u \in InPlay' : Lp[u] <= cap'[u]
  BY <1>0, <1>2, <1>5 DEF CapInv, CapDiscipline
<1>8. ASSUME NEW ts \in SUBSET InPlay', ts # {}, OneBettor(ts)
      PROVE  \E u \in ts, unseen \in SUBSET ts : Admits(ts, u, unseen)
  <2>1. CASE t \in ts
    <3> DEFINE unseen == ts \cap (Taken \ {t})
    <3>1. Cardinality(unseen) < Lanes
      <4>1. Cardinality(InHand \ {t}) = Cardinality(InHand) - 1
        BY <1>1, <1>0, HandsType, FS_RemoveElement
      <4>2. unseen \in SUBSET (InHand \ {t}) /\ (InHand \ {t}) \in SUBSET InHand
        BY <1>0, HandsType
      <4>3. IsFiniteSet(InHand \ {t}) /\ Cardinality(InHand \ {t}) \in Nat
        BY <1>0, <4>2, HandsType
      <4>4. Cardinality(unseen) <= Cardinality(InHand \ {t})
        BY <4>2, <4>3, FS_Subset
      <4>5. unseen \in SUBSET InHand
        BY <4>2
      <4>6. Cardinality(unseen) \in Nat
        BY <1>0, <4>5, HandsType
      <4>7. Cardinality(InHand) <= Lanes
        BY DEF CapInv, CapDiscipline
      <4> HIDE DEF unseen
      <4> QED
        BY <1>0, <4>1, <4>4, <4>6, <4>7, HandsType
    <3>2. ts \ unseen \subseteq own \cup {t}
      BY <1>1, <1>2, <1>8, <2>1 DEF InPlay, OfBettor, OneBettor
    <3>3. Stakes(ts \ unseen) <= Stakes(own \cup {t}) /\ Stakes(ts \ unseen) \in Int
      <4>1. ts \ unseen \in SUBSET (own \cup {t}) /\ ts \ unseen \in SUBSET Tickets
        BY <1>5, <3>2
      <4> HIDE DEF own, unseen
      <4> QED
        BY <1>5, <4>1, StakesTheorem
    <3>4. Stakes(ts \ unseen) <= cap[t]
      <4> HIDE DEF own, unseen
      <4> QED
        BY <1>3, <1>5, <3>3
    <3> QED
      BY <2>1, <3>1, <3>4 DEF Admits
  <2>2. CASE t \notin ts
    <3>1. ts \in SUBSET InPlay
      BY <1>2, <2>2
    <3> QED
      BY <1>8, <3>1 DEF CapInv, CapDiscipline
  <2> QED
    BY <2>1, <2>2
<1> QED
  BY <1>0, <1>6, <1>7, <1>8 DEF CapDiscipline, Admits, OneBettor, Stakes

LEMMA NextCap == CapInv /\ [Next]_vars => CapInv'
<1> SUFFICES ASSUME CapInv, [Next]_vars PROVE CapInv'
  OBVIOUS
<1> DEFINE Fewer == /\ InPlay' \subseteq InPlay /\ InHand' \subseteq InHand
                    /\ \A t \in InPlay' : cap'[t] = cap[t]
                    /\ \A t \in recorded' : bet'[t] = "done"
<1>0. /\ TypeOK /\ recorded \subseteq Tickets /\ bet \in [Tickets -> Stage]
      /\ cap \in [Tickets -> MaxBets \cup {0}] /\ \A t \in recorded : bet[t] = "done"
  BY DEF CapInv, TypeInv, TypeOK, CapDiscipline
<1>1. ASSUME NEW t \in Tickets, Refuse(t) \/ Insert(t) \/ Rollback(t)
      PROVE  Fewer
  <2>1. CASE Refuse(t)
    BY <1>0, <2>1 DEF Refuse, InPlay, Pending, InHand, Taken
  <2>2. CASE Insert(t)
    BY <1>0, <2>2 DEF Insert, InPlay, Pending, InHand, Taken
  <2>3. CASE Rollback(t)
    BY <1>0, <2>3 DEF Rollback, InPlay, Pending, InHand, Taken
  <2> QED
    BY <1>1, <2>1, <2>2, <2>3
<1>2. ASSUME NEW c \in Cancels, Mark(c)
      PROVE  Fewer
  BY <1>0, <1>2 DEF Mark, InPlay, Pending, InHand, Taken, bets
<1>3. ASSUME UNCHANGED <<cap, bet, recorded, refunded>>
      PROVE  Fewer
  BY <1>0, <1>3 DEF InPlay, Pending, InHand, Taken
<1>4. \/ \E t \in Tickets : Bet(t)
      \/ \E c \in Cancels : Mark(c)
      \/ UNCHANGED <<cap, bet, recorded, refunded>>
  BY DEF Next, Settle, Pick, Read, Gate, Pay, PayFails, Finish, Cancel, PickCancel, ReadCancel,
         MarkFails, Refund, Close, NextTick, Stop, Expire, Edit, Toggle, vars, bets
<1>5. Fewer => CapDiscipline'
  BY FewerInPlay
<1>6. CapDiscipline'
  <2> HIDE DEF Fewer
  <2> QED
    BY <1>1, <1>2, <1>3, <1>4, <1>5, SeeCapped, TakeCapped DEF Bet
<1> QED
  BY <1>6, NextType DEF CapInv

\* Over the cap by what the other lanes had in hand, never by more: but for
\* fewer bets than there are lanes, everybody's pending bets keep to the cap
\* that the handler of the last of them has read, however often the cap is
\* moved, and no bet alone exceeds the cap of its own handler.
THEOREM BetsKeepToTheCap == Spec => []OverCapByOtherLanes
<1>1. Init => CapInv
  <2> SUFFICES ASSUME Init PROVE CapInv
    OBVIOUS
  <2>1. InPlay = {} /\ InHand = {} /\ recorded = {}
    BY DEF Init, InPlay, Pending, InHand, Taken
  <2>2. Cardinality(InHand) <= Lanes
    BY <2>1, FS_EmptySet, MarketAssumption
  <2> QED
    BY <2>1, <2>2, InitType DEF CapInv, CapDiscipline
<1>2. CapInv => OverCapByOtherLanes
  <2> SUFFICES ASSUME CapInv, NEW t \in Pending
               PROVE  /\ Lp[t] <= cap[t]
                      /\ \E u \in OfBettor(t), unseen \in SUBSET OfBettor(t) :
                           /\ Cardinality(unseen) < Lanes
                           /\ LpOf(Rows, OfBettor(t) \ unseen) <= cap[u]
    BY DEF OverCapByOtherLanes
  <2>1. /\ TypeOK /\ t \in InPlay /\ t \in OfBettor(t)
        /\ OfBettor(t) \subseteq Pending /\ OfBettor(t) \in SUBSET InPlay
        /\ OneBettor(OfBettor(t))
    BY DEF CapInv, TypeInv, InPlay, OfBettor, OneBettor
  <2>2. PICK u \in OfBettor(t), unseen \in SUBSET OfBettor(t) : Admits(OfBettor(t), u, unseen)
    BY <2>1 DEF CapInv, CapDiscipline
  <2>3. LpOf(Rows, OfBettor(t) \ unseen) = Stakes(OfBettor(t) \ unseen)
    BY <2>1, RowsAreStakes
  <2>4. Lp[t] <= cap[t]
    BY <2>1 DEF CapInv, CapDiscipline
  <2> QED
    BY <2>2, <2>3, <2>4 DEF Admits
<1> QED
  BY <1>1, <1>2, NextCap, PTL DEF Spec
=============================================================================
