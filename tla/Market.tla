------------------------------- MODULE Market -------------------------------
(***************************************************************************)
(* One proposal of a market: a prediction a judge announces ("bet":        *)
(* core/predict-*.ts) or an intent survey that settles itself ("tc":       *)
(* core/tc-*.ts, scheduleTcSettlement of core/supervisor.ts).  Proposal    *)
(* and bets are rows of the soul database, LP lives in the shared one, and *)
(* no transaction spans the two.                                           *)
(*                                                                         *)
(* The bot takes bets one at a time, and so does the backfill that may run *)
(* beside it; the scheduler is the supervisor's; cancellations, judges'    *)
(* announcements and the CLI run in whatever process they are made in.     *)
(* LP transactions are LpLedger's; here a grant or a spend happens or not. *)
(***************************************************************************)
EXTENDS Payout

CONSTANTS
  Tickets,     \* bet messages
  Bettor,      \* [Tickets -> the sender]
  Choice,      \* [Tickets -> Options]
  Lp,          \* [Tickets -> Nat \ {0}]: the stake in tenths
  Options,
  MaxBets,     \* values of max_bet_lp, in tenths
  Lanes,       \* bet messages in hand at a time: the live events, the backfill
  MaxEdits,    \* bound: "tc edit" commands
  Settlers,    \* settlement runs
  Scheduler,   \* the one that is the supervisor's and comes back every minute
  Cancels,     \* cancellation runs
  NoTicket,
  LostAnswers, \* whether the INSERT of a bet may take effect and report an error
  MaxStops     \* bound: scheduler runs that die half-way

ASSUME MarketAssumption ==
  /\ IsFiniteSet(Tickets)
  /\ Choice \in [Tickets -> Options]
  /\ Lp \in [Tickets -> Nat \ {0}]
  /\ MaxBets \subseteq Nat
  /\ Lanes \in Nat
  /\ MaxEdits \in Nat
  /\ Scheduler \in Settlers
  /\ NoTicket \notin Tickets
  /\ LostAnswers \in BOOLEAN
  /\ MaxStops \in Nat

VARIABLES
  kind,      \* "bet" or "tc"
  maxBet,    \* max_bet_lp
  status,    \* the proposal's
  result,    \* settled_option: the options that won
  expired,   \* end_time has passed
  bet,       \* [Tickets -> Stage]: the handler of each bet message
  cap,       \* [Tickets -> Nat]: max_bet_lp as that handler has read it, or 0
  edits,
  recorded,  \* the tickets with a row in predict_bets / tc_bets
  refunded,  \* those whose is_refunded is 1
  paid,      \* [Tickets -> Nat]: predict_reward / tc_reward grants
  returned,  \* [Tickets -> Nat]: predict_refund_cancel / tc_refund_cancel grants
  chest,     \* predict_chest_contribute grants
  settle,    \* [Settlers -> Settling]
  cancel,    \* [Cancels -> Cancelling]
  lpUp,      \* the shared database answers
  stops

vars == <<kind, maxBet, status, result, expired, edits, bet, cap, recorded, refunded,
          paid, returned, chest, settle, cancel, lpUp, stops>>
proposal == <<kind, maxBet, status, result, expired, edits>>
bets == <<bet, cap>>
grants == <<paid, returned, chest>>

\* seen: the handler has read the proposal.  taken: the stake is spent, the bet
\* not yet recorded.  done: the message has been dealt with; whether it is a bet
\* is what recorded says, and the handler may be mistaken about it.
Stage == {"new", "seen", "taken", "done"}
InHand == {t \in Tickets : bet[t] \in {"seen", "taken"}}

Settling == [at : {"idle", "picked", "read", "pay", "over", "finished"},
             winners : SUBSET Options, bets : SUBSET Tickets, todo : SUBSET Tickets]
NoSettling == [at |-> "idle", winners |-> {}, bets |-> {}, todo |-> {}]
Over == [NoSettling EXCEPT !.at = "over"]

Cancelling == [at : {"idle", "picked", "refund", "done"},
               todo : SUBSET Tickets, marked : Tickets \cup {NoTicket}]
NoCancelling == [at |-> "idle", todo |-> {}, marked |-> NoTicket]

Init ==
  /\ kind \in {"bet", "tc"}
  /\ maxBet \in MaxBets
  /\ status = "active"
  /\ result = {}
  /\ expired = FALSE
  /\ edits = 0
  /\ bet = [t \in Tickets |-> "new"]
  /\ cap = [t \in Tickets |-> 0]
  /\ recorded = {}
  /\ refunded = {}
  /\ paid = [t \in Tickets |-> 0]
  /\ returned = [t \in Tickets |-> 0]
  /\ chest = 0
  /\ settle = [k \in Settlers |-> NoSettling]
  /\ cancel = [c \in Cancels |-> NoCancelling]
  /\ lpUp = TRUE
  /\ stops = 0

-----------------------------------------------------------------------------
(* A bet message: tryParsePredictBet, tryParseTcBet.                       *)

Rows == [t \in recorded |-> [option |-> Choice[t], lp |-> Lp[t]]]
Pending == recorded \ refunded
OfBettor(t) == {u \in Pending : Bettor[u] = Bettor[t]}

\* Mutant of WithinCap: the new bet is not added to what there is.
WithinCapBefore(t) == LpOf(Rows, OfBettor(t)) <= cap[t]

\* getUserTotalBetLp, against the proposal the handler was given.
WithinCap(t) == LpOf(Rows, OfBettor(t)) + Lp[t] <= cap[t]

\* list...ByChat finds the proposal active: its row is what the handler works
\* with from here on.  That end_time lies ahead is not asked.
See(t) ==
  /\ bet[t] = "new"
  /\ Cardinality(InHand) < Lanes
  /\ status = "active"
  /\ bet' = [bet EXCEPT ![t] = "seen"]
  /\ cap' = [cap EXCEPT ![t] = maxBet]
  /\ UNCHANGED <<proposal, recorded, refunded, grants, settle, cancel, lpUp, stops>>

\* The cap admits the bet and spendPt takes the stake.  What another process
\* does between these two could as well be done before or after.
Take(t) ==
  /\ bet[t] = "seen"
  /\ WithinCap(t)
  /\ lpUp
  /\ bet' = [bet EXCEPT ![t] = "taken"]
  /\ UNCHANGED <<proposal, cap, recorded, refunded, grants, settle, cancel, lpUp, stops>>

\* The chat has no active proposal, or the bet is over the cap, or the balance
\* too low, or the shared database away.
Refuse(t) ==
  /\ bet[t] = "seen" \/ (bet[t] = "new" /\ status # "active")
  /\ bet' = [bet EXCEPT ![t] = "done"]
  /\ cap' = [cap EXCEPT ![t] = 0]
  /\ UNCHANGED <<proposal, recorded, refunded, grants, settle, cancel, lpUp, stops>>

\* Nothing ties the INSERT to the proposal's status.
Insert(t) ==
  /\ bet[t] = "taken"
  /\ bet' = [bet EXCEPT ![t] = "done"]
  /\ recorded' = recorded \cup {t}
  /\ UNCHANGED <<proposal, cap, refunded, grants, settle, cancel, lpUp, stops>>

\* The INSERT throws and the stake is granted back, unless that throws as well.
Rollback(t) ==
  /\ bet[t] = "taken"
  /\ bet' = [bet EXCEPT ![t] = "done"]
  /\ \/ UNCHANGED recorded /\ cap' = [cap EXCEPT ![t] = 0]
     \/ LostAnswers /\ recorded' = recorded \cup {t} /\ UNCHANGED cap
  /\ UNCHANGED <<proposal, refunded, grants, settle, cancel, lpUp, stops>>

-----------------------------------------------------------------------------
(* Settlement: settlePredict, settleTc.                                    *)

\* Mutant of Due: the scheduler picks surveys that are still running.
DueEarly(k) == kind = "tc" /\ k = Scheduler => ~expired

\* The scheduler lists expired surveys; the CLI settles a survey at any time,
\* and judges announce whenever they like (k is then one more announcement).
Due(k) == kind = "tc" /\ k = Scheduler => expired

\* The caller has read the proposal.  A judge names the winner.
Pick(k) ==
  /\ settle[k].at = "idle"
  /\ status = "active"
  /\ Due(k)
  /\ \E o \in Options :
       settle' = [settle EXCEPT ![k].at = "picked",
                                ![k].winners = IF kind = "bet" THEN {o} ELSE {}]
  /\ UNCHANGED <<proposal, bets, recorded, refunded, grants, cancel, lpUp, stops>>

PendingRows == [t \in Pending |-> Rows[t]]

\* getPredictBets / getTcBets, and who has won.
Read(k) ==
  /\ settle[k].at = "picked"
  /\ settle' = [settle EXCEPT ![k].at = "read",
                              ![k].bets = Pending,
                              ![k].winners = IF kind = "bet" THEN @ ELSE TopOptions(PendingRows)]
  /\ UNCHANGED <<proposal, bets, recorded, refunded, grants, cancel, lpUp, stops>>

\* Mutant of Gate: the UPDATE has lost its "AND status = 'active'".
GateUngated(k) ==
  /\ settle[k].at = "read"
  /\ status' = "settled"
  /\ result' = settle[k].winners
  /\ settle' = [settle EXCEPT ![k].at = "pay",
                              ![k].todo = {t \in settle[k].bets : Choice[t] \in settle[k].winners}]
  /\ UNCHANGED <<kind, maxBet, expired, edits, bets, recorded, refunded, grants, cancel, lpUp, stops>>

\* Mutant of Gate: the gate is read before it is written, and reported passed.
GateOverwritten(k) ==
  /\ settle[k].at = "read"
  /\ status' = IF status = "active" THEN "settled" ELSE status
  /\ result' = settle[k].winners
  /\ settle' = IF status = "active"
                 THEN [settle EXCEPT ![k].at = "pay",
                                     ![k].todo = {t \in settle[k].bets : Choice[t] \in settle[k].winners}]
                 ELSE [settle EXCEPT ![k] = Over]
  /\ UNCHANGED <<kind, maxBet, expired, edits, bets, recorded, refunded, grants, cancel, lpUp, stops>>

\* settlePredictProposal / settleTcProposal: UPDATE ... WHERE status = 'active'.
Gate(k) ==
  /\ settle[k].at = "read"
  /\ IF status = "active"
       THEN /\ status' = "settled"
            /\ result' = settle[k].winners
            /\ settle' = [settle EXCEPT ![k].at = "pay",
                                        ![k].todo = {t \in settle[k].bets : Choice[t] \in settle[k].winners}]
       ELSE /\ settle' = [settle EXCEPT ![k] = Over]
            /\ UNCHANGED <<status, result>>
  /\ UNCHANGED <<kind, maxBet, expired, edits, bets, recorded, refunded, grants, cancel, lpUp, stops>>

\* grantPt to one winner.
Pay(k) ==
  /\ settle[k].at = "pay"
  /\ lpUp
  /\ \E t \in settle[k].todo :
       /\ paid' = [paid EXCEPT ![t] = @ + 1]
       /\ settle' = [settle EXCEPT ![k].todo = @ \ {t}]
  /\ UNCHANGED <<proposal, bets, recorded, refunded, returned, chest, cancel, lpUp, stops>>

\* The chest has its part of a prediction anyone has bet on.
FillsChest(k) == kind = "bet" /\ settle[k].bets # {}

Finish(k) ==
  /\ settle[k].at = "pay"
  /\ settle[k].todo = {}
  /\ FillsChest(k) => lpUp
  /\ chest' = IF FillsChest(k) THEN chest + 1 ELSE chest
  /\ settle' = [settle EXCEPT ![k].at = "finished"]
  /\ UNCHANGED <<proposal, bets, recorded, refunded, paid, returned, cancel, lpUp, stops>>

\* Mutant of PayFails: a failed grant is logged and the next winner's turn comes.
PayFailsQuietly(k) ==
  /\ settle[k].at = "pay"
  /\ ~lpUp
  /\ \E t \in settle[k].todo : settle' = [settle EXCEPT ![k].todo = @ \ {t}]
  /\ UNCHANGED <<proposal, bets, recorded, refunded, grants, cancel, lpUp, stops>>

\* A grant throws: nothing catches it before the whole run is given up.
PayFails(k) ==
  /\ settle[k].at = "pay"
  /\ ~lpUp
  /\ settle[k].todo # {} \/ FillsChest(k)
  /\ settle' = [settle EXCEPT ![k] = Over]
  /\ UNCHANGED <<proposal, bets, recorded, refunded, grants, cancel, lpUp, stops>>

\* A minute later.
NextTick ==
  /\ kind = "tc"
  /\ settle[Scheduler].at \in {"over", "finished"}
  /\ settle' = [settle EXCEPT ![Scheduler] = NoSettling]
  /\ UNCHANGED <<proposal, bets, recorded, refunded, grants, cancel, lpUp, stops>>

-----------------------------------------------------------------------------
(* Cancellation: cancelPredictWithRefund, cancelTcWithRefund, refundTcBets. *)

PickCancel(c) ==
  /\ cancel[c].at = "idle"
  /\ status = "active"
  /\ cancel' = [cancel EXCEPT ![c].at = "picked"]
  /\ UNCHANGED <<proposal, bets, recorded, refunded, grants, settle, lpUp, stops>>

\* getUnrefundedBets.
ReadCancel(c) ==
  /\ cancel[c].at = "picked"
  /\ cancel' = [cancel EXCEPT ![c].at = "refund", ![c].todo = Pending]
  /\ UNCHANGED <<proposal, bets, recorded, refunded, grants, settle, lpUp, stops>>

\* Mutant of Mark: the flag is set after the grant.
MarkLater(c) ==
  /\ cancel[c].at = "refund"
  /\ cancel[c].marked = NoTicket
  /\ \E t \in cancel[c].todo :
       cancel' = [cancel EXCEPT ![c].todo = @ \ {t}, ![c].marked = t]
  /\ UNCHANGED <<proposal, bets, recorded, refunded, grants, settle, lpUp, stops>>

\* markBetRefunded; whether it changed the row is not asked.
Mark(c) ==
  /\ cancel[c].at = "refund"
  /\ cancel[c].marked = NoTicket
  /\ \E t \in cancel[c].todo :
       /\ refunded' = refunded \cup {t}
       /\ cancel' = [cancel EXCEPT ![c].todo = @ \ {t}, ![c].marked = t]
  /\ UNCHANGED <<proposal, bets, recorded, grants, settle, lpUp, stops>>

\* It throws: the bet is passed over.
MarkFails(c) ==
  /\ cancel[c].at = "refund"
  /\ cancel[c].marked = NoTicket
  /\ \E t \in cancel[c].todo : cancel' = [cancel EXCEPT ![c].todo = @ \ {t}]
  /\ UNCHANGED <<proposal, bets, recorded, refunded, grants, settle, lpUp, stops>>

\* grantPt, whose failure is logged and no more.
Refund(c) ==
  LET t == cancel[c].marked IN
  /\ t # NoTicket
  /\ returned' = IF lpUp THEN [returned EXCEPT ![t] = @ + 1] ELSE returned
  /\ cancel' = [cancel EXCEPT ![c].marked = NoTicket]
  /\ UNCHANGED <<proposal, bets, recorded, refunded, paid, chest, settle, lpUp, stops>>

\* cancelPredictProposal / cancelTcProposal, whose answer is not used.
Close(c) ==
  /\ cancel[c].at = "refund"
  /\ cancel[c].todo = {}
  /\ cancel[c].marked = NoTicket
  /\ status' = IF status = "active" THEN "cancelled" ELSE status
  /\ cancel' = [cancel EXCEPT ![c].at = "done"]
  /\ UNCHANGED <<kind, maxBet, result, expired, edits, bets, recorded, refunded, grants, settle, lpUp, stops>>

-----------------------------------------------------------------------------
\* updateTcProposal: an administrator moves the cap, the end, or both, of a
\* survey in any state.  (A prediction has no such command.)
Edit ==
  /\ kind = "tc"
  /\ edits < MaxEdits
  /\ maxBet' \in MaxBets
  /\ expired' \in BOOLEAN
  /\ edits' = edits + 1
  /\ UNCHANGED <<kind, status, result, bets, recorded, refunded, grants, settle, cancel,
                 lpUp, stops>>

\* The supervisor dies and is restarted, or a query of the soul database
\* throws.  (Any other run that dies is one that takes no further step: they
\* hold no lock and nothing waits for them.)
Stop ==
  /\ kind = "tc"
  /\ stops < MaxStops
  /\ settle[Scheduler].at \in {"picked", "read", "pay"}
  /\ settle' = [settle EXCEPT ![Scheduler] = Over]
  /\ stops' = stops + 1
  /\ UNCHANGED <<proposal, bets, recorded, refunded, grants, cancel, lpUp>>

\* Nothing asks for the end_time of a prediction.
Expire ==
  /\ kind = "tc"
  /\ ~expired
  /\ expired' = TRUE
  /\ UNCHANGED <<kind, maxBet, status, result, edits, bets, recorded, refunded, grants, settle, cancel, lpUp, stops>>

Toggle ==
  /\ lpUp' = ~lpUp
  /\ UNCHANGED <<proposal, bets, recorded, refunded, grants, settle, cancel, stops>>

Bet(t) == See(t) \/ Take(t) \/ Refuse(t) \/ Insert(t) \/ Rollback(t)

Settle(k) == Pick(k) \/ Read(k) \/ Gate(k) \/ Pay(k) \/ PayFails(k) \/ Finish(k)

Cancel(c) ==
  \/ PickCancel(c) \/ ReadCancel(c) \/ Mark(c) \/ MarkFails(c) \/ Refund(c) \/ Close(c)

Next ==
  \/ \E t \in Tickets : Bet(t)
  \/ \E k \in Settlers : Settle(k)
  \/ \E c \in Cancels : Cancel(c)
  \/ NextTick \/ Stop \/ Expire \/ Edit \/ Toggle

Spec == Init /\ [][Next]_vars

\* The supervisor's scheduler ticks once a minute and its queries end; it may
\* skip its turn while it knows the shared database is down.
FairSpec == Spec /\ WF_vars(lpUp /\ Settle(Scheduler)) /\ WF_vars(NextTick)

-----------------------------------------------------------------------------
TypeOK ==
  /\ kind \in {"bet", "tc"}
  /\ maxBet \in MaxBets
  /\ status \in {"active", "settled", "cancelled"}
  /\ result \subseteq Options
  /\ expired \in BOOLEAN
  /\ edits \in 0 .. MaxEdits
  /\ bet \in [Tickets -> Stage]
  /\ cap \in [Tickets -> MaxBets \cup {0}]
  /\ recorded \subseteq Tickets
  /\ refunded \subseteq recorded
  /\ paid \in [Tickets -> Nat]
  /\ returned \in [Tickets -> Nat]
  /\ chest \in Nat
  /\ settle \in [Settlers -> Settling]
  /\ cancel \in [Cancels -> Cancelling]
  /\ lpUp \in BOOLEAN
  /\ stops \in 0 .. MaxStops

\* Whoever settles, how often and however it is interrupted: no bet is paid
\* twice and the chest is filled once.
PaidOnce == chest <= 1 /\ \A t \in Tickets : paid[t] <= 1

\* What was paid is what the proposal says: it is settled, and every bet that
\* was paid is on an option that its settled_option names.
PaidByTheResult ==
  \A t \in Tickets : paid[t] > 0 => status = "settled" /\ Choice[t] \in result

\* A settlement that reports success has paid each winning bet it counted and,
\* for a prediction anyone has bet on, the chest.
SuccessMeansPaid ==
  \A k \in Settlers : settle[k].at = "finished" =>
    /\ \A t \in settle[k].bets : Choice[t] \in settle[k].winners => paid[t] = 1
    /\ FillsChest(k) => chest = 1

\* A bet whose stake has gone back is out of every later count, though the
\* flag and the grant are in different databases.
RefundedIsOutOfPlay == \A t \in Tickets : returned[t] > 0 => t \in refunded

\* The cap is read before the bet is recorded, so handlers at work at the same
\* time do not see each other's bets, and an administrator may lower it after a
\* bet was let pass.  But for one bet for each handler beside the one, a bettor
\* keeps to the cap that the handler of one of those bets has read, and no bet
\* alone is over the cap of its own handler.
OverCapByOtherLanes ==
  \A t \in Pending :
    /\ Lp[t] <= cap[t]
    /\ \E u \in OfBettor(t), unseen \in SUBSET OfBettor(t) :
         Cardinality(unseen) < Lanes /\ LpOf(Rows, OfBettor(t) \ unseen) <= cap[u]

\* Once the shared database answers for good, an expired survey does not stay
\* open, whatever was down or died before, unless its end is moved.
ExpiredSurveyCloses ==
  <>[]lpUp => (kind = "tc" /\ expired ~> status # "active" \/ ~expired)

\* "settling in a loop that would fail on every proposal's grantPt call every
\* minute ... makes the next tick's retry safe" (supervisor.ts:769): a survey
\* whose payout failed is paid by a later tick.
WinnersGetPaid ==
  <>[]lpUp => \A t \in Tickets :
    (settle[Scheduler].at = "pay" /\ t \in settle[Scheduler].todo /\ kind = "tc")
      ~> paid[t] = 1
=============================================================================
