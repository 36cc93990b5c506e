------------------------------ MODULE MCMarket ------------------------------
(***************************************************************************)
(* Two bets of one person, on different options.  One cap admits the       *)
(* smaller alone, the other both; an edit goes from one to the other.      *)
(***************************************************************************)
EXTENDS Market, TLC

CONSTANTS member, yes, no, t1, t2, scheduler

MCBettor == [t \in Tickets |-> member]
MCChoice == (t1 :> yes) @@ (t2 :> no)
MCLp == (t1 :> 10) @@ (t2 :> 20)
=============================================================================
