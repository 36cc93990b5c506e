------------------------------ MODULE MCPayout ------------------------------
(***************************************************************************)
(* Every settlement of up to MaxRows bets: the initial states are the      *)
(* surveys, the one step is computeTcSettlement.                           *)
(***************************************************************************)
EXTENDS Payout, TLC

CONSTANTS x, y, z, MaxRows, Stakes

\* A bet is of a whole number of tenths, and of one at least.
PayoutAssumption == MaxRows \in Nat \ {0} /\ Stakes \subseteq Nat \ {0}

VARIABLES survey, bets, paid

vars == <<survey, bets, paid>>

\* Two people may type the same number in two ways.
OptionsOf(type) ==
  IF type = "discrete" THEN {x, y, z}
  ELSE {<<0, "0">>, <<4, "4">>, <<4, "4.0">>, <<9, "9">>}

Unpaid == [b \in {} |-> 0]

Init ==
  /\ survey \in [type : {"discrete", "continuous"}, noBonusWhenNoLoser : BOOLEAN,
                 open : {TRUE}]
  /\ \E n \in 1 .. MaxRows :
       bets \in [1 .. n -> [option : OptionsOf(survey.type), lp : Stakes]]
  /\ paid = Unpaid

winners == Winners(survey.type, bets)
pool == EffectivePool(bets, winners, survey.noBonusWhenNoLoser)

Settle ==
  /\ survey.open
  /\ paid' \in Distributions(bets, winners, pool)
  /\ survey' = [survey EXCEPT !.open = FALSE]
  /\ UNCHANGED bets

Spec == Init /\ [][Settle]_vars

-----------------------------------------------------------------------------
Settled == ~survey.open

\* The bets on the winning options, and only they, are paid something.
TypeOK ==
  Settled => paid \in [On(bets, winners) -> Nat \ {0}]

\* "every payout is floored, so the distributed total can never legitimately
\* exceed the pool" (tc-settlement.ts), and what is dropped as dust is never
\* more than a tenth of an LP for each payout.
PoolIsDistributed ==
  Settled => LET dust == pool - 20 * SumFunction(paid)
             IN  dust \in 0 .. 20 * Cardinality(DOMAIN paid)

\* Rounding the average to four places before the distances are compared does
\* not change who is nearest to the exact one, when the values are whole and
\* less than 1000 LP are at stake.  From there on it can make a tie of two values
\* of which one is nearer.
NearestToTheExactAverage ==
  survey.type = "continuous" /\ Total(bets) < 10000 =>
    LET d(o) == Distance(o[1] * Total(bets), WeightedSum(bets))
    IN  winners = {o \in Backed(bets) : \A q \in Backed(bets) : d(o) <= d(q)}

\* In a discrete survey a winning bet never returns less than its stake, as
\* long as the 5% apply, which they do by default: ties share a pool that
\* holds all their stakes.
WinnersAreNotWorseOff ==
  /\ Settled
  /\ survey.type = "discrete"
  /\ HasLosers(bets, winners) \/ ~survey.noBonusWhenNoLoser
  => \A b \in DOMAIN paid : paid[b] >= bets[b].lp

\* "No-loser mode: return principal only" (tc-settlement.ts:122): each gets the
\* stake back, give or take the tenth that floating point may cost.
PrincipalReturned ==
  Settled /\ ~HasLosers(bets, winners) /\ survey.noBonusWhenNoLoser =>
    \A b \in DOMAIN paid : paid[b] \in {bets[b].lp - 1, bets[b].lp}
=============================================================================
