------------------------------- MODULE Payout -------------------------------
(***************************************************************************)
(* The arithmetic of a settlement (core/tc-settlement.ts: computeTcSettlement,*)
(* distributePool): who wins, how large the pool is, what each winning bet *)
(* is paid.  Stakes and payouts are in tenths of an LP, the precision of   *)
(* the ledger; a pool is in twentieths of that, so that its 5% are exact.  *)
(*                                                                         *)
(* bets is a function from the rows of the table to                        *)
(* [option : an option, lp : Nat \ {0}].  A continuous survey's option is  *)
(* <<value, spelling>>: a number as it was typed.                          *)
(*                                                                         *)
(* Totals and distances are exact here and doubles in the code: the same   *)
(* for whole values and whole LP, while sums of tenths that are equal may  *)
(* come out unequal there.                                                 *)
(***************************************************************************)
EXTENDS Integers, FiniteSets, FiniteSetsExt

Backed(bets) == {bets[b].option : b \in DOMAIN bets}

On(bets, os) == {b \in DOMAIN bets : bets[b].option \in os}

LpOf(bets, rows) == SumFunctionOnSet([b \in rows |-> bets[b].lp], rows)

LpOn(bets, os) == LpOf(bets, On(bets, os))

Total(bets) == LpOf(bets, DOMAIN bets)

-----------------------------------------------------------------------------
\* Discrete: the options with the highest total.
TopOptions(bets) ==
  {o \in Backed(bets) : \A q \in Backed(bets) : LpOn(bets, {o}) >= LpOn(bets, {q})}

WeightedSum(bets) == SumFunction([b \in DOMAIN bets |-> bets[b].option[1] * bets[b].lp])

\* Mutant of Average: truncated to a whole number.
AverageTruncated(bets) == 10000 * (WeightedSum(bets) \div Total(bets))

\* Math.round(x * 10000): the average in ten-thousandths, halves go up.
Average(bets) ==
  (20000 * WeightedSum(bets) + Total(bets)) \div (2 * Total(bets))

Distance(x, y) == IF x >= y THEN x - y ELSE y - x

\* Continuous: the options nearest to the average.
Nearest(bets) ==
  LET d(o) == Distance(10000 * o[1], Average(bets))
  IN  {o \in Backed(bets) : \A q \in Backed(bets) : d(o) <= d(q)}

Winners(type, bets) == IF type = "continuous" THEN Nearest(bets) ELSE TopOptions(bets)

-----------------------------------------------------------------------------
HasLosers(bets, winners) == Backed(bets) \ winners # {}

\* Mutant of EffectivePool: || for &&.
EffectivePoolEither(bets, winners, noBonusWhenNoLoser) ==
  (IF noBonusWhenNoLoser \/ ~HasLosers(bets, winners) THEN 20 ELSE 21) * Total(bets)

EffectivePool(bets, winners, noBonusWhenNoLoser) ==
  (IF noBonusWhenNoLoser /\ ~HasLosers(bets, winners) THEN 20 ELSE 21) * Total(bets)

\* The share of bet b, a fraction: each group gets as much as the next, and
\* within a group the stakes decide.
Numerator(bets, pool, b) == pool * bets[b].lp
Denominator(bets, winners, b) ==
  20 * Cardinality(winners) * LpOn(bets, {bets[b].option})

\* Mutant of Share: rounded to the nearest tenth.
ShareRounded(bets, winners, pool, b) ==
  (2 * Numerator(bets, pool, b) + Denominator(bets, winners, b))
    \div (2 * Denominator(bets, winners, b))

\* Floored to a tenth.
Share(bets, winners, pool, b) ==
  Numerator(bets, pool, b) \div Denominator(bets, winners, b)

\* Shares of whole tenths.  In doubles such a share may come out just below,
\* and Math.floor then takes a tenth away; it never comes out a tenth higher.
Whole(bets, winners, pool) ==
  {b \in On(bets, winners) :
     Numerator(bets, pool, b) % Denominator(bets, winners, b) = 0}

\* distributePool: the possible payouts.  Equal stakes in equal groups are
\* computed from equal numbers, so they lose their tenth together.
Distributions(bets, winners, pool) ==
  LET same(b, c) == /\ bets[b].lp = bets[c].lp
                    /\ LpOn(bets, {bets[b].option}) = LpOn(bets, {bets[c].option})
      short == {s \in SUBSET Whole(bets, winners, pool) :
                  \A b \in s, c \in Whole(bets, winners, pool) : same(b, c) => c \in s}
  IN  {[b \in On(bets, winners) |->
          Share(bets, winners, pool, b) - IF b \in s THEN 1 ELSE 0] : s \in short}
=============================================================================
