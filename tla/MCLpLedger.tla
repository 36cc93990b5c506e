---------------------------- MODULE MCLpLedger ----------------------------
(***************************************************************************)
(* A small community for LpLedger: three open_ids of one person, each      *)
(* under another agent's app, and a treasure chest, served by two          *)
(* connections.  Amounts are the code's, in tenths of an LP.               *)
(***************************************************************************)
EXTENDS LpLedger, TLC

CONSTANTS alias, member, elder, chest

MCIds == {alias, member, elder, chest}
MCChests == {chest}
MCLinks == {<<alias, member>>, <<member, elder>>}
MCBadges == {"first_contact", "og"}
MCRewards == {600, -600}
MCCosts == {700}

\* Connections of the pool are interchangeable.
MCSymmetry == Permutations(Sessions)
=============================================================================
