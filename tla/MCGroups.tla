------------------------------ MODULE MCGroups ------------------------------
(***************************************************************************)
(* A run of the whole is a run of Groups or of one part of Records, the    *)
(* others where they start.                                                *)
(***************************************************************************)
EXTENDS Groups, Records

\* Two documents in a space and three in the drive, one of them beyond the limit.
Spaces == <<1, 1, 0, 0, 0>>

\* One set of documents and one part of Groups are enough while another side runs.
\* A document beyond the limit is asked about by nobody, ours or not, and the last
\* one within it is ours: others are refused before it.  The order of the bets makes
\* no difference to a settlement: the larger come last.
MCInit ==
  /\ GroupsInit /\ RecordsInit
  /\ side # "groups" => work = "sink"
  /\ ours \subseteq 1 .. MaxTargets
  /\ side # "docs" => ours = {}
  /\ side = "docs" => MaxTargets \in ours
  /\ \A b, c \in DOMAIN bets : b < c => bets[b].lp <= bets[c].lp

\* When writes met in every scope, nothing is claimed of any row's text; nor of the pins
\* once a sweep failed or overlapped another.
MemoriesGoOn == mixed # Y!Scopes
PinsGoOn == ~pinMarred

MCNext ==
  \/ side = "groups" /\ GroupsNext /\ UNCHANGED recordsVars
  \/ RecordsNext /\ (side = "memory" => MemoriesGoOn) /\ (side = "pins" => PinsGoOn)
     /\ UNCHANGED groupsVars

MCSpec == MCInit /\ [][MCNext]_<<groupsVars, recordsVars>>

=============================================================================
