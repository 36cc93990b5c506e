---------------------------- MODULE AccountBook ----------------------------
(***************************************************************************)
(* What the exported operations of core/store/gamification.ts promise: an  *)
(* account book in which each of them, done or refused, is one step.  A    *)
(* person earns, spends what is there, checks in once a day; the community *)
(* is topped up or levelled, chests excepted; one identity becomes         *)
(* another's alias.  Newcomers are welcomed on the way.                    *)
(***************************************************************************)
EXTENDS Integers

CONSTANTS
  Ids, Chests, Links,
  Rewards, Costs,                   \* what is granted (or taken) and spent
  FirstContactPt, DailyCheckinPt,
  MaxDay                            \* bound

VARIABLES
  members,    \* who has an account
  balance,    \* [Ids -> Int]
  signed,     \* <<id, day>>: who has checked in on which day
  identity    \* [Ids -> Ids]: whose account an id's is

book == <<members, balance, signed, identity>>

Init ==
  /\ members = {}
  /\ balance = [i \in Ids |-> 0]
  /\ signed = {}
  /\ identity = [i \in Ids |-> i]

Welcome == {{}} \cup {{i} : i \in Ids}

\* An account is opened if need be, somebody is welcomed or nobody, and d is
\* booked on account i.
Serve(i, d, welcomed) ==
  /\ welcomed \subseteq members' /\ (d # 0 => i \in members')
  /\ identity' = identity
  /\ \E k \in Ids : members' = members \cup {k}
  /\ balance' = [k \in Ids |-> balance[k] + (IF k = i THEN d ELSE 0)
                                          + (IF k \in welcomed THEN FirstContactPt ELSE 0)]

Earn(i, d, welcomed) == signed' = signed /\ Serve(i, d, welcomed)

Spend(i, cost, welcomed) ==
  /\ balance[i] + (IF i \in welcomed THEN FirstContactPt ELSE 0) >= cost
  /\ signed' = signed
  /\ Serve(i, -cost, welcomed)

CheckIn(i, day, welcomed) ==
  /\ <<i, day>> \notin signed
  /\ signed' = signed \cup {<<i, day>>}
  /\ Serve(i, DailyCheckinPt, welcomed)

\* The daily floor lifts, resetAllPtTo moves either way; no chest is touched
\* and nobody without an account.
Unchanged == {i \in Ids : balance'[i] = balance[i]}
Level ==
  /\ balance' \in [Ids -> Int]
  /\ Ids \ Unchanged \subseteq members \ Chests
  /\ UNCHANGED <<members, signed, identity>>

\* from's account is closed (or had none), and from is to's alias; so are the
\* aliases of from the merge has seen.
Merge(from, to) ==
  /\ members' \in {members, members \ {from}}
  /\ LET closed == members \ members' IN
       /\ balance' = [i \in Ids |-> IF i \in closed THEN 0 ELSE balance[i]]
       /\ signed' = {c \in signed : c[1] \notin closed}
  /\ \E moved \in SUBSET {i \in Ids : identity[i] = from} :
       identity' = [i \in Ids |-> IF i = from \/ i \in moved THEN to ELSE identity[i]]

Next ==
  \/ \E i \in Ids, welcomed \in Welcome :
       \/ \E d \in Rewards \cup {0} : Earn(i, d, welcomed)
       \/ \E cost \in Costs : Spend(i, cost, welcomed)
       \/ \E day \in 0 .. MaxDay : CheckIn(i, day, welcomed)
  \/ Level
  \/ \E pair \in Links : \E to \in Ids : Merge(pair[1], to)

Spec == Init /\ [][Next]_book
=============================================================================
