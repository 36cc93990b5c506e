---------------------------- MODULE TreasureChest ----------------------------
(***************************************************************************)
(* A treasure chest (core/treasure-chest.ts): a row of chests that names   *)
(* its owner, and an account of the LP economy under the chest's id.       *)
(* Creating one and moving LP take two transactions each; commands of      *)
(* several processes interleave, fail and die between them.                *)
(***************************************************************************)
EXTENDS Integers, FiniteSets, Functions

CONSTANTS
  Members,   \* people who send commands or are paid
  Newcomers, \* those of them without a profile yet
  Chest, Nobody,
  Sessions,  \* commands handled at a time
  Amounts,
  Start,     \* a profile's balance to begin with
  Gift,      \* the first-contact gift
  MaxFailures

VARIABLES
  owner,     \* chests.owner_open_id, or Nobody before there is a row
  opened,    \* accounts with a profile
  balance,   \* [Accounts -> Int]
  command,   \* [Sessions -> Command]
  gifted,    \* accounts that were paid the gift
  hurried,   \* a chest was spent from before its creation was through
  lost,      \* LP debited and never credited
  failures

chestVars == <<owner, opened, balance, command, gifted, hurried, lost, failures>>

\* What the constants stand for, as the theorems about chests use it.
ChestsAssumption ==
  /\ IsFiniteSet(Members) /\ IsFiniteSet(Sessions)
  /\ Newcomers \subseteq Members
  /\ Chest \notin Members /\ Nobody \notin Members \cup {Chest}
  /\ Amounts \subseteq Nat
  /\ {Start, Gift, MaxFailures} \subseteq Nat

Accounts == Members \cup {Chest}
Idle == [at |-> "idle", from |-> Nobody, to |-> Nobody, amount |-> 0]

Init ==
  /\ owner = Nobody
  /\ opened = Members \ Newcomers
  /\ balance = [a \in Accounts |-> IF a \in opened THEN Start ELSE 0]
  /\ command = [s \in Sessions |-> Idle]
  /\ gifted = {}
  /\ hurried = FALSE
  /\ lost = 0
  /\ failures = 0

Done(s) == command' = [command EXCEPT ![s] = Idle]
Fails == failures < MaxFailures /\ failures' = failures + 1

\* createChest: INSERT ... ON CONFLICT DO NOTHING.  Whoever comes second is
\* told so, and no account is touched.
Create(s, m) ==
  /\ command[s] = Idle
  /\ owner = Nobody
  /\ m \in opened
  /\ owner' = m
  /\ command' = [command EXCEPT ![s].at = "seed"]
  /\ UNCHANGED <<opened, balance, gifted, hurried, lost, failures>>

\* Mutated Seed: the account is opened the way a member's is.
SeedAsContact(s) ==
  /\ command[s].at = "seed"
  /\ opened' = opened \cup {Chest}
  /\ gifted' = gifted \cup {Chest}
  /\ balance' = [balance EXCEPT ![Chest] = @ + Gift]
  /\ Done(s)
  /\ UNCHANGED <<owner, hurried, lost, failures>>

\* ... and grantPt(chest, 0), which opens the account without a gift.
Seed(s) ==
  /\ command[s].at = "seed"
  /\ opened' = opened \cup {Chest}
  /\ Done(s)
  /\ UNCHANGED <<owner, balance, gifted, hurried, lost, failures>>

SeedFails(s) ==
  /\ command[s].at = "seed"
  /\ Fails
  /\ hurried' = TRUE
  /\ Done(s)
  /\ UNCHANGED <<owner, opened, balance, gifted, lost>>

\* chestDeposit and chestWithdraw: the owner's only.
Order(s, from, to, amount) ==
  /\ command[s] = Idle
  /\ owner # Nobody
  /\ \/ from = owner /\ to = Chest
     \/ from = Chest /\ to \in Members
  /\ command' = [command EXCEPT ![s] =
                   [at |-> "debit", from |-> from, to |-> to, amount |-> amount]]
  /\ UNCHANGED <<owner, opened, balance, gifted, hurried, lost, failures>>

\* transferPt: spendPt, whose ensureProfile gives a new account the gift
\* whether or not the spend is covered ...
Seeded(from) == IF from \in opened THEN 0 ELSE Gift

Debit(s) ==
  LET c == command[s]
      held == balance[c.from] + Seeded(c.from) IN
  /\ c.at = "debit"
  /\ opened' = opened \cup {c.from}
  /\ gifted' = IF c.from \in opened THEN gifted ELSE gifted \cup {c.from}
  /\ hurried' = (hurried \/ (c.from = Chest /\ \E t \in Sessions : command[t].at = "seed"))
  /\ \/ /\ held >= c.amount
        /\ balance' = [balance EXCEPT ![c.from] = held - c.amount]
        /\ command' = [command EXCEPT ![s].at = "credit"]
     \/ /\ held < c.amount
        /\ balance' = [balance EXCEPT ![c.from] = held]
        /\ Done(s)
  /\ UNCHANGED <<owner, lost, failures>>

\* ... then grantPt, in a transaction of its own.
Credit(s) ==
  LET c == command[s] IN
  /\ c.at = "credit"
  /\ opened' = opened \cup {c.to}
  /\ balance' = [balance EXCEPT ![c.to] = @ + c.amount]
  /\ Done(s)
  /\ UNCHANGED <<owner, gifted, hurried, lost, failures>>

CreditFails(s) ==
  /\ command[s].at = "credit"
  /\ Fails
  /\ lost' = lost + command[s].amount
  /\ Done(s)
  /\ UNCHANGED <<owner, opened, balance, gifted, hurried>>

Next ==
  \E s \in Sessions :
    \/ \E m \in Members : Create(s, m)
    \/ Seed(s) \/ SeedFails(s)
    \/ \E from, to \in Accounts, amount \in Amounts : Order(s, from, to, amount)
    \/ Debit(s) \/ Credit(s) \/ CreditFails(s)

Spec == Init /\ [][Next]_chestVars

-----------------------------------------------------------------------------
\* The types of the accounts and of the commands; no account is overdrawn.
TypeOK ==
  /\ owner \in Members \cup {Nobody}
  /\ opened \subseteq Accounts
  /\ balance \in [Accounts -> Nat]
  /\ command \in [Sessions -> [at : {"idle", "seed", "debit", "credit"},
                               from : Accounts \cup {Nobody}, to : Accounts \cup {Nobody},
                               amount : Amounts \cup {0}]]
  /\ gifted \subseteq Accounts
  /\ hurried \in BOOLEAN
  /\ {lost, failures} \subseteq Nat

OnTheWay == [s \in Sessions |-> IF command[s].at = "credit" THEN command[s].amount ELSE 0]

\* Chests make no LP and lose none: beyond a newcomer's own gift, LP appears
\* only if a chest was spent from before its creation was through, and goes
\* only with a command that ended between its two transactions.
ChestsConserveLp ==
  /\ SumFunction(balance) + SumFunction(OnTheWay) + lost
       = Start * Cardinality(Members \ Newcomers) + Gift * Cardinality(gifted)
  /\ Chest \in gifted => hurried

=============================================================================
