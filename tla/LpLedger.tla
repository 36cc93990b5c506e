------------------------------ MODULE LpLedger ------------------------------
(***************************************************************************)
(* The shared LP (life point) economy of core/store/gamification.ts on     *)
(* PostgreSQL: profiles, pt_ledger, user_badges, checkins, identity_links. *)
(*                                                                         *)
(* Every mutation is one lpTx() transaction on a pooled connection, at     *)
(* PostgreSQL's default isolation level (the code issues a bare BEGIN), so *)
(* a statement sees what was committed before the statement, and a row     *)
(* written by an open transaction is locked until it ends.  A session here *)
(* is one such connection; its steps are the points at which another       *)
(* session can be seen or can make it wait: a read, the acquisition of a   *)
(* row lock, and COMMIT.  Writes to rows the session has locked are        *)
(* invisible to the others until COMMIT and are folded into it.            *)
(*                                                                         *)
(* Amounts are whole tenths of an LP, the scale of NUMERIC(12,1).          *)
(***************************************************************************)
EXTENDS Integers, FiniteSets

CONSTANTS
  Ids,            \* open_ids: members, aliases of members, treasure chests
  Chests,         \* the ids that are rows of the chests table
  Sessions,       \* pooled connections, each running one transaction at a time
  NoTx,           \* nobody holds the row
  Badges,         \* the badge catalogue
  FirstContact,   \* the badge a newcomer is seeded with
  AccountOps,     \* which of the per-account operations the callers use
  Resets,         \* which community-wide resets are run
  Links,          \* <<from, to>> pairs the operator may merge
  Rewards,        \* amounts passed to grantPt, negative to take LP away
  Costs,          \* amounts passed to spendPt
  FirstContactPt, \* FIRST_CONTACT_PT
  DailyCheckinPt, \* DAILY_CHECKIN_PT
  Floor,          \* the daily floor
  Target,         \* the value resetAllPtTo brings everybody to
  MaxDay,         \* bound: days modelled
  MaxOps          \* bound: operations started

AllAccountOps == {"grant", "award", "spend", "checkIn", "contact"}
AllResets == {"floor", "resetAll"}

ASSUME IdsAssumption ==
  /\ Ids # {}
  /\ Chests \subseteq Ids
  /\ Links \subseteq (Ids \ Chests) \X Ids
  /\ NoTx \notin Sessions
  /\ FirstContact \in Badges

ASSUME OpsAssumption ==
  /\ AccountOps \subseteq AllAccountOps
  /\ Resets \subseteq AllResets

ASSUME AmountsAssumption ==
  /\ Rewards \subseteq Int
  /\ Costs \subseteq Nat \ {0}
  /\ FirstContactPt \in Nat
  /\ DailyCheckinPt \in Nat \ {0}
  /\ Floor \in Nat
  /\ Target \in Nat
  /\ MaxDay \in Nat
  /\ MaxOps \in Nat

VARIABLES
  exists,    \* [Ids -> BOOLEAN]: the profiles row is there
  balance,   \* [Ids -> Int]: profiles.pt_balance, 0 without a row
  booked,    \* [Ids -> Int]: SUM(delta) over the account's pt_ledger rows
  entries,   \* [Ids -> Nat]: how many pt_ledger rows the account has
  gifts,     \* [Ids -> Nat]: those with reason 'first_contact'
  paid,      \* [Ids -> Nat]: those with reason 'daily_checkin'
  held,      \* user_badges, as <<id, badge>>
  checkins,  \* checkins, as <<id, day>>
  link,      \* identity_links: [Ids -> Ids], an id without a row is its own
  lock,      \* [Ids -> Sessions \cup {NoTx}]: who locks the profiles row
  tx,        \* [Sessions -> Tx]: the transaction each session is in
  crossed,   \* history: the targets of merges whose lookup failed or that met
             \* another merge under way
  today,     \* localDate(new Date())
  ops        \* operations started so far

tables == <<exists, balance, booked, entries, gifts, paid, held, checkins, link>>
vars == <<tables, lock, tx, crossed, today, ops>>

Phases == {"idle", "ensure", "resolve", "upsert", "write", "sweep",
           "purge", "drop", "rewire", "relink"}

\* What other tables hold of an account: pt_ledger, user_badges, checkins.
Rows == Nat \X (SUBSET (Ids \X Badges)) \X (SUBSET (Ids \X (0 .. MaxDay)))

\* One transaction: pc is the next statement, id the account the caller's
\* cid() resolved, eid the one ensureProfileRaw's cid() resolved, row the one
\* upsertProfileRaw's cid() resolved; the other fields are its arguments and
\* the values it has read.
Tx == [pc : Phases, op : AllAccountOps \cup AllResets \cup {"link", "none"},
       id : Ids, eid : Ids, row : Ids, isNew : BOOLEAN,
       amt : Int, badge : Badges, day : 0 .. MaxDay,
       todo : SUBSET Ids, plan : [Ids -> Int], seen : Rows]

NoPlan == [i \in Ids |-> 0]

Begin(op, pc, i) ==
  [pc |-> pc, op |-> op, id |-> i, eid |-> i, row |-> i, isNew |-> FALSE,
   amt |-> 0, badge |-> FirstContact, day |-> 0,
   todo |-> {}, plan |-> NoPlan, seen |-> <<0, {}, {}>>]

Idle == Begin("none", "idle", CHOOSE i \in Ids : TRUE)

\* Rows of other tables that refer to profiles(open_id).
RowsOf(i) == <<entries[i], {h \in held : h[1] = i}, {c \in checkins : c[1] = i}>>

Holds(s) == {i \in Ids : lock[i] = s}
Unlocked(s) == [i \in Ids |-> IF lock[i] = s THEN NoTx ELSE lock[i]]
Free(s, i) == lock[i] \in {NoTx, s}

\* The profiles row of i as session s sees it: committed, or its own upsert.
Visible(s, i) == exists[i] \/ (i = tx[s].row /\ lock[i] = s)

End(s) ==
  /\ lock' = Unlocked(s)
  /\ tx' = [tx EXCEPT ![s] = Idle]

Init ==
  /\ exists = [i \in Ids |-> FALSE]
  /\ balance = [i \in Ids |-> 0]
  /\ booked = [i \in Ids |-> 0]
  /\ entries = [i \in Ids |-> 0]
  /\ gifts = [i \in Ids |-> 0]
  /\ paid = [i \in Ids |-> 0]
  /\ held = {}
  /\ checkins = {}
  /\ link = [i \in Ids |-> i]
  /\ lock = [i \in Ids |-> NoTx]
  /\ tx = [s \in Sessions |-> Idle]
  /\ crossed = {}
  /\ today = 0
  /\ ops = 0

-----------------------------------------------------------------------------
(***************************************************************************)
(* Operations on one account.                                              *)
(***************************************************************************)

\* cid() outside the transaction; a failing lookup falls back to the raw
\* open_id.  recordInteraction and ensureProfile resolve only inside.
Cid(who) == {link[who], who}

Open(s, t) ==
  /\ tx[s].pc = "idle"
  /\ ops < MaxOps
  /\ tx' = [tx EXCEPT ![s] = t]
  /\ ops' = ops + 1
  /\ UNCHANGED <<tables, lock, today>>

Start(s, t) == Open(s, t) /\ UNCHANGED crossed

StartGrant(s, who) ==
  /\ "grant" \in AccountOps
  /\ \E i \in Cid(who), d \in Rewards :
       Start(s, [Begin("grant", "resolve", i) EXCEPT !.amt = d])

StartAward(s, who) ==
  /\ "award" \in AccountOps
  /\ \E i \in Cid(who), b \in Badges :
       Start(s, [Begin("award", "resolve", i) EXCEPT !.badge = b])

StartSpend(s, who) ==
  /\ "spend" \in AccountOps
  /\ \E i \in Cid(who), c \in Costs :
       Start(s, [Begin("spend", "ensure", i) EXCEPT !.amt = c])

StartCheckIn(s, who) ==
  /\ "checkIn" \in AccountOps
  /\ \E i \in Cid(who) : Start(s, [Begin("checkIn", "ensure", i) EXCEPT !.day = today])

StartContact(s, who) ==
  /\ "contact" \in AccountOps
  /\ Start(s, Begin("contact", "ensure", who))

\* ensureProfileRaw: resolve, and read whether the profile exists.  The two
\* one-row lookups of identity_links it makes in a row are one step here.
EnsureRead(s) ==
  LET eid == link[tx[s].id] IN
  /\ tx[s].pc = "ensure"
  /\ tx' = [tx EXCEPT ![s].pc = "resolve", ![s].eid = eid,
                      ![s].isNew = ~exists[link[eid]]]
  /\ UNCHANGED <<tables, lock, crossed, today, ops>>

\* upsertProfileRaw: its own cid(), before the INSERT is sent.
Resolve(s) ==
  /\ tx[s].pc = "resolve"
  /\ tx' = [tx EXCEPT ![s].pc = "upsert", ![s].row = link[tx[s].eid]]
  /\ UNCHANGED <<tables, lock, crossed, today, ops>>

\* INSERT ... ON CONFLICT DO UPDATE waits for whoever writes the same key.
Upsert(s) ==
  LET row == tx[s].row IN
  /\ tx[s].pc = "upsert"
  /\ lock[row] = NoTx
  /\ lock' = [lock EXCEPT ![row] = s]
  /\ tx' = [tx EXCEPT ![s].pc = "write"]
  /\ UNCHANGED <<tables, crossed, today, ops>>

\* The first_contact rows ensureProfileRaw adds to account k.
Seeds(s, k) == IF tx[s].isNew /\ k = tx[s].eid THEN 1 ELSE 0

\* pt_ledger, user_badges and checkins REFERENCE profiles: a row for an
\* account without a profile is an error, and the transaction rolls back.
SeedAllowed(s) == tx[s].isNew => Visible(s, tx[s].eid) /\ Free(s, tx[s].eid)

\* What the transaction leaves behind when its last statements book n ledger
\* rows worth d on account i, after the upsert and the seeding, and COMMIT.
\* An UPDATE touches the balance only where there is a row.
Book(s, i, d, n) ==
  LET gain == [k \in Ids |-> Seeds(s, k) * FirstContactPt + (IF k = i THEN d ELSE 0)]
  IN  /\ tx[s].pc = "write"
      /\ Free(s, i)
      /\ SeedAllowed(s)
      /\ exists' = [exists EXCEPT ![tx[s].row] = TRUE]
      /\ balance' = [k \in Ids |-> IF Visible(s, k) THEN balance[k] + gain[k]
                                                    ELSE balance[k]]
      /\ booked' = [k \in Ids |-> booked[k] + gain[k]]
      /\ entries' = [k \in Ids |-> entries[k] + Seeds(s, k) + (IF k = i THEN n ELSE 0)]
      /\ gifts' = [k \in Ids |-> gifts[k] + Seeds(s, k)]
      /\ End(s)
      /\ UNCHANGED <<link, crossed, today, ops>>

\* Mutant of HeldAfterSeed: the gift is booked, the badge forgotten.
HeldUnseeded(s) == held

HeldAfterSeed(s) == held \cup (IF tx[s].isNew THEN {<<tx[s].eid, FirstContact>>} ELSE {})

\* Mutant of GrantPt: pt_ledger without its foreign key to profiles.
GrantPtNoReference(s) ==
  /\ tx[s].op = "grant"
  /\ Book(s, tx[s].id, tx[s].amt, 1)
  /\ UNCHANGED <<paid, held, checkins>>

\* grantPt: upsertProfileRaw, ledgerRaw.
GrantPt(s) ==
  /\ tx[s].op = "grant"
  /\ Visible(s, tx[s].id)
  /\ Book(s, tx[s].id, tx[s].amt, 1)
  /\ UNCHANGED <<paid, held, checkins>>

\* awardBadge: upsertProfileRaw, INSERT user_badges ON CONFLICT DO NOTHING.
AwardBadge(s) ==
  /\ tx[s].op = "award"
  /\ Visible(s, tx[s].id)
  /\ Book(s, tx[s].id, 0, 0)
  /\ held' = held \cup {<<tx[s].id, tx[s].badge>>}
  /\ UNCHANGED <<paid, checkins>>

\* Mutant of Covered: an UPDATE without AND pt_balance >= cost.
CoveredUnguarded(s, i) == Visible(s, i)

\* The guarded UPDATE of spendPt finds a row that holds the cost by then, this
\* transaction's own seeding included.
Covered(s, i) ==
  /\ Visible(s, i)
  /\ balance[i] + Seeds(s, i) * FirstContactPt >= tx[s].amt

\* spendPt: ensureProfileRaw, guarded UPDATE, INSERT pt_ledger.  No row, or not
\* enough on it: nothing is spent, but the profile and its seeding stay.
SpendPt(s) ==
  LET i == tx[s].id IN
  /\ tx[s].op = "spend"
  /\ \/ Covered(s, i) /\ Book(s, i, -tx[s].amt, 1)
     \/ ~Covered(s, i) /\ Book(s, i, 0, 0)
  /\ held' = HeldAfterSeed(s)
  /\ UNCHANGED <<paid, checkins>>

\* Mutant of CheckIn: pays without looking at the INSERT's rowCount.
CheckInAlwaysPays(s) ==
  LET i == tx[s].id IN
  /\ tx[s].op = "checkIn"
  /\ Visible(s, i)
  /\ Book(s, i, DailyCheckinPt, 1)
  /\ paid' = [paid EXCEPT ![i] = @ + 1]
  /\ checkins' = checkins \cup {<<i, tx[s].day>>}
  /\ held' = HeldAfterSeed(s)

\* checkIn: ensureProfileRaw, INSERT checkins ON CONFLICT DO NOTHING, and
\* ledgerRaw only when that INSERT added a row.
CheckIn(s) ==
  LET i == tx[s].id
      firstToday == <<i, tx[s].day>> \notin checkins
  IN  /\ tx[s].op = "checkIn"
      /\ firstToday => Visible(s, i)
      /\ \/ /\ firstToday
            /\ Book(s, i, DailyCheckinPt, 1)
            /\ paid' = [paid EXCEPT ![i] = @ + 1]
         \/ /\ ~firstToday
            /\ Book(s, i, 0, 0)
            /\ paid' = paid
      /\ checkins' = checkins \cup {<<i, tx[s].day>>}
      /\ held' = HeldAfterSeed(s)

\* recordInteraction / ensureProfile: ensureProfileRaw and nothing else.
Contact(s) ==
  /\ tx[s].op = "contact"
  /\ Book(s, tx[s].eid, 0, 0)
  /\ held' = HeldAfterSeed(s)
  /\ UNCHANGED <<paid, checkins>>

-----------------------------------------------------------------------------
(***************************************************************************)
(* Community-wide resets: SELECT once, then one ledgerRaw per row found.   *)
(***************************************************************************)
Goal(op) == IF op = "floor" THEN Floor ELSE Target

\* Mutant of Affected: chests are swept like people.
AffectedChestsToo(op) ==
  {i \in Ids : exists[i] /\ IF op = "floor" THEN balance[i] < Floor ELSE balance[i] # Target}

Affected(op) ==
  {i \in Ids \ Chests : exists[i] /\ IF op = "floor" THEN balance[i] < Floor
                                                     ELSE balance[i] # Target}

StartReset(s, op) ==
  Start(s, [Begin(op, "sweep", CHOOSE i \in Ids : TRUE)
              EXCEPT !.todo = Affected(op),
                     !.plan = [i \in Ids |-> IF i \in Affected(op)
                                             THEN Goal(op) - balance[i] ELSE 0]])

\* INSERT pt_ledger needs the profile, UPDATE profiles takes its row lock.
SweepRow(s, i) ==
  /\ tx[s].pc = "sweep"
  /\ i \in tx[s].todo
  /\ exists[i]
  /\ lock[i] = NoTx
  /\ lock' = [lock EXCEPT ![i] = s]
  /\ tx' = [tx EXCEPT ![s].todo = @ \ {i}]
  /\ UNCHANGED <<tables, crossed, today, ops>>

FinishReset(s) ==
  /\ tx[s].pc = "sweep"
  /\ tx[s].todo = {}
  /\ balance' = [i \in Ids |-> IF i \in Holds(s) THEN balance[i] + tx[s].plan[i]
                                                 ELSE balance[i]]
  /\ booked' = [i \in Ids |-> IF i \in Holds(s) THEN booked[i] + tx[s].plan[i]
                                                ELSE booked[i]]
  /\ entries' = [i \in Ids |-> IF i \in Holds(s) THEN entries[i] + 1 ELSE entries[i]]
  /\ End(s)
  /\ UNCHANGED <<exists, gifts, paid, held, checkins, link, crossed, today, ops>>

-----------------------------------------------------------------------------
(***************************************************************************)
(* agent link <from> <to>, an operator's command.  Nothing keeps two of    *)
(* them apart.                                                             *)
(***************************************************************************)
Merges == {s \in Sessions : tx[s].op = "link"}

\* The target is looked up by cid() before the transaction begins.
StartLink(s, from, to) ==
  /\ <<from, to>> \in Links
  /\ \E canon \in Cid(to) :
       /\ from # canon
       /\ Open(s, [Begin("link", "purge", from) EXCEPT !.row = canon])
       /\ crossed' = crossed
            \cup (IF canon # link[to] THEN {canon} ELSE {})
            \cup (IF Merges # {} THEN {canon} \cup {tx[other].row : other \in Merges} ELSE {})

\* DELETE pt_ledger, checkins, user_badges of from: the rows committed by now.
Purge(s) ==
  /\ tx[s].pc = "purge"
  /\ tx' = [tx EXCEPT ![s].pc = "drop", ![s].seen = RowsOf(tx[s].id)]
  /\ UNCHANGED <<tables, lock, crossed, today, ops>>

\* DELETE profiles: waits for the row, and fails when rows that refer to it
\* were committed since the purge.
DropProfile(s) ==
  LET from == tx[s].id IN
  /\ tx[s].pc = "drop"
  /\ exists[from] => lock[from] = NoTx /\ RowsOf(from) = tx[s].seen
  /\ lock' = IF exists[from] THEN [lock EXCEPT ![from] = s] ELSE lock
  /\ tx' = [tx EXCEPT ![s].pc = "rewire"]
  /\ UNCHANGED <<tables, crossed, today, ops>>

AliasesOf(from) == {i \in Ids : link[i] = from}

\* Mutant of Rewired: the aliases that pointed at from keep pointing there.
RewiredShallow(from, canon, moved) == [link EXCEPT ![from] = canon]

\* What the UPDATE and the INSERT of identity_links leave behind.
Rewired(from, canon, moved) ==
  [i \in Ids |-> IF i = from \/ i \in moved THEN canon ELSE link[i]]

\* The alias rows a merge has updated stay locked until it ends.
RowsWritten(s) == IF tx[s].pc = "relink" THEN tx[s].todo ELSE {}
RowsFree(s, rows) == \A other \in Sessions \ {s} : RowsWritten(other) \cap rows = {}

\* UPDATE identity_links ... WHERE canonical_id = from: the rows committed by now.
RewireAliases(s) ==
  LET moved == AliasesOf(tx[s].id) IN
  /\ tx[s].pc = "rewire"
  /\ RowsFree(s, moved)
  /\ tx' = [tx EXCEPT ![s].pc = "relink", ![s].todo = moved]
  /\ UNCHANGED <<tables, lock, crossed, today, ops>>

\* INSERT identity_links ... ON CONFLICT DO UPDATE, and the COMMIT of the merge.
Relink(s) ==
  LET gone == Holds(s)
      Cleared(f) == [i \in Ids |-> IF i \in gone THEN 0 ELSE f[i]]
  IN  /\ tx[s].pc = "relink"
      /\ RowsFree(s, {tx[s].id})
      /\ exists' = [i \in Ids |-> exists[i] /\ i \notin gone]
      /\ balance' = Cleared(balance)
      /\ booked' = Cleared(booked)
      /\ entries' = Cleared(entries)
      /\ gifts' = Cleared(gifts)
      /\ paid' = Cleared(paid)
      /\ held' = {h \in held : h[1] \notin gone}
      /\ checkins' = {c \in checkins : c[1] \notin gone}
      /\ link' = Rewired(tx[s].id, tx[s].row, tx[s].todo)
      /\ End(s)
      /\ UNCHANGED <<crossed, today, ops>>

-----------------------------------------------------------------------------
\* ROLLBACK: a failed statement, a foreign-key error, a deadlock victim, a
\* dropped connection or a killed process, at any point of a transaction.
Abort(s) ==
  /\ tx[s].pc # "idle"
  /\ End(s)
  /\ UNCHANGED <<tables, crossed, today, ops>>

NextDay ==
  /\ today < MaxDay
  /\ today' = today + 1
  /\ UNCHANGED <<tables, lock, tx, crossed, ops>>

StartAccountOp(s) ==
  \E who \in Ids : \/ StartGrant(s, who)
                   \/ StartAward(s, who)
                   \/ StartSpend(s, who)
                   \/ StartCheckIn(s, who)
                   \/ StartContact(s, who)

FinishAccountOp(s) ==
  GrantPt(s) \/ AwardBadge(s) \/ SpendPt(s) \/ CheckIn(s) \/ Contact(s)

Reset(s) ==
  \/ \E op \in Resets : StartReset(s, op)
  \/ \E i \in Ids : SweepRow(s, i)
  \/ FinishReset(s)

LinkIdentity(s) ==
  \/ \E from, to \in Ids : StartLink(s, from, to)
  \/ Purge(s)
  \/ DropProfile(s)
  \/ RewireAliases(s)
  \/ Relink(s)

Next ==
  \/ \E s \in Sessions :
       \/ StartAccountOp(s)
       \/ EnsureRead(s)
       \/ Resolve(s)
       \/ Upsert(s)
       \/ FinishAccountOp(s)
       \/ Reset(s)
       \/ LinkIdentity(s)
       \/ Abort(s)
  \/ NextDay

Spec == Init /\ [][Next]_vars

-----------------------------------------------------------------------------
(***************************************************************************)
(* Properties.                                                             *)
(***************************************************************************)

\* Every table and every transaction in flight has its type.
TypeOK ==
  /\ exists \in [Ids -> BOOLEAN]
  /\ balance \in [Ids -> Int]
  /\ booked \in [Ids -> Int]
  /\ entries \in [Ids -> Nat]
  /\ gifts \in [Ids -> Nat]
  /\ paid \in [Ids -> Nat]
  /\ held \subseteq Ids \X Badges
  /\ checkins \subseteq Ids \X (0 .. MaxDay)
  /\ link \in [Ids -> Ids]
  /\ lock \in [Ids -> Sessions \cup {NoTx}]
  /\ tx \in [Sessions -> Tx]
  /\ crossed \subseteq Ids
  /\ today \in 0 .. MaxDay
  /\ ops \in 0 .. MaxOps

\* The ledger is the source of truth of the balance: whatever transactions
\* interleave, roll back or race an identity merge, a committed balance is the
\* sum of the committed ledger rows, and no account without a profile owns a
\* ledger row, a badge or a check-in (ledgerRaw writes the two in two
\* statements, and its UPDATE silently touches nothing when there is no row).
LedgerBacksBalance ==
  \A i \in Ids : /\ balance[i] = booked[i]
                 /\ ~exists[i] => balance[i] = 0 /\ RowsOf(i) = <<0, {}, {}>>

\* A day's check-in pays once: an account has as many daily_checkin ledger
\* rows as rows in checkins, although two transactions may check the same
\* account in at the same time (checkIn pays only when its own INSERT won).
CheckInPaidOnce ==
  \A i \in Ids : paid[i] = Cardinality({c \in checkins : c[1] = i})

\* A welcome gift never appears without the badge that records it, even across
\* aborts and merges: hasFirstContact, which reads the badge, is never false
\* for somebody who was paid the gift.
GiftComesWithBadge ==
  \A i \in Ids : gifts[i] > 0 => <<i, FirstContact>> \in held

\* The lookup of cid() takes one hop: it ends at an identity that is itself
\* merged away only when that identity was the target of a merge whose own
\* lookup failed (cid() then answers the raw open_id) or that met another merge
\* under way.  Whatever merges come one after the other, in any order and over
\* any aborts, leave no such chain.
OnlyCrossedLinksChain ==
  \A i \in Ids : link[link[i]] # link[i] => link[i] \in crossed

\* spendPt never overdraws: when a spend lowers a balance, enough was there at
\* that very moment, whatever ran since the spend began.
SpendIsCovered ==
  [][\A s \in Sessions, i \in Ids :
       tx[s].op = "spend" /\ tx'[s] = Idle /\ balance'[i] < balance[i]
         => balance'[i] >= 0]_vars

Accounts == INSTANCE AccountBook WITH
              members <- {i \in Ids : exists[i]}, signed <- checkins, identity <- link

\* The transactions implement the account book: whatever statements interleave,
\* each COMMIT is one whole operation of it, made on the balances of that moment
\* (the check-in's day, the spender's cover, the resets' exemption of chests),
\* and nothing else ever changes it.
ImplementsAccountBook == Accounts!Spec

\* "A brand-new profile is seeded with the first-contact LP grant ...; an
\* existing profile keeps its balance" (ensureProfileRaw): one gift each.
FirstContactGiftOnce == \A i \in Ids : gifts[i] <= 1

=============================================================================
