-------------------------- MODULE LpLedger_proofs --------------------------
(***************************************************************************)
(* Theorems about LpLedger for every set of accounts, connections, badges  *)
(* and amounts: types, the agreement of ledger and balances, the shape of  *)
(* the alias table, the guard of spendPt, gifts and check-ins, and that    *)
(* every COMMIT is one operation of the account book.                      *)
(***************************************************************************)
EXTENDS LpLedger, FiniteSetTheorems, TLAPS

-----------------------------------------------------------------------------
(***************************************************************************)
(* Types.                                                                  *)
(***************************************************************************)

\* A transaction just begun is a transaction.
LEMMA BeginType ==
  ASSUME NEW op \in AllAccountOps \cup AllResets \cup {"link", "none"},
         NEW pc \in Phases, NEW i \in Ids
  PROVE  Begin(op, pc, i) \in Tx
<1>1. NoPlan \in [Ids -> Int]
  BY DEF NoPlan
<1>2. <<0, {}, {}>> \in Rows
  BY DEF Rows
<1> QED
  BY <1>1, <1>2, IdsAssumption, AmountsAssumption DEF Begin, Tx

\* So is a transaction with one of its arguments or its pc replaced.
LEMMA FieldType ==
  ASSUME NEW t \in Tx
  PROVE  /\ \A d \in Int : [t EXCEPT !.amt = d] \in Tx
         /\ \A d \in 0 .. MaxDay : [t EXCEPT !.day = d] \in Tx
         /\ \A b \in Badges : [t EXCEPT !.badge = b] \in Tx
         /\ \A p \in Phases : [t EXCEPT !.pc = p] \in Tx
         /\ \A i \in Ids : [t EXCEPT !.row = i] \in Tx
         /\ \A q \in SUBSET Ids : [t EXCEPT !.todo = q] \in Tx
         /\ \A q \in SUBSET Ids, f \in [Ids -> Int] :
              [t EXCEPT !.todo = q, !.plan = f] \in Tx
         /\ \A p \in Phases, r \in Rows : [t EXCEPT !.pc = p, !.seen = r] \in Tx
         /\ \A p \in Phases, q \in SUBSET Ids : [t EXCEPT !.pc = p, !.todo = q] \in Tx
  BY DEF Tx

LEMMA IdleType == Idle \in Tx
<1>1. (CHOOSE i \in Ids : TRUE) \in Ids
  BY IdsAssumption
<1> QED
  BY <1>1, BeginType DEF Idle, Phases

\* Ending a transaction, by COMMIT or ROLLBACK, leaves locks and sessions typed.
LEMMA EndType ==
  ASSUME TypeOK, NEW s \in Sessions, End(s)
  PROVE  /\ lock' \in [Ids -> Sessions \cup {NoTx}]
         /\ tx' \in [Sessions -> Tx]
  BY IdleType DEF TypeOK, End, Unlocked

\* Every commit that books ledger rows keeps what it touches typed.
LEMMA BookType ==
  ASSUME TypeOK, NEW s \in Sessions, NEW i \in Ids, NEW d \in Int, NEW n \in Nat,
         Book(s, i, d, n)
  PROVE  /\ exists' \in [Ids -> BOOLEAN]
         /\ balance' \in [Ids -> Int]
         /\ booked' \in [Ids -> Int]
         /\ entries' \in [Ids -> Nat]
         /\ gifts' \in [Ids -> Nat]
         /\ link' \in [Ids -> Ids]
         /\ lock' \in [Ids -> Sessions \cup {NoTx}]
         /\ tx' \in [Sessions -> Tx]
         /\ crossed' \subseteq Ids
         /\ today' \in 0 .. MaxDay
         /\ ops' \in 0 .. MaxOps
<1> DEFINE gain == [k \in Ids |-> Seeds(s, k) * FirstContactPt + (IF k = i THEN d ELSE 0)]
<1>1. \A k \in Ids : Seeds(s, k) \in {0, 1}
  BY DEF Seeds
<1>2. gain \in [Ids -> Int]
  BY <1>1, AmountsAssumption
<1>3. /\ lock' \in [Ids -> Sessions \cup {NoTx}]
      /\ tx' \in [Sessions -> Tx]
  BY EndType DEF Book
<1>4. exists' \in [Ids -> BOOLEAN]
  BY DEF Book, TypeOK
<1>5. balance' \in [Ids -> Int] /\ booked' \in [Ids -> Int]
  <2> HIDE DEF gain
  <2> QED
    BY <1>2 DEF Book, TypeOK, gain
<1>6. entries' \in [Ids -> Nat] /\ gifts' \in [Ids -> Nat]
  BY <1>1 DEF Book, TypeOK
<1> QED
  BY <1>3, <1>4, <1>5, <1>6 DEF Book, TypeOK

\* Beginning an operation only fills the session's transaction.
LEMMA OpenType ==
  ASSUME TypeOK, NEW s \in Sessions, NEW t \in Tx, Open(s, t), crossed' \subseteq Ids
  PROVE  TypeOK'
  BY AmountsAssumption DEF TypeOK, Open, tables

LEMMA StartType ==
  ASSUME TypeOK, NEW s \in Sessions, NEW t \in Tx, Start(s, t)
  PROVE  TypeOK'
  BY OpenType DEF TypeOK, Start

LEMMA StartAccountOpType ==
  ASSUME TypeOK, NEW s \in Sessions, StartAccountOp(s)
  PROVE  TypeOK'
<1> PICK who \in Ids : \/ StartGrant(s, who)
                       \/ StartAward(s, who)
                       \/ StartSpend(s, who)
                       \/ StartCheckIn(s, who)
                       \/ StartContact(s, who)
  BY DEF StartAccountOp
<1>0. Cid(who) \subseteq Ids
  BY DEF Cid, TypeOK
<1>1. CASE StartGrant(s, who)
  <2> PICK i \in Cid(who), d \in Rewards :
        Start(s, [Begin("grant", "resolve", i) EXCEPT !.amt = d])
    BY <1>1 DEF StartGrant
  <2>0. i \in Ids /\ d \in Int
    BY <1>0, AmountsAssumption
  <2>1. Begin("grant", "resolve", i) \in Tx
    BY <2>0, BeginType DEF Phases, AllAccountOps
  <2>2. [Begin("grant", "resolve", i) EXCEPT !.amt = d] \in Tx
    BY <2>0, <2>1, FieldType, Zenon
  <2> QED
    BY <2>2, StartType
<1>2. CASE StartAward(s, who)
  <2> PICK i \in Cid(who), b \in Badges :
        Start(s, [Begin("award", "resolve", i) EXCEPT !.badge = b])
    BY <1>2 DEF StartAward
  <2>0. i \in Ids /\ b \in Badges
    BY <1>0
  <2>1. Begin("award", "resolve", i) \in Tx
    BY <2>0, BeginType DEF Phases, AllAccountOps
  <2>2. [Begin("award", "resolve", i) EXCEPT !.badge = b] \in Tx
    BY <2>0, <2>1, FieldType, Zenon
  <2> QED
    BY <2>2, StartType
<1>3. CASE StartSpend(s, who)
  <2> PICK i \in Cid(who), c \in Costs :
        Start(s, [Begin("spend", "ensure", i) EXCEPT !.amt = c])
    BY <1>3 DEF StartSpend
  <2>0. i \in Ids /\ c \in Int
    BY <1>0, AmountsAssumption
  <2>1. Begin("spend", "ensure", i) \in Tx
    BY <2>0, BeginType DEF Phases, AllAccountOps
  <2>2. [Begin("spend", "ensure", i) EXCEPT !.amt = c] \in Tx
    BY <2>0, <2>1, FieldType, Zenon
  <2> QED
    BY <2>2, StartType
<1>4. CASE StartCheckIn(s, who)
  <2> PICK i \in Cid(who) : Start(s, [Begin("checkIn", "ensure", i) EXCEPT !.day = today])
    BY <1>4 DEF StartCheckIn
  <2>0. i \in Ids /\ today \in 0 .. MaxDay
    BY <1>0 DEF TypeOK
  <2>1. Begin("checkIn", "ensure", i) \in Tx
    BY <2>0, BeginType DEF Phases, AllAccountOps
  <2>2. [Begin("checkIn", "ensure", i) EXCEPT !.day = today] \in Tx
    BY <2>0, <2>1, FieldType, Zenon
  <2> QED
    BY <2>2, StartType
<1>5. CASE StartContact(s, who)
  <2>1. Begin("contact", "ensure", who) \in Tx
    BY BeginType DEF Phases, AllAccountOps
  <2> QED
    BY <1>5, <2>1, StartType DEF StartContact
<1> QED
  BY <1>1, <1>2, <1>3, <1>4, <1>5

\* The statements before the last one: reads and row locks.
LEMMA StatementType ==
  ASSUME TypeOK, NEW s \in Sessions, EnsureRead(s) \/ Resolve(s) \/ Upsert(s)
  PROVE  TypeOK'
<1>0. tx[s] \in Tx
  BY DEF TypeOK
<1>1. CASE EnsureRead(s)
  <2> DEFINE eid == link[tx[s].id]
  <2>a. tx[s].id \in Ids
    BY <1>0 DEF Tx
  <2>b. eid \in Ids
    BY <2>a DEF TypeOK
  <2>c. (~exists[link[eid]]) \in BOOLEAN
    BY Zenon
  <2>1. eid \in Ids /\ (~exists[link[eid]]) \in BOOLEAN
    BY <2>b, <2>c
  <2>2. [tx[s] EXCEPT !.pc = "resolve", !.eid = eid, !.isNew = ~exists[link[eid]]] \in Tx
    BY <1>0, <2>1 DEF Tx, Phases
  <2>3. tx' = [tx EXCEPT ![s] = [tx[s] EXCEPT !.pc = "resolve", !.eid = eid,
                                              !.isNew = ~exists[link[eid]]]]
    BY <1>1 DEF EnsureRead, TypeOK
  <2>4. tx' \in [Sessions -> Tx]
    BY <2>2, <2>3 DEF TypeOK
  <2> QED
    BY <1>1, <2>4 DEF TypeOK, EnsureRead, tables
<1>2. CASE Resolve(s)
  <2>1. [tx[s] EXCEPT !.pc = "upsert", !.row = link[tx[s].eid]] \in Tx
    BY <1>0 DEF Tx, Phases, TypeOK
  <2>2. tx' \in [Sessions -> Tx]
    BY <1>2, <2>1 DEF TypeOK, Resolve
  <2> QED
    BY <1>2, <2>2 DEF TypeOK, Resolve, tables
<1>3. CASE Upsert(s)
  <2>1. [tx[s] EXCEPT !.pc = "write"] \in Tx /\ tx[s].row \in Ids
    BY <1>0 DEF Tx, Phases
  <2>2. tx' \in [Sessions -> Tx] /\ lock' \in [Ids -> Sessions \cup {NoTx}]
    BY <1>3, <2>1 DEF TypeOK, Upsert
  <2> QED
    BY <1>3, <2>2 DEF TypeOK, Upsert, tables
<1> QED
  BY <1>1, <1>2, <1>3

LEMMA SeededType ==
  ASSUME TypeOK, NEW s \in Sessions
  PROVE  HeldAfterSeed(s) \subseteq Ids \X Badges
<1>1. tx[s].eid \in Ids
  BY DEF TypeOK, Tx
<1> QED
  BY <1>1, IdsAssumption DEF HeldAfterSeed, TypeOK

LEMMA FinishAccountOpType ==
  ASSUME TypeOK, NEW s \in Sessions, FinishAccountOp(s)
  PROVE  TypeOK'
<1>0. /\ tx[s].id \in Ids /\ tx[s].eid \in Ids
      /\ tx[s].amt \in Int /\ -tx[s].amt \in Int
      /\ tx[s].badge \in Badges
      /\ tx[s].day \in 0 .. MaxDay
      /\ DailyCheckinPt \in Int
  BY AmountsAssumption DEF TypeOK, Tx
<1>1. CASE GrantPt(s)
  <2>1. Book(s, tx[s].id, tx[s].amt, 1)
    BY <1>1 DEF GrantPt
  <2> QED
    BY <1>0, <1>1, <2>1, BookType DEF GrantPt, TypeOK
<1>2. CASE AwardBadge(s)
  <2>1. Book(s, tx[s].id, 0, 0)
    BY <1>2 DEF AwardBadge
  <2> QED
    BY <1>0, <1>2, <2>1, BookType DEF AwardBadge, TypeOK
<1>3. CASE SpendPt(s)
  <2>1. Book(s, tx[s].id, -tx[s].amt, 1) \/ Book(s, tx[s].id, 0, 0)
    BY <1>3 DEF SpendPt
  <2> QED
    BY <1>0, <1>3, <2>1, BookType, SeededType DEF SpendPt, TypeOK
<1>4. CASE CheckIn(s)
  <2>1. Book(s, tx[s].id, DailyCheckinPt, 1) \/ Book(s, tx[s].id, 0, 0)
    BY <1>4 DEF CheckIn
  <2>2. paid' \in [Ids -> Nat]
    BY <1>4 DEF CheckIn, TypeOK
  <2>3. checkins' \subseteq Ids \X (0 .. MaxDay)
    <3>1. checkins' = checkins \cup {<<tx[s].id, tx[s].day>>}
      BY <1>4 DEF CheckIn
    <3>2. <<tx[s].id, tx[s].day>> \in Ids \X (0 .. MaxDay)
      BY <1>0
    <3> QED
      BY <3>1, <3>2 DEF TypeOK
  <2> QED
    BY <1>0, <1>4, <2>1, <2>2, <2>3, BookType, SeededType DEF CheckIn, TypeOK
<1>5. CASE Contact(s)
  <2>1. Book(s, tx[s].eid, 0, 0)
    BY <1>5 DEF Contact
  <2> QED
    BY <1>0, <1>5, <2>1, BookType, SeededType DEF Contact, TypeOK
<1> QED
  BY <1>1, <1>2, <1>3, <1>4, <1>5 DEF FinishAccountOp

LEMMA ResetType ==
  ASSUME TypeOK, NEW s \in Sessions, Reset(s)
  PROVE  TypeOK'
<1>0. tx[s] \in Tx
  BY DEF TypeOK
<1>1. ASSUME NEW op \in Resets, StartReset(s, op)
      PROVE  TypeOK'
  <2> DEFINE any == CHOOSE i \in Ids : TRUE
             todo == Affected(op)
             plan == [i \in Ids |-> IF i \in Affected(op) THEN Goal(op) - balance[i] ELSE 0]
  <2>1. any \in Ids /\ op \in AllResets
    BY IdsAssumption, OpsAssumption
  <2>2. Begin(op, "sweep", any) \in Tx
    BY <2>1, BeginType DEF Phases
  <2>3. todo \subseteq Ids
    BY DEF Affected
  <2>4. Goal(op) \in Int
    BY AmountsAssumption DEF Goal
  <2>5. plan \in [Ids -> Int]
    BY <2>4 DEF TypeOK
  <2>6. [Begin(op, "sweep", any) EXCEPT !.todo = todo, !.plan = plan] \in Tx
    <3> HIDE DEF any, todo, plan
    <3> QED
      BY <2>2, <2>3, <2>5, FieldType, Zenon
  <2> QED
    BY <1>1, <2>6, StartType DEF StartReset
<1>2. ASSUME NEW i \in Ids, SweepRow(s, i)
      PROVE  TypeOK'
  <2>0. tx[s].todo \ {i} \in SUBSET Ids
    BY <1>0 DEF Tx
  <2>1. [tx[s] EXCEPT !.todo = tx[s].todo \ {i}] \in Tx
    BY <1>0, <2>0, FieldType, Zenon
  <2>2. tx' = [tx EXCEPT ![s] = [tx[s] EXCEPT !.todo = tx[s].todo \ {i}]]
    BY <1>2 DEF SweepRow, TypeOK
  <2>3. tx' \in [Sessions -> Tx] /\ lock' \in [Ids -> Sessions \cup {NoTx}]
    BY <1>2, <2>1, <2>2 DEF TypeOK, SweepRow
  <2> QED
    BY <1>2, <2>3 DEF TypeOK, SweepRow, tables
<1>3. CASE FinishReset(s)
  <2>1. tx[s].plan \in [Ids -> Int]
    BY <1>0 DEF Tx
  <2>2. /\ balance' \in [Ids -> Int]
        /\ booked' \in [Ids -> Int]
        /\ entries' \in [Ids -> Nat]
    BY <1>3, <2>1 DEF FinishReset, TypeOK
  <2>3. End(s)
    BY <1>3 DEF FinishReset
  <2> QED
    BY <1>3, <2>2, <2>3, EndType DEF FinishReset, TypeOK
<1> QED
  BY <1>1, <1>2, <1>3 DEF Reset

LEMMA RowsType ==
  ASSUME TypeOK, NEW i \in Ids
  PROVE  RowsOf(i) \in Rows
<1>1. entries[i] \in Nat
  BY DEF TypeOK
<1>2. {h \in held : h[1] = i} \in SUBSET (Ids \X Badges)
  BY DEF TypeOK
<1>3. {c \in checkins : c[1] = i} \in SUBSET (Ids \X (0 .. MaxDay))
  BY DEF TypeOK
<1> QED
  BY <1>1, <1>2, <1>3 DEF RowsOf, Rows

LEMMA RewiredType ==
  ASSUME TypeOK, NEW from \in Ids, NEW canon \in Ids, NEW moved
  PROVE  Rewired(from, canon, moved) \in [Ids -> Ids]
  BY DEF Rewired, TypeOK

\* What a merge begins with, and what its history notes.
LEMMA StartLinkOpens ==
  ASSUME TypeOK, NEW s \in Sessions, NEW from \in Ids, NEW to \in Ids, StartLink(s, from, to)
  PROVE  \E canon \in Ids, t \in Tx :
           /\ t = [Begin("link", "purge", from) EXCEPT !.row = canon]
           /\ <<from, to>> \in Links /\ from # canon
           /\ Open(s, t)
           /\ crossed' \in SUBSET Ids /\ crossed \subseteq crossed'
           /\ canon # link[to] => canon \in crossed'
           /\ Merges # {} => canon \in crossed' /\ \A u \in Merges : tx[u].row \in crossed'
<1>1. PICK canon \in Cid(to) :
        /\ <<from, to>> \in Links /\ from # canon
        /\ Open(s, [Begin("link", "purge", from) EXCEPT !.row = canon])
        /\ crossed' = crossed
             \cup (IF canon # link[to] THEN {canon} ELSE {})
             \cup (IF Merges # {} THEN {canon} \cup {tx[other].row : other \in Merges} ELSE {})
  BY DEF StartLink
<1>2. canon \in Ids
  BY DEF Cid, TypeOK
<1>3. Begin("link", "purge", from) \in Tx
  BY BeginType DEF Phases
<1>4. [Begin("link", "purge", from) EXCEPT !.row = canon] \in Tx
  BY <1>2, <1>3, FieldType, Zenon
<1>5. \A u \in Merges : tx[u].row \in Ids
  BY DEF Merges, TypeOK, Tx
<1>6. crossed \subseteq Ids
  BY DEF TypeOK
<1>7. crossed' \in SUBSET Ids
  BY <1>1, <1>2, <1>5, <1>6
<1>8. crossed \subseteq crossed' /\ (canon # link[to] => canon \in crossed')
  BY <1>1
<1>9. Merges # {} => canon \in crossed' /\ \A u \in Merges : tx[u].row \in crossed'
  BY <1>1
<1> QED
  BY <1>1, <1>2, <1>4, <1>7, <1>8, <1>9

LEMMA LinkIdentityType ==
  ASSUME TypeOK, NEW s \in Sessions, LinkIdentity(s)
  PROVE  TypeOK'
<1>0. tx[s] \in Tx /\ tx[s].id \in Ids /\ tx[s].row \in Ids
  BY DEF TypeOK, Tx
<1>1. ASSUME NEW from \in Ids, NEW to \in Ids, StartLink(s, from, to)
      PROVE  TypeOK'
  <2>1. PICK canon \in Ids, t \in Tx : Open(s, t) /\ crossed' \in SUBSET Ids
    BY <1>1, StartLinkOpens
  <2> QED
    BY <2>1, OpenType
<1>2. CASE Purge(s)
  <2>1. RowsOf(tx[s].id) \in Rows /\ "drop" \in Phases
    BY <1>0, RowsType DEF Phases
  <2>2. [tx[s] EXCEPT !.pc = "drop", !.seen = RowsOf(tx[s].id)] \in Tx
    BY <1>0, <2>1, FieldType, Zenon
  <2>3. tx' = [tx EXCEPT ![s] = [tx[s] EXCEPT !.pc = "drop", !.seen = RowsOf(tx[s].id)]]
    BY <1>2 DEF Purge, TypeOK
  <2>4. tx' \in [Sessions -> Tx]
    BY <2>2, <2>3 DEF TypeOK
  <2> QED
    BY <1>2, <2>4 DEF Purge, TypeOK, tables
<1>3. CASE DropProfile(s)
  <2>1. "rewire" \in Phases
    BY DEF Phases
  <2>2. [tx[s] EXCEPT !.pc = "rewire"] \in Tx
    BY <1>0, <2>1, FieldType, Zenon
  <2>3. tx' \in [Sessions -> Tx] /\ lock' \in [Ids -> Sessions \cup {NoTx}]
    BY <1>0, <1>3, <2>2 DEF DropProfile, TypeOK
  <2> QED
    BY <1>3, <2>3 DEF DropProfile, TypeOK, tables
<1>4. CASE Relink(s)
  <2>1. End(s)
    BY <1>4 DEF Relink
  <2>2. link' \in [Ids -> Ids]
    BY <1>0, <1>4, RewiredType DEF Relink
  <2>3. exists' \in [Ids -> BOOLEAN]
    BY <1>4 DEF Relink
  <2>4. balance' \in [Ids -> Int] /\ booked' \in [Ids -> Int]
    BY <1>4 DEF Relink, TypeOK
  <2>5. entries' \in [Ids -> Nat] /\ gifts' \in [Ids -> Nat] /\ paid' \in [Ids -> Nat]
    BY <1>4 DEF Relink, TypeOK
  <2>6. held' \subseteq Ids \X Badges /\ checkins' \subseteq Ids \X (0 .. MaxDay)
    BY <1>4 DEF Relink, TypeOK
  <2>7. today' \in 0 .. MaxDay /\ ops' \in 0 .. MaxOps /\ crossed' \subseteq Ids
    BY <1>4 DEF Relink, TypeOK
  <2> QED
    BY <2>1, <2>2, <2>3, <2>4, <2>5, <2>6, <2>7, EndType DEF TypeOK
<1>5. CASE RewireAliases(s)
  <2>1. "relink" \in Phases /\ AliasesOf(tx[s].id) \in SUBSET Ids
    BY DEF Phases, AliasesOf
  <2>2. [tx[s] EXCEPT !.pc = "relink", !.todo = AliasesOf(tx[s].id)] \in Tx
    BY <1>0, <2>1, FieldType, Zenon
  <2>3. tx' = [tx EXCEPT ![s] = [tx[s] EXCEPT !.pc = "relink", !.todo = AliasesOf(tx[s].id)]]
    BY <1>5 DEF RewireAliases, TypeOK
  <2>4. tx' \in [Sessions -> Tx]
    BY <2>2, <2>3 DEF TypeOK
  <2> QED
    BY <1>5, <2>4 DEF RewireAliases, TypeOK, tables
<1> QED
  BY <1>1, <1>2, <1>3, <1>4, <1>5 DEF LinkIdentity

LEMMA NextType == TypeOK /\ [Next]_vars => TypeOK'
<1> SUFFICES ASSUME TypeOK, [Next]_vars PROVE TypeOK'
  OBVIOUS
<1>1. ASSUME NEW s \in Sessions, Abort(s)
      PROVE  TypeOK'
  <2>1. End(s)
    BY <1>1 DEF Abort
  <2> QED
    BY <1>1, <2>1, EndType DEF Abort, TypeOK, tables
<1>2. CASE NextDay
  BY <1>2, AmountsAssumption DEF NextDay, TypeOK, tables
<1>3. CASE UNCHANGED vars
  BY <1>3 DEF vars, tables, TypeOK
<1> QED
  BY <1>1, <1>2, <1>3, StartAccountOpType, StatementType, FinishAccountOpType,
     ResetType, LinkIdentityType DEF Next

LEMMA InitType == Init => TypeOK
<1> SUFFICES ASSUME Init PROVE TypeOK
  OBVIOUS
<1>1. tx \in [Sessions -> Tx]
  BY IdleType DEF Init
<1> QED
  BY <1>1, AmountsAssumption DEF Init, TypeOK

\* Tables, locks and transactions keep their types in every reachable state,
\* for every community, pool of connections and price list.
THEOREM Typing == Spec => []TypeOK
  BY InitType, NextType, PTL DEF Spec

-----------------------------------------------------------------------------
(***************************************************************************)
(* The inductive invariant.                                                *)
(***************************************************************************)
Merging == {"purge", "drop", "rewire", "relink"}
Seeding == {"spend", "checkIn", "contact"}

\* The statements a transaction runs are those of its operation, and only an
\* operation that starts with ensureProfileRaw can seed a newcomer.
WellPhased(t) ==
  /\ t.op = "link" <=> t.pc \in Merging
  /\ t.pc = "sweep" => t.op \in AllResets
  /\ t.pc = "ensure" => t.op \in Seeding
  /\ t.isNew => t.op \in Seeding

PhaseDiscipline == \A s \in Sessions : WellPhased(tx[s])

\* A connection between transactions holds no lock, and a reset has locked
\* only rows that exist, which nobody else can delete until it commits.
LockDiscipline ==
  \A s \in Sessions :
    /\ tx[s].pc = "idle" => Holds(s) = {}
    /\ tx[s].pc = "sweep" => \A i \in Holds(s) : exists[i]

\* A merge whose target is not noted as crossed runs alone, into a root, and
\* no alias row appears behind the UPDATE of a merge without its source having
\* been noted.
MergeDiscipline ==
  \A s \in Sessions : tx[s].op = "link" =>
    /\ tx[s].id # tx[s].row
    /\ tx[s].row \notin crossed =>
         /\ link[tx[s].row] = tx[s].row
         /\ \A t \in Sessions \ {s} : tx[t].op # "link"
    /\ tx[s].pc = "relink" =>
         \A i \in Ids \ tx[s].todo : link[i] = tx[s].id => tx[s].id \in crossed

\* The alias rows a merge has updated keep the value it found, and no other
\* merge has updated them.
AliasRows ==
  \A s \in Sessions : tx[s].pc = "relink" =>
    /\ \A i \in tx[s].todo : link[i] = tx[s].id
    /\ \A t \in Sessions \ {s} : tx[t].pc = "relink" => tx[s].todo \cap tx[t].todo = {}

Disciplined == TypeOK /\ PhaseDiscipline /\ LockDiscipline

IInv == Disciplined /\ LedgerBacksBalance

\* A step of session s, seen from the others: their transactions stay, and
\* they lose none of the locks they hold.
StepOf(s) ==
  \A t \in Sessions \ {s} : tx'[t] = tx[t] /\ Holds(t)' \subseteq Holds(t)

LEMMA EndStep ==
  ASSUME TypeOK, NEW s \in Sessions, End(s)
  PROVE  StepOf(s) /\ tx'[s] = Idle /\ Holds(s)' = {}
<1>1. tx'[s] = Idle /\ \A t \in Sessions \ {s} : tx'[t] = tx[t]
  BY DEF TypeOK, End
<1>2. Holds(s)' = {}
  BY IdsAssumption DEF TypeOK, End, Unlocked, Holds
<1>3. \A t \in Sessions \ {s} : Holds(t)' \subseteq Holds(t)
  BY IdsAssumption DEF TypeOK, End, Unlocked, Holds
<1> QED
  BY <1>1, <1>2, <1>3 DEF StepOf

\* Taking the free lock of a row takes it from nobody.
LEMMA LockStep ==
  ASSUME TypeOK, NEW s \in Sessions, NEW i \in Ids,
         lock[i] = NoTx, lock' = [lock EXCEPT ![i] = s],
         NEW t \in Tx, tx' = [tx EXCEPT ![s] = t]
  PROVE  StepOf(s) /\ tx'[s] = t /\ Holds(s)' = Holds(s) \cup {i}
<1>1. tx'[s] = t /\ \A u \in Sessions \ {s} : tx'[u] = tx[u]
  BY DEF TypeOK
<1>2. Holds(s)' = Holds(s) \cup {i}
  BY DEF TypeOK, Holds
<1>3. \A u \in Sessions \ {s} : Holds(u)' \subseteq Holds(u)
  BY DEF TypeOK, Holds
<1> QED
  BY <1>1, <1>2, <1>3 DEF StepOf

\* The same for a step that leaves every lock alone.
LEMMA ReadStep ==
  ASSUME TypeOK, NEW s \in Sessions, UNCHANGED lock,
         NEW t \in Tx, tx' = [tx EXCEPT ![s] = t]
  PROVE  StepOf(s) /\ tx'[s] = t /\ Holds(s)' = Holds(s)
<1>1. tx'[s] = t /\ \A u \in Sessions \ {s} : tx'[u] = tx[u]
  BY DEF TypeOK
<1>2. \A u \in Sessions : Holds(u)' = Holds(u)
  BY DEF Holds
<1> QED
  BY <1>1, <1>2 DEF StepOf

\* What is left to show of a step of s once the other sessions are out of the way.
LEMMA DisciplineStep ==
  ASSUME Disciplined, NEW s \in Sessions, StepOf(s),
         \A t \in Sessions \ {s} : \A i \in Holds(t) : exists[i] => exists'[i],
         WellPhased(tx'[s]),
         tx'[s].pc = "idle" => Holds(s)' = {},
         tx'[s].pc = "sweep" => \A i \in Holds(s)' : exists'[i]
  PROVE  PhaseDiscipline' /\ LockDiscipline'
<1>1. PhaseDiscipline'
  <2> SUFFICES ASSUME NEW t \in Sessions PROVE WellPhased(tx'[t])
    BY DEF PhaseDiscipline, WellPhased
  <2>1. CASE t = s
    BY <2>1
  <2>2. CASE t # s
    <3>1. tx'[t] = tx[t]
      BY <2>2 DEF StepOf
    <3> QED
      BY <3>1 DEF Disciplined, PhaseDiscipline
  <2> QED
    BY <2>1, <2>2
<1>2. LockDiscipline'
  <2> SUFFICES ASSUME NEW t \in Sessions
               PROVE  /\ tx'[t].pc = "idle" => Holds(t)' = {}
                      /\ tx'[t].pc = "sweep" => \A i \in Holds(t)' : exists'[i]
    BY DEF LockDiscipline
  <2>1. CASE t = s
    BY <2>1
  <2>2. CASE t # s
    <3>1. tx'[t] = tx[t] /\ Holds(t)' \subseteq Holds(t)
      BY <2>2 DEF StepOf
    <3>2. \A i \in Holds(t) : exists[i] => exists'[i]
      BY <2>2
    <3> QED
      BY <3>1, <3>2 DEF Disciplined, LockDiscipline
  <2> QED
    BY <2>1, <2>2
<1> QED
  BY <1>1, <1>2

LEMMA IdlePhased == WellPhased(Idle) /\ Idle.pc = "idle" /\ Idle.op = "none"
  BY DEF Idle, Begin, WellPhased, Merging, Seeding, AllResets

\* COMMIT and ROLLBACK keep the discipline when no row another session has
\* locked disappears.
LEMMA EndDiscipline ==
  ASSUME Disciplined, NEW s \in Sessions, End(s),
         \A i \in Ids : exists[i] /\ ~exists'[i] => i \in Holds(s)
  PROVE  PhaseDiscipline' /\ LockDiscipline'
<1>1. TypeOK
  BY DEF Disciplined
<1>2. StepOf(s) /\ tx'[s] = Idle /\ Holds(s)' = {}
  BY <1>1, EndStep
<1>3. \A t \in Sessions \ {s} : \A i \in Holds(t) : exists[i] => exists'[i]
  BY DEF Holds
<1>4. WellPhased(tx'[s]) /\ tx'[s].pc = "idle"
  BY <1>2, IdlePhased
<1> QED
  BY <1>2, <1>3, <1>4, DisciplineStep

LEMMA OpenDiscipline ==
  ASSUME Disciplined, NEW s \in Sessions, NEW t \in Tx, Open(s, t),
         WellPhased(t), t.pc # "idle"
  PROVE  PhaseDiscipline' /\ LockDiscipline'
<1>1. StepOf(s) /\ tx'[s] = t /\ Holds(s)' = Holds(s)
  BY ReadStep DEF Disciplined, Open
<1>2. Holds(s) = {}
  BY DEF Disciplined, LockDiscipline, Open
<1>3. \A u \in Sessions \ {s} : \A i \in Holds(u) : exists[i] => exists'[i]
  BY DEF Open, tables
<1> QED
  BY <1>1, <1>2, <1>3, DisciplineStep

LEMMA StartDiscipline ==
  ASSUME Disciplined, NEW s \in Sessions, NEW t \in Tx, Start(s, t),
         WellPhased(t), t.pc # "idle"
  PROVE  PhaseDiscipline' /\ LockDiscipline'
  BY OpenDiscipline DEF Start

LEMMA StartAccountOpDiscipline ==
  ASSUME Disciplined, NEW s \in Sessions, StartAccountOp(s)
  PROVE  PhaseDiscipline' /\ LockDiscipline'
<1>1. PICK who \in Ids : \/ StartGrant(s, who)
                         \/ StartAward(s, who)
                         \/ StartSpend(s, who)
                         \/ StartCheckIn(s, who)
                         \/ StartContact(s, who)
  BY DEF StartAccountOp
<1>2. Start(s, tx'[s]) /\ tx'[s] \in Tx
  <2>1. TypeOK'
    BY StartAccountOpType DEF Disciplined
  <2>2. tx'[s] \in Tx
    BY <2>1 DEF TypeOK
  <2>3. \E t : Start(s, t)
    BY <1>1 DEF StartGrant, StartAward, StartSpend, StartCheckIn, StartContact
  <2>4. ASSUME NEW t, Start(s, t) PROVE tx'[s] = t
    BY <2>4 DEF Start, Open, Disciplined, TypeOK
  <2> QED
    BY <2>2, <2>3, <2>4
<1>3. /\ tx'[s].op \in AllAccountOps /\ tx'[s].pc \in {"resolve", "ensure"}
      /\ tx'[s].pc = "ensure" => tx'[s].op \in Seeding
      /\ ~tx'[s].isNew
  <2>0. tx \in [Sessions -> Tx]
    BY DEF Disciplined, TypeOK
  <2>1. CASE StartGrant(s, who)
    BY <2>0, <2>1 DEF StartGrant, Start, Open, Begin, AllAccountOps
  <2>2. CASE StartAward(s, who)
    BY <2>0, <2>2 DEF StartAward, Start, Open, Begin, AllAccountOps
  <2>3. CASE StartSpend(s, who)
    BY <2>0, <2>3 DEF StartSpend, Start, Open, Begin, AllAccountOps, Seeding
  <2>4. CASE StartCheckIn(s, who)
    BY <2>0, <2>4 DEF StartCheckIn, Start, Open, Begin, AllAccountOps, Seeding
  <2>5. CASE StartContact(s, who)
    BY <2>0, <2>5 DEF StartContact, Start, Open, Begin, AllAccountOps, Seeding
  <2> QED
    BY <1>1, <2>1, <2>2, <2>3, <2>4, <2>5
<1>4. WellPhased(tx'[s])
  BY <1>3 DEF WellPhased, Merging, Seeding, AllAccountOps
<1> QED
  BY <1>2, <1>3, <1>4, StartDiscipline

LEMMA StatementDiscipline ==
  ASSUME Disciplined, NEW s \in Sessions, EnsureRead(s) \/ Resolve(s) \/ Upsert(s)
  PROVE  PhaseDiscipline' /\ LockDiscipline'
<1>0. /\ TypeOK /\ tx[s] \in Tx /\ tx[s].row \in Ids
      /\ WellPhased(tx[s])
      /\ TypeOK'
  BY StatementType DEF Disciplined, TypeOK, Tx, PhaseDiscipline
<1>1. tx'[s] \in Tx
  BY <1>0 DEF TypeOK
<1>2. /\ tx'[s].pc \in {"resolve", "upsert", "write"}
      /\ tx'[s].op = tx[s].op
      /\ tx[s].pc \in {"ensure", "resolve", "upsert"}
      /\ tx'[s].isNew => tx[s].pc = "ensure" \/ tx[s].isNew
  <2>1. CASE EnsureRead(s)
    BY <1>0, <2>1 DEF EnsureRead, TypeOK, Tx
  <2>2. CASE Resolve(s)
    BY <1>0, <2>2 DEF Resolve, TypeOK, Tx
  <2>3. CASE Upsert(s)
    BY <1>0, <2>3 DEF Upsert, TypeOK, Tx
  <2> QED
    BY <2>1, <2>2, <2>3
<1>3. WellPhased(tx'[s])
  BY <1>0, <1>2 DEF WellPhased, Merging, Seeding
<1>4. StepOf(s)
  <2>1. CASE EnsureRead(s) \/ Resolve(s)
    BY <1>0, <2>1 DEF EnsureRead, Resolve, TypeOK, StepOf, Holds
  <2>2. CASE Upsert(s)
    <3>1. [tx[s] EXCEPT !.pc = "write"] \in Tx
      BY <1>0 DEF Tx, Phases
    <3>2. tx' = [tx EXCEPT ![s] = [tx[s] EXCEPT !.pc = "write"]]
      BY <2>2, <1>0 DEF Upsert, TypeOK
    <3>3. lock[tx[s].row] = NoTx /\ lock' = [lock EXCEPT ![tx[s].row] = s]
      BY <2>2 DEF Upsert
    <3> QED
      BY <1>0, <3>1, <3>2, <3>3, LockStep
  <2> QED
    BY <2>1, <2>2
<1>5. UNCHANGED exists
  BY DEF EnsureRead, Resolve, Upsert, tables
<1> QED
  BY <1>2, <1>3, <1>4, <1>5, DisciplineStep

\* The commits of account operations create profiles and delete none.
LEMMA FinishAccountOpDiscipline ==
  ASSUME Disciplined, NEW s \in Sessions, FinishAccountOp(s)
  PROVE  PhaseDiscipline' /\ LockDiscipline'
<1>1. \E i, d, n : Book(s, i, d, n)
  BY DEF FinishAccountOp, GrantPt, AwardBadge, SpendPt, CheckIn, Contact
<1>2. End(s) /\ exists' = [exists EXCEPT ![tx[s].row] = TRUE]
  BY <1>1 DEF Book
<1>3. \A i \in Ids : exists[i] => exists'[i]
  BY <1>2 DEF Disciplined, TypeOK
<1> QED
  BY <1>2, <1>3, EndDiscipline

LEMMA ResetDiscipline ==
  ASSUME Disciplined, NEW s \in Sessions, Reset(s)
  PROVE  PhaseDiscipline' /\ LockDiscipline'
<1>0. /\ TypeOK /\ tx[s] \in Tx /\ WellPhased(tx[s])
      /\ TypeOK' /\ tx'[s] \in Tx
  BY ResetType DEF Disciplined, TypeOK, PhaseDiscipline
<1>1. ASSUME NEW op \in Resets, StartReset(s, op)
      PROVE  PhaseDiscipline' /\ LockDiscipline'
  <2>1. PICK t : t = [Begin(op, "sweep", CHOOSE i \in Ids : TRUE)
                        EXCEPT !.todo = Affected(op),
                               !.plan = [i \in Ids |-> IF i \in Affected(op)
                                                       THEN Goal(op) - balance[i] ELSE 0]]
    OBVIOUS
  <2>2. Start(s, t)
    BY <1>1, <2>1 DEF StartReset
  <2>3. t = tx'[s]
    BY <1>0, <2>2 DEF Start, Open, TypeOK
  <2>4. t.op = op /\ t.pc = "sweep" /\ t.isNew = FALSE /\ op \in AllResets
    BY <2>1, OpsAssumption DEF Begin
  <2>5. WellPhased(t)
    BY <2>4 DEF WellPhased, Merging, AllResets
  <2> QED
    BY <1>0, <2>2, <2>3, <2>4, <2>5, StartDiscipline
<1>2. ASSUME NEW i \in Ids, SweepRow(s, i)
      PROVE  PhaseDiscipline' /\ LockDiscipline'
  <2>1. tx'[s] = [tx[s] EXCEPT !.todo = tx[s].todo \ {i}]
    BY <1>0, <1>2 DEF SweepRow, TypeOK
  <2>2. tx' = [tx EXCEPT ![s] = tx'[s]]
    BY <1>0, <1>2, <2>1 DEF SweepRow, TypeOK
  <2>3. StepOf(s) /\ Holds(s)' = Holds(s) \cup {i}
    BY <1>0, <1>2, <2>2, LockStep DEF SweepRow
  <2>4. UNCHANGED exists /\ exists[i] /\ tx[s].pc = "sweep"
    BY <1>2 DEF SweepRow, tables
  <2>5. tx'[s].pc = "sweep" /\ tx'[s].op = tx[s].op /\ tx'[s].isNew = tx[s].isNew
    BY <1>0, <2>1, <2>4 DEF Tx
  <2>6. WellPhased(tx'[s])
    BY <1>0, <2>4, <2>5 DEF WellPhased
  <2>7. \A j \in Holds(s)' : exists'[j]
    BY <2>3, <2>4 DEF Disciplined, LockDiscipline
  <2> QED
    BY <2>3, <2>4, <2>5, <2>6, <2>7, DisciplineStep
<1>3. CASE FinishReset(s)
  BY <1>3, EndDiscipline DEF FinishReset
<1> QED
  BY <1>1, <1>2, <1>3 DEF Reset

LEMMA LinkIdentityDiscipline ==
  ASSUME Disciplined, NEW s \in Sessions, LinkIdentity(s)
  PROVE  PhaseDiscipline' /\ LockDiscipline'
<1>0. /\ TypeOK /\ tx[s] \in Tx /\ tx[s].id \in Ids /\ WellPhased(tx[s])
      /\ TypeOK' /\ tx'[s] \in Tx
  BY LinkIdentityType DEF Disciplined, TypeOK, PhaseDiscipline, Tx
<1>1. ASSUME NEW from \in Ids, NEW to \in Ids, StartLink(s, from, to)
      PROVE  PhaseDiscipline' /\ LockDiscipline'
  <2>1. PICK canon \in Ids, t \in Tx :
          /\ t = [Begin("link", "purge", from) EXCEPT !.row = canon]
          /\ Open(s, t)
    BY <1>0, <1>1, StartLinkOpens
  <2>2. t.op = "link" /\ t.pc = "purge" /\ t.isNew = FALSE
    BY <2>1 DEF Begin
  <2>3. WellPhased(t)
    BY <2>2 DEF WellPhased, Merging
  <2> QED
    BY <2>1, <2>2, <2>3, OpenDiscipline
<1>2. CASE Purge(s) \/ DropProfile(s) \/ RewireAliases(s)
  <2>1. /\ tx'[s].pc \in {"drop", "rewire", "relink"}
        /\ tx[s].pc \in {"purge", "drop", "rewire"}
        /\ tx'[s].op = tx[s].op /\ tx'[s].isNew = tx[s].isNew
    BY <1>0, <1>2 DEF Purge, DropProfile, RewireAliases, TypeOK, Tx
  <2>2. WellPhased(tx'[s])
    BY <1>0, <2>1 DEF WellPhased, Merging
  <2>3. tx' = [tx EXCEPT ![s] = tx'[s]]
    BY <1>0, <1>2 DEF Purge, DropProfile, RewireAliases, TypeOK
  <2>4. \/ UNCHANGED lock
        \/ lock[tx[s].id] = NoTx /\ lock' = [lock EXCEPT ![tx[s].id] = s]
    BY <1>2 DEF Purge, DropProfile, RewireAliases
  <2>5. StepOf(s)
    BY <1>0, <2>3, <2>4, LockStep, ReadStep
  <2>6. UNCHANGED exists
    BY <1>2 DEF Purge, DropProfile, RewireAliases, tables
  <2> QED
    BY <2>1, <2>2, <2>5, <2>6, DisciplineStep
<1>3. CASE Relink(s)
  <2>1. \A i \in Ids : exists[i] /\ ~exists'[i] => i \in Holds(s)
    BY <1>3 DEF Relink
  <2> QED
    BY <1>3, <2>1, EndDiscipline DEF Relink
<1> QED
  BY <1>1, <1>2, <1>3 DEF LinkIdentity

LEMMA InitDisciplined == Init => Disciplined
<1> SUFFICES ASSUME Init PROVE Disciplined
  OBVIOUS
<1>1. \A s \in Sessions : tx[s] = Idle /\ Holds(s) = {}
  BY IdsAssumption DEF Init, Holds
<1> QED
  BY <1>1, IdlePhased, InitType DEF Disciplined, PhaseDiscipline, LockDiscipline

LEMMA NextDisciplined == Disciplined /\ [Next]_vars => Disciplined'
<1> SUFFICES ASSUME Disciplined, [Next]_vars PROVE Disciplined'
  OBVIOUS
<1>1. TypeOK'
  BY NextType DEF Disciplined
<1>2. ASSUME NEW s \in Sessions, Abort(s)
      PROVE  PhaseDiscipline' /\ LockDiscipline'
  BY <1>2, EndDiscipline DEF Abort, tables
<1>3. ASSUME NextDay \/ UNCHANGED vars
      PROVE  PhaseDiscipline' /\ LockDiscipline'
  <2>1. UNCHANGED <<exists, tx, lock>>
    BY <1>3 DEF NextDay, vars, tables
  <2>2. PhaseDiscipline'
    BY <2>1 DEF Disciplined, PhaseDiscipline
  <2>3. LockDiscipline'
    BY <2>1 DEF Disciplined, LockDiscipline, Holds
  <2> QED
    BY <2>2, <2>3
<1>4. ASSUME NEW s \in Sessions,
             \/ StartAccountOp(s)
             \/ EnsureRead(s) \/ Resolve(s) \/ Upsert(s)
             \/ FinishAccountOp(s) \/ Reset(s) \/ LinkIdentity(s)
      PROVE  PhaseDiscipline' /\ LockDiscipline'
  BY <1>4, StartAccountOpDiscipline, StatementDiscipline,
     FinishAccountOpDiscipline, ResetDiscipline, LinkIdentityDiscipline
<1>5. PhaseDiscipline' /\ LockDiscipline'
  BY <1>2, <1>3, <1>4 DEF Next
<1> QED
  BY <1>1, <1>5 DEF Disciplined

-----------------------------------------------------------------------------
(***************************************************************************)
(* The ledger backs the balances.                                          *)
(***************************************************************************)

\* No profile, no rows: stated by component for the provers.
LEMMA NoRows ==
  ASSUME NEW i \in Ids
  PROVE  RowsOf(i) = <<0, {}, {}>> <=>
           /\ entries[i] = 0
           /\ \A h \in held : h[1] # i
           /\ \A c \in checkins : c[1] # i
  BY DEF RowsOf

\* What a commit books is booked on a profile that is there, by its own upsert
\* or by somebody's before it: the foreign keys see to that.
LEMMA BookBacked ==
  ASSUME TypeOK, LedgerBacksBalance, NEW s \in Sessions,
         NEW i \in Ids, NEW d \in Int, NEW n \in Nat, Book(s, i, d, n),
         Visible(s, i) \/ (d = 0 /\ n = 0)
  PROVE  \A k \in Ids :
           /\ balance'[k] = booked'[k]
           /\ exists[k] => exists'[k]
           /\ Visible(s, k) => exists'[k]
           /\ ~exists'[k] => balance'[k] = 0 /\ entries'[k] = 0
<1> SUFFICES ASSUME NEW k \in Ids
             PROVE  /\ balance'[k] = booked'[k]
                    /\ exists[k] => exists'[k]
                    /\ Visible(s, k) => exists'[k]
                    /\ ~exists'[k] => balance'[k] = 0 /\ entries'[k] = 0
  OBVIOUS
<1> DEFINE gain == [j \in Ids |-> Seeds(s, j) * FirstContactPt + (IF j = i THEN d ELSE 0)]
<1>1. /\ balance'[k] = IF Visible(s, k) THEN balance[k] + gain[k] ELSE balance[k]
      /\ booked'[k] = booked[k] + gain[k]
      /\ entries'[k] = entries[k] + Seeds(s, k) + (IF k = i THEN n ELSE 0)
      /\ exists' = [exists EXCEPT ![tx[s].row] = TRUE]
  BY DEF Book
<1>2. /\ balance[k] = booked[k]
      /\ ~exists[k] => balance[k] = 0 /\ entries[k] = 0
  BY NoRows DEF LedgerBacksBalance
<1>3. /\ balance[k] \in Int /\ booked[k] \in Int /\ entries[k] \in Nat
      /\ Seeds(s, k) \in {0, 1}
      /\ FirstContactPt \in Nat
  BY AmountsAssumption DEF TypeOK, Seeds
<1>4. exists[k] => exists'[k]
  BY <1>1 DEF TypeOK
<1>5. CASE Visible(s, k)
  <2>1. exists'[k]
    BY <1>1, <1>5 DEF TypeOK, Visible
  <2>2. balance'[k] = booked'[k]
    BY <1>1, <1>2, <1>5
  <2> QED
    BY <1>4, <2>1, <2>2
<1>6. CASE ~Visible(s, k)
  <2>1. Seeds(s, k) = 0
    BY <1>6 DEF Book, SeedAllowed, Seeds
  <2>2. k = i => d = 0 /\ n = 0
    BY <1>6
  <2>3. gain[k] = 0
    BY <1>3, <2>1, <2>2
  <2>4. balance'[k] = balance[k] /\ booked'[k] = booked[k] /\ entries'[k] = entries[k]
    <3> HIDE DEF gain
    <3> QED
      BY <1>1, <1>3, <1>6, <2>1, <2>2, <2>3
  <2> QED
    BY <1>2, <1>4, <1>6, <2>4
<1> QED
  BY <1>5, <1>6

LEMMA FinishAccountOpBacked ==
  ASSUME IInv, NEW s \in Sessions, FinishAccountOp(s)
  PROVE  LedgerBacksBalance'
<1>0. TypeOK /\ LedgerBacksBalance /\ WellPhased(tx[s])
  BY DEF IInv, Disciplined, PhaseDiscipline
<1>1. /\ tx[s].id \in Ids /\ tx[s].eid \in Ids
      /\ tx[s].amt \in Int /\ -tx[s].amt \in Int
      /\ DailyCheckinPt \in Int
  BY <1>0, AmountsAssumption DEF TypeOK, Tx
<1>2. ASSUME NEW i \in Ids, NEW d \in Int, NEW n \in Nat, Book(s, i, d, n),
             Visible(s, i) \/ (d = 0 /\ n = 0),
             \A h \in held' : h \in held \/ Visible(s, h[1]),
             \A c \in checkins' : c \in checkins \/ Visible(s, c[1])
      PROVE  LedgerBacksBalance'
  <2> SUFFICES ASSUME NEW k \in Ids
               PROVE  /\ balance'[k] = booked'[k]
                      /\ ~exists'[k] => balance'[k] = 0 /\ RowsOf(k)' = <<0, {}, {}>>
    BY DEF LedgerBacksBalance
  <2>1. /\ balance'[k] = booked'[k]
        /\ exists[k] => exists'[k]
        /\ Visible(s, k) => exists'[k]
        /\ ~exists'[k] => balance'[k] = 0 /\ entries'[k] = 0
    BY <1>0, <1>2, BookBacked
  <2>2. ~exists'[k] => /\ \A h \in held : h[1] # k
                       /\ \A c \in checkins : c[1] # k
    BY <1>0, <2>1, NoRows DEF LedgerBacksBalance
  <2>3. ~exists'[k] => /\ \A h \in held' : h[1] # k
                       /\ \A c \in checkins' : c[1] # k
    BY <1>2, <2>1, <2>2
  <2>4. ~exists'[k] => RowsOf(k)' = <<0, {}, {}>>
    BY <2>1, <2>3 DEF RowsOf
  <2> QED
    BY <2>1, <2>4
<1>3. ASSUME NEW i \in Ids, NEW d \in Int, NEW n \in Nat, Book(s, i, d, n)
      PROVE  \A h \in HeldAfterSeed(s) : h \in held \/ Visible(s, h[1])
  BY <1>3 DEF Book, SeedAllowed, HeldAfterSeed
<1>4. CASE GrantPt(s)
  <2>1. Visible(s, tx[s].id) /\ Book(s, tx[s].id, tx[s].amt, 1) /\ UNCHANGED <<held, checkins>>
    BY <1>4 DEF GrantPt
  <2> QED
    BY <1>1, <1>2, <2>1
<1>5. CASE AwardBadge(s)
  <2>1. Visible(s, tx[s].id) /\ Book(s, tx[s].id, 0, 0) /\ UNCHANGED checkins
    BY <1>5 DEF AwardBadge
  <2>2. \A h \in held' : h \in held \/ Visible(s, h[1])
    BY <1>5, <2>1 DEF AwardBadge
  <2> QED
    BY <1>1, <1>2, <2>1, <2>2
<1>6. CASE SpendPt(s)
  <2>1. held' = HeldAfterSeed(s) /\ UNCHANGED checkins
    BY <1>6 DEF SpendPt
  <2>2. \/ Covered(s, tx[s].id) /\ Book(s, tx[s].id, -tx[s].amt, 1)
        \/ Book(s, tx[s].id, 0, 0)
    BY <1>6 DEF SpendPt
  <2>3. Covered(s, tx[s].id) => Visible(s, tx[s].id)
    BY DEF Covered
  <2> QED
    BY <1>1, <1>2, <1>3, <2>1, <2>2, <2>3
<1>7. CASE CheckIn(s)
  <2>1. /\ held' = HeldAfterSeed(s)
        /\ \/ Visible(s, tx[s].id) /\ Book(s, tx[s].id, DailyCheckinPt, 1)
           \/ Book(s, tx[s].id, 0, 0)
    <3>1. held' = HeldAfterSeed(s)
      BY <1>7 DEF CheckIn
    <3>2. \/ /\ <<tx[s].id, tx[s].day>> \notin checkins
             /\ Book(s, tx[s].id, DailyCheckinPt, 1)
          \/ Book(s, tx[s].id, 0, 0)
      BY <1>7 DEF CheckIn
    <3>3. <<tx[s].id, tx[s].day>> \notin checkins => Visible(s, tx[s].id)
      BY <1>7 DEF CheckIn
    <3> QED
      BY <3>1, <3>2, <3>3
  <2>2. \A c \in checkins' : c \in checkins \/ Visible(s, c[1])
    BY <1>7 DEF CheckIn
  <2>3. \A h \in held' : h \in held \/ Visible(s, h[1])
    BY <1>1, <1>3, <2>1
  <2>4. CASE Visible(s, tx[s].id) /\ Book(s, tx[s].id, DailyCheckinPt, 1)
    BY <1>1, <1>2, <2>2, <2>3, <2>4
  <2>5. CASE Book(s, tx[s].id, 0, 0)
    BY <1>1, <1>2, <2>2, <2>3, <2>5
  <2> QED
    BY <2>1, <2>4, <2>5
<1>8. CASE Contact(s)
  <2>1. held' = HeldAfterSeed(s) /\ UNCHANGED checkins /\ Book(s, tx[s].eid, 0, 0)
    BY <1>8 DEF Contact
  <2> QED
    BY <1>1, <1>2, <1>3, <2>1
<1> QED
  BY <1>4, <1>5, <1>6, <1>7, <1>8 DEF FinishAccountOp

LEMMA FinishResetBacked ==
  ASSUME IInv, NEW s \in Sessions, FinishReset(s)
  PROVE  LedgerBacksBalance'
<1>0. /\ TypeOK /\ LedgerBacksBalance
      /\ tx[s].plan \in [Ids -> Int]
      /\ \A i \in Holds(s) : exists[i]
  BY DEF IInv, Disciplined, LockDiscipline, TypeOK, Tx, FinishReset
<1> SUFFICES ASSUME NEW k \in Ids
             PROVE  /\ balance'[k] = booked'[k]
                    /\ ~exists'[k] => balance'[k] = 0 /\ RowsOf(k)' = <<0, {}, {}>>
  BY DEF LedgerBacksBalance
<1>1. balance[k] = booked[k]
  BY <1>0 DEF LedgerBacksBalance
<1>2. /\ balance'[k] = IF k \in Holds(s) THEN balance[k] + tx[s].plan[k] ELSE balance[k]
      /\ booked'[k] = IF k \in Holds(s) THEN booked[k] + tx[s].plan[k] ELSE booked[k]
      /\ entries'[k] = IF k \in Holds(s) THEN entries[k] + 1 ELSE entries[k]
      /\ UNCHANGED <<exists, held, checkins>>
  BY DEF FinishReset
<1>3. CASE k \in Holds(s)
  BY <1>0, <1>1, <1>2, <1>3
<1>4. CASE k \notin Holds(s)
  <2>1. ~exists[k] => balance[k] = 0 /\ RowsOf(k) = <<0, {}, {}>>
    BY <1>0 DEF LedgerBacksBalance
  <2>2. RowsOf(k)' = RowsOf(k)
    BY <1>2, <1>4 DEF RowsOf
  <2> QED
    BY <1>1, <1>2, <1>4, <2>1, <2>2
<1> QED
  BY <1>3, <1>4

LEMMA RelinkBacked ==
  ASSUME IInv, NEW s \in Sessions, Relink(s)
  PROVE  LedgerBacksBalance'
<1>0. TypeOK /\ LedgerBacksBalance
  BY DEF IInv, Disciplined
<1> SUFFICES ASSUME NEW k \in Ids
             PROVE  /\ balance'[k] = booked'[k]
                    /\ ~exists'[k] => balance'[k] = 0 /\ RowsOf(k)' = <<0, {}, {}>>
  BY DEF LedgerBacksBalance
<1>1. /\ balance'[k] = IF k \in Holds(s) THEN 0 ELSE balance[k]
      /\ booked'[k] = IF k \in Holds(s) THEN 0 ELSE booked[k]
      /\ entries'[k] = IF k \in Holds(s) THEN 0 ELSE entries[k]
      /\ exists'[k] = (exists[k] /\ k \notin Holds(s))
      /\ held' = {h \in held : h[1] \notin Holds(s)}
      /\ checkins' = {c \in checkins : c[1] \notin Holds(s)}
  BY DEF Relink
<1>2. CASE k \in Holds(s)
  <2>1. /\ \A h \in held' : h[1] # k
        /\ \A c \in checkins' : c[1] # k
    BY <1>1, <1>2
  <2>2. RowsOf(k)' = <<0, {}, {}>>
    BY <1>1, <1>2, <2>1 DEF RowsOf
  <2> QED
    BY <1>1, <1>2, <2>2
<1>3. CASE k \notin Holds(s)
  <2>1. RowsOf(k) = <<0, {}, {}>> => RowsOf(k)' = <<0, {}, {}>>
    <3>1. \A h \in held' : h \in held
      BY <1>1
    <3>2. \A c \in checkins' : c \in checkins
      BY <1>1
    <3> QED
      BY <1>1, <1>3, <3>1, <3>2, NoRows DEF RowsOf
  <2> QED
    BY <1>0, <1>1, <1>3, <2>1 DEF LedgerBacksBalance
<1> QED
  BY <1>2, <1>3

\* The steps that write a table: every other step only reads, locks or ends
\* a transaction.
LEMMA TableSteps ==
  ASSUME [Next]_vars
  PROVE  \/ \E s \in Sessions : FinishAccountOp(s) \/ FinishReset(s) \/ Relink(s)
         \/ UNCHANGED tables
<1>1. CASE \E s \in Sessions : StartAccountOp(s)
  BY <1>1 DEF StartAccountOp, StartGrant, StartAward, StartSpend, StartCheckIn, StartContact,
              Start, Open
<1>2. CASE \E s \in Sessions : EnsureRead(s) \/ Resolve(s) \/ Upsert(s) \/ Abort(s)
  BY <1>2 DEF EnsureRead, Resolve, Upsert, Abort
<1>3. CASE \E s \in Sessions : Reset(s)
  BY <1>3 DEF Reset, StartReset, SweepRow, Start, Open
<1>4. CASE \E s \in Sessions : LinkIdentity(s)
  BY <1>4 DEF LinkIdentity, StartLink, Purge, DropProfile, RewireAliases, Open
<1>5. CASE \E s \in Sessions : FinishAccountOp(s)
  BY <1>5
<1>6. CASE NextDay \/ UNCHANGED vars
  BY <1>6 DEF NextDay, vars
<1> QED
  BY <1>1, <1>2, <1>3, <1>4, <1>5, <1>6 DEF Next

LEMMA QuietBacked ==
  ASSUME LedgerBacksBalance, UNCHANGED tables
  PROVE  LedgerBacksBalance'
  BY DEF LedgerBacksBalance, RowsOf, tables

LEMMA NextIInv == IInv /\ [Next]_vars => IInv'
<1> SUFFICES ASSUME IInv, [Next]_vars PROVE IInv'
  OBVIOUS
<1>1. Disciplined'
  BY NextDisciplined DEF IInv
<1>2. \/ \E s \in Sessions : FinishAccountOp(s) \/ FinishReset(s) \/ Relink(s)
      \/ UNCHANGED tables
  BY TableSteps
<1>3. LedgerBacksBalance'
  BY <1>2, FinishAccountOpBacked, FinishResetBacked, RelinkBacked, QuietBacked DEF IInv
<1> QED
  BY <1>1, <1>3 DEF IInv

LEMMA InitIInv == Init => IInv
  BY InitDisciplined DEF Init, IInv, LedgerBacksBalance, RowsOf

\* The ledger is the source of truth of every balance, and no row of another
\* table outlives or precedes the profile it belongs to, whatever transactions
\* interleave, roll back or race a merge.
THEOREM LedgerIsSourceOfTruth == Spec => []LedgerBacksBalance
<1>1. Spec => []IInv
  BY InitIInv, NextIInv, PTL DEF Spec
<1> QED
  BY <1>1, PTL DEF IInv

-----------------------------------------------------------------------------
(***************************************************************************)
(* Aliases.                                                                *)
(***************************************************************************)
LinkInv == Disciplined /\ AliasRows /\ MergeDiscipline /\ OnlyCrossedLinksChain

LEMMA InitLinkInv == Init => LinkInv
<1> SUFFICES ASSUME Init PROVE LinkInv
  OBVIOUS
<1>1. AliasRows /\ MergeDiscipline
  BY IdlePhased DEF Init, AliasRows, MergeDiscipline
<1>2. OnlyCrossedLinksChain
  BY DEF Init, OnlyCrossedLinksChain
<1> QED
  BY <1>1, <1>2, InitDisciplined DEF LinkInv

\* What the merges in flight rely on survives the steps that are not a merge's.
LEMMA QuietMerge ==
  ASSUME LinkInv, NEW s \in Sessions, UNCHANGED <<link, crossed>>,
         \A t \in Sessions \ {s} : tx'[t] = tx[t],
         tx'[s].pc # "relink",
         tx'[s].op # "link" \/ (/\ tx[s].op = "link"
                                /\ tx'[s].id = tx[s].id
                                /\ tx'[s].row = tx[s].row)
  PROVE  AliasRows' /\ MergeDiscipline' /\ OnlyCrossedLinksChain'
<1>1. OnlyCrossedLinksChain'
  BY DEF LinkInv, OnlyCrossedLinksChain
<1>2. AliasRows'
  BY DEF LinkInv, AliasRows
<1>3. MergeDiscipline'
  BY DEF LinkInv, MergeDiscipline
<1> QED
  BY <1>1, <1>2, <1>3

\* A merge that begins notes its target and everybody else's, unless it runs
\* alone and its lookup has answered.
LEMMA StartLinkMerge ==
  ASSUME LinkInv, TypeOK, NEW s \in Sessions, NEW from \in Ids, NEW to \in Ids,
         StartLink(s, from, to)
  PROVE  AliasRows' /\ MergeDiscipline' /\ OnlyCrossedLinksChain'
<1>1. PICK canon \in Ids, t \in Tx :
        /\ t = [Begin("link", "purge", from) EXCEPT !.row = canon]
        /\ from # canon
        /\ Open(s, t)
        /\ crossed \subseteq crossed'
        /\ canon # link[to] => canon \in crossed'
        /\ Merges # {} => canon \in crossed' /\ \A u \in Merges : tx[u].row \in crossed'
  BY StartLinkOpens
<1>2. t.op = "link" /\ t.pc = "purge" /\ t.id = from /\ t.row = canon
  BY <1>1 DEF Begin
<1>3. tx'[s] = t /\ (\A u \in Sessions \ {s} : tx'[u] = tx[u]) /\ UNCHANGED link
  BY <1>1 DEF Open, TypeOK, tables
<1>4. OnlyCrossedLinksChain'
  BY <1>1, <1>3 DEF LinkInv, OnlyCrossedLinksChain
<1>5. AliasRows'
  BY <1>2, <1>3 DEF LinkInv, AliasRows
<1>6. canon \notin crossed' => link[canon] = canon
  BY <1>1 DEF LinkInv, OnlyCrossedLinksChain
<1>7. canon \notin crossed' => \A u \in Sessions : tx[u].op # "link"
  BY <1>1 DEF Merges
<1>8. \A u \in Sessions \ {s} : tx[u].op = "link" => tx[u].row \in crossed'
  BY <1>1 DEF Merges
<1>9. MergeDiscipline'
  <2> SUFFICES ASSUME NEW u \in Sessions, tx'[u].op = "link"
               PROVE  /\ tx'[u].id # tx'[u].row
                      /\ tx'[u].row \notin crossed' =>
                           /\ link'[tx'[u].row] = tx'[u].row
                           /\ \A v \in Sessions \ {u} : tx'[v].op # "link"
                      /\ tx'[u].pc = "relink" =>
                           \A i \in Ids \ tx'[u].todo : link'[i] = tx'[u].id => tx'[u].id \in crossed'
    BY DEF MergeDiscipline
  <2>1. CASE u = s
    BY <1>1, <1>2, <1>3, <1>6, <1>7, <2>1
  <2>2. CASE u # s
    BY <1>1, <1>3, <1>8, <2>2 DEF LinkInv, MergeDiscipline
  <2> QED
    BY <2>1, <2>2
<1> QED
  BY <1>4, <1>5, <1>9

\* The UPDATE takes every alias of the source that is committed by now, none of
\* which another merge has updated.
LEMMA RewireMerge ==
  ASSUME LinkInv, TypeOK, NEW s \in Sessions, RewireAliases(s), WellPhased(tx[s])
  PROVE  AliasRows' /\ MergeDiscipline' /\ OnlyCrossedLinksChain'
<1> DEFINE moved == AliasesOf(tx[s].id)
<1>0. tx[s] \in Tx
  BY DEF TypeOK
<1>1. /\ tx[s].pc = "rewire" /\ tx[s].op = "link"
      /\ tx' = [tx EXCEPT ![s].pc = "relink", ![s].todo = moved]
      /\ UNCHANGED <<link, crossed>>
      /\ RowsFree(s, moved)
  BY DEF RewireAliases, tables, WellPhased, Merging
<1>2. /\ tx'[s].op = "link" /\ tx'[s].pc = "relink" /\ tx'[s].todo = moved
      /\ tx'[s].id = tx[s].id /\ tx'[s].row = tx[s].row
      /\ \A t \in Sessions \ {s} : tx'[t] = tx[t]
  BY <1>0, <1>1 DEF TypeOK, Tx
<1>3. OnlyCrossedLinksChain'
  BY <1>1 DEF LinkInv, OnlyCrossedLinksChain
<1>4. \A t \in Sessions \ {s} : tx[t].pc = "relink" => tx[t].todo \cap moved = {}
  BY <1>1 DEF RowsFree, RowsWritten
<1>5. (\A i \in moved : link[i] = tx[s].id) /\ (\A i \in Ids \ moved : link[i] # tx[s].id)
  BY DEF AliasesOf
<1> HIDE DEF moved
<1>6. AliasRows'
  <2> SUFFICES ASSUME NEW t \in Sessions, tx'[t].pc = "relink"
               PROVE  /\ \A i \in tx'[t].todo : link'[i] = tx'[t].id
                      /\ \A u \in Sessions \ {t} :
                           tx'[u].pc = "relink" => tx'[t].todo \cap tx'[u].todo = {}
    BY DEF AliasRows
  <2>1. CASE t = s
    BY <1>1, <1>2, <1>4, <1>5, <2>1
  <2>2. CASE t # s
    <3>1. tx'[t] = tx[t] /\ \A i \in tx[t].todo : link[i] = tx[t].id
      BY <1>2, <2>2 DEF LinkInv, AliasRows
    <3>2. ASSUME NEW u \in Sessions \ {t}, tx'[u].pc = "relink"
          PROVE  tx[t].todo \cap tx'[u].todo = {}
      <4>1. CASE u = s
        BY <1>2, <1>4, <2>2, <3>1, <4>1
      <4>2. CASE u # s
        BY <1>2, <2>2, <3>1, <3>2, <4>2 DEF LinkInv, AliasRows
      <4> QED
        BY <4>1, <4>2
    <3> QED
      BY <1>1, <3>1, <3>2
  <2> QED
    BY <2>1, <2>2
<1>7. MergeDiscipline'
  <2>1. \A t \in Sessions : /\ tx'[t].op = tx[t].op /\ tx'[t].id = tx[t].id
                           /\ tx'[t].row = tx[t].row
    BY <1>1, <1>2
  <2> SUFFICES ASSUME NEW t \in Sessions, tx'[t].op = "link"
               PROVE  /\ tx'[t].id # tx'[t].row
                      /\ tx'[t].row \notin crossed' =>
                           /\ link'[tx'[t].row] = tx'[t].row
                           /\ \A u \in Sessions \ {t} : tx'[u].op # "link"
                      /\ tx'[t].pc = "relink" =>
                           \A i \in Ids \ tx'[t].todo :
                             link'[i] = tx'[t].id => tx'[t].id \in crossed'
    BY DEF MergeDiscipline
  <2>2. /\ tx[t].id # tx[t].row
        /\ tx[t].row \notin crossed =>
             /\ link[tx[t].row] = tx[t].row
             /\ \A u \in Sessions \ {t} : tx[u].op # "link"
        /\ tx[t].pc = "relink" =>
             \A i \in Ids \ tx[t].todo : link[i] = tx[t].id => tx[t].id \in crossed
    BY <2>1 DEF LinkInv, MergeDiscipline
  <2>3. tx'[t].pc = "relink" =>
          \A i \in Ids \ tx'[t].todo : link[i] = tx[t].id => tx[t].id \in crossed
    BY <1>2, <1>5, <2>2
  <2>4. tx[t].row \notin crossed =>
          /\ link[tx[t].row] = tx[t].row
          /\ \A u \in Sessions \ {t} : tx'[u].op # "link"
    BY <2>1, <2>2
  <2>5. link' = link /\ crossed' = crossed
    BY <1>1
  <2>6. tx'[t].id = tx[t].id /\ tx'[t].row = tx[t].row
    BY <2>1
  <2> QED
    BY <2>2, <2>3, <2>4, <2>5, <2>6
<1> QED
  BY <1>3, <1>6, <1>7

\* The commit of a merge: its source and the aliases it took follow the target;
\* an alias it did not take points at a source that was noted.
LEMMA RelinkMerge ==
  ASSUME LinkInv, TypeOK, NEW s \in Sessions, Relink(s), WellPhased(tx[s])
  PROVE  AliasRows' /\ MergeDiscipline' /\ OnlyCrossedLinksChain'
<1> DEFINE from  == tx[s].id
           canon == tx[s].row
           moved == tx[s].todo
<1>1. /\ tx[s].pc = "relink" /\ tx[s].op = "link"
      /\ from \in Ids /\ canon \in Ids /\ moved \subseteq Ids
      /\ End(s) /\ UNCHANGED crossed
      /\ \A i \in Ids : link'[i] = IF i = from \/ i \in moved THEN canon ELSE link[i]
      /\ RowsFree(s, {from})
  BY DEF Relink, WellPhased, Merging, TypeOK, Tx, Rewired
<1>2. /\ tx'[s].op # "link" /\ tx'[s].pc # "relink"
      /\ \A t \in Sessions \ {s} : tx'[t] = tx[t]
  BY <1>1, EndStep, IdlePhased DEF StepOf
<1>3. /\ \A i \in moved : link[i] = from
      /\ \A t \in Sessions \ {s} : tx[t].pc = "relink" => moved \cap tx[t].todo = {}
  BY <1>1 DEF LinkInv, AliasRows
<1>4. /\ from # canon
      /\ canon \notin crossed => /\ link[canon] = canon
                                 /\ \A t \in Sessions \ {s} : tx[t].op # "link"
      /\ \A i \in Ids \ moved : link[i] = from => from \in crossed
  BY <1>1 DEF LinkInv, MergeDiscipline
<1>5. \A i \in Ids : link[i] \in Ids /\ (link[link[i]] # link[i] => link[i] \in crossed)
  BY DEF LinkInv, OnlyCrossedLinksChain, TypeOK
<1>6. \A t \in Sessions \ {s} : tx[t].pc = "relink" => from \notin tx[t].todo
  BY <1>1 DEF RowsFree, RowsWritten
<1> HIDE DEF from, canon, moved
<1>7. OnlyCrossedLinksChain'
  <2> SUFFICES ASSUME NEW i \in Ids, link'[i] \notin crossed
               PROVE  link'[link'[i]] = link'[i]
    BY <1>1 DEF OnlyCrossedLinksChain
  <2>1. CASE i = from \/ i \in moved
    <3>1. link'[i] = canon /\ link[canon] = canon
      BY <1>1, <1>4, <2>1
    <3>2. canon # from /\ canon \notin moved
      BY <1>3, <1>4, <3>1
    <3> QED
      BY <1>1, <3>1, <3>2
  <2>2. CASE i # from /\ i \notin moved
    <3>1. link'[i] = link[i] /\ link[i] \in Ids /\ link[link[i]] = link[i]
      BY <1>1, <1>5, <2>2
    <3>2. link[i] # from
      BY <1>4, <2>2, <3>1
    <3>3. link[i] \notin moved
      BY <1>3, <3>1, <3>2
    <3> QED
      BY <1>1, <3>1, <3>2, <3>3
  <2> QED
    BY <2>1, <2>2
<1>8. AliasRows'
  <2> SUFFICES ASSUME NEW t \in Sessions, tx'[t].pc = "relink"
               PROVE  /\ \A i \in tx'[t].todo : link'[i] = tx'[t].id
                      /\ \A u \in Sessions \ {t} :
                           tx'[u].pc = "relink" => tx'[t].todo \cap tx'[u].todo = {}
    BY DEF AliasRows
  <2>1. t # s /\ tx'[t] = tx[t] /\ tx[t].todo \subseteq Ids
    BY <1>2 DEF TypeOK, Tx
  <2>2. \A i \in tx[t].todo : link[i] = tx[t].id
    BY <2>1 DEF LinkInv, AliasRows
  <2>3. \A u \in Sessions \ {t} : tx[u].pc = "relink" => tx[t].todo \cap tx[u].todo = {}
    BY <2>1 DEF LinkInv, AliasRows
  <2>4. \A i \in tx[t].todo : i # from /\ i \notin moved
    BY <1>3, <1>6, <2>1
  <2>5. \A i \in tx[t].todo : link'[i] = tx[t].id
    BY <1>1, <2>1, <2>2, <2>4
  <2> QED
    BY <1>2, <2>1, <2>3, <2>5
<1>9. MergeDiscipline'
  <2> SUFFICES ASSUME NEW t \in Sessions, tx'[t].op = "link"
               PROVE  /\ tx'[t].id # tx'[t].row
                      /\ tx'[t].row \notin crossed' =>
                           /\ link'[tx'[t].row] = tx'[t].row
                           /\ \A u \in Sessions \ {t} : tx'[u].op # "link"
                      /\ tx'[t].pc = "relink" =>
                           \A i \in Ids \ tx'[t].todo :
                             link'[i] = tx'[t].id => tx'[t].id \in crossed'
    BY DEF MergeDiscipline
  <2>1. t # s /\ tx'[t] = tx[t]
    BY <1>2
  <2>2. canon \in crossed /\ tx[t].row \in crossed
    BY <1>1, <1>4, <2>1 DEF LinkInv, MergeDiscipline
  <2>3. /\ tx[t].id # tx[t].row
        /\ tx[t].pc = "relink" =>
             \A i \in Ids \ tx[t].todo : link[i] = tx[t].id => tx[t].id \in crossed
    BY <2>1 DEF LinkInv, MergeDiscipline
  <2> QED
    BY <1>1, <2>1, <2>2, <2>3
<1> QED
  BY <1>7, <1>8, <1>9

LEMMA NextLinkInv == LinkInv /\ [Next]_vars => LinkInv'
<1> SUFFICES ASSUME LinkInv, [Next]_vars PROVE LinkInv'
  OBVIOUS
<1> DEFINE Kept == AliasRows' /\ MergeDiscipline' /\ OnlyCrossedLinksChain'
<1>0. /\ Disciplined /\ TypeOK /\ TypeOK' /\ Disciplined'
      /\ tx \in [Sessions -> Tx] /\ tx' \in [Sessions -> Tx]
      /\ \A s \in Sessions : WellPhased(tx[s])
  BY NextDisciplined DEF LinkInv, Disciplined, TypeOK, PhaseDiscipline
<1>1. ASSUME NEW s \in Sessions, End(s), UNCHANGED <<link, crossed>>
      PROVE  Kept
  BY <1>0, <1>1, EndStep, IdlePhased, QuietMerge DEF StepOf
<1>2. ASSUME NEW s \in Sessions, NEW t, Start(s, t), t.op # "link", t.pc # "relink"
      PROVE  Kept
  <2>1. /\ tx'[s] = t /\ UNCHANGED <<link, crossed>>
        /\ \A u \in Sessions \ {s} : tx'[u] = tx[u]
    BY <1>0, <1>2 DEF Start, Open, tables
  <2> QED
    BY <1>2, <2>1, QuietMerge
<1>3. ASSUME NEW s \in Sessions, StartAccountOp(s)
      PROVE  Kept
  <2>1. PICK who \in Ids : \/ StartGrant(s, who)
                           \/ StartAward(s, who)
                           \/ StartSpend(s, who)
                           \/ StartCheckIn(s, who)
                           \/ StartContact(s, who)
    BY <1>3 DEF StartAccountOp
  <2>2. \E t : Start(s, t) /\ t.op # "link" /\ t.pc # "relink"
    <3>1. CASE StartGrant(s, who)
      BY <3>1 DEF StartGrant, Begin
    <3>2. CASE StartAward(s, who)
      BY <3>2 DEF StartAward, Begin
    <3>3. CASE StartSpend(s, who)
      BY <3>3 DEF StartSpend, Begin
    <3>4. CASE StartCheckIn(s, who)
      BY <3>4 DEF StartCheckIn, Begin
    <3>5. CASE StartContact(s, who)
      BY <3>5 DEF StartContact, Begin
    <3> QED
      BY <2>1, <3>1, <3>2, <3>3, <3>4, <3>5
  <2> QED
    BY <1>2, <2>2
<1>4. ASSUME NEW s \in Sessions, EnsureRead(s) \/ Resolve(s) \/ Upsert(s)
      PROVE  Kept
  <2>1. /\ tx'[s].op = tx[s].op /\ tx'[s].pc # "relink"
        /\ \A t \in Sessions \ {s} : tx'[t] = tx[t]
    BY <1>0, <1>4 DEF EnsureRead, Resolve, Upsert, Tx
  <2>2. tx[s].op # "link"
    BY <1>0, <1>4 DEF EnsureRead, Resolve, Upsert, WellPhased, Merging
  <2>3. UNCHANGED <<link, crossed>>
    BY <1>4 DEF EnsureRead, Resolve, Upsert, tables
  <2> QED
    BY <2>1, <2>2, <2>3, QuietMerge
<1>5. ASSUME NEW s \in Sessions, FinishAccountOp(s)
      PROVE  Kept
  <2>1. \E i, d, n : Book(s, i, d, n)
    BY <1>5 DEF FinishAccountOp, GrantPt, AwardBadge, SpendPt, CheckIn, Contact
  <2>2. End(s) /\ UNCHANGED <<link, crossed>>
    BY <2>1 DEF Book
  <2> QED
    BY <1>1, <2>2
<1>6. ASSUME NEW s \in Sessions, Reset(s)
      PROVE  Kept
  <2>1. ASSUME NEW op \in Resets, StartReset(s, op)
        PROVE  Kept
    <3>1. op # "link"
      BY OpsAssumption DEF AllResets
    <3>2. PICK q, f : Start(s, [Begin(op, "sweep", CHOOSE i \in Ids : TRUE)
                                  EXCEPT !.todo = q, !.plan = f])
      BY <2>1 DEF StartReset
    <3>3. PICK t : t = [Begin(op, "sweep", CHOOSE i \in Ids : TRUE) EXCEPT !.todo = q, !.plan = f]
      OBVIOUS
    <3>4. t.op = op /\ t.pc = "sweep"
      BY <3>3 DEF Begin
    <3> QED
      BY <1>2, <3>1, <3>2, <3>3, <3>4
  <2>2. ASSUME NEW i \in Ids, SweepRow(s, i)
        PROVE  Kept
    <3>1. /\ UNCHANGED <<link, crossed>> /\ tx'[s].op = tx[s].op /\ tx'[s].pc = "sweep"
          /\ \A t \in Sessions \ {s} : tx'[t] = tx[t]
      BY <1>0, <2>2 DEF SweepRow, tables, Tx
    <3>2. tx[s].op # "link"
      BY <1>0, <2>2 DEF SweepRow, WellPhased, Merging
    <3> QED
      BY <3>1, <3>2, QuietMerge
  <2>3. CASE FinishReset(s)
    BY <1>1, <2>3 DEF FinishReset
  <2> QED
    BY <1>6, <2>1, <2>2, <2>3 DEF Reset
<1>7. ASSUME NEW s \in Sessions, LinkIdentity(s)
      PROVE  Kept
  <2>1. ASSUME Purge(s) \/ DropProfile(s)
        PROVE  Kept
    <3>1. /\ UNCHANGED <<link, crossed>>
          /\ tx'[s].op = tx[s].op /\ tx'[s].id = tx[s].id /\ tx'[s].row = tx[s].row
          /\ tx'[s].pc # "relink" /\ tx[s].pc \in {"purge", "drop"}
          /\ \A t \in Sessions \ {s} : tx'[t] = tx[t]
      BY <1>0, <2>1 DEF Purge, DropProfile, tables, Tx
    <3>2. tx[s].op = "link"
      BY <1>0, <3>1 DEF WellPhased, Merging
    <3> QED
      BY <3>1, <3>2, QuietMerge
  <2> QED
    BY <1>0, <1>7, <2>1, StartLinkMerge, RewireMerge, RelinkMerge DEF LinkIdentity
<1>8. ASSUME NEW s \in Sessions, Abort(s)
      PROVE  Kept
  BY <1>1, <1>8 DEF Abort, tables
<1>9. ASSUME NextDay \/ UNCHANGED vars
      PROVE  Kept
  <2>1. UNCHANGED <<link, tx, crossed>>
    BY <1>9 DEF NextDay, vars, tables
  <2> QED
    BY <2>1 DEF LinkInv, AliasRows, MergeDiscipline, OnlyCrossedLinksChain
<1>10. Kept
  BY <1>3, <1>4, <1>5, <1>6, <1>7, <1>8, <1>9 DEF Next
<1> QED
  BY <1>0, <1>10 DEF LinkInv

\* Whatever merges commit, abort or are retried, the one-hop lookup of cid()
\* ends at an identity that has not itself been merged away, unless that
\* identity was the target of a merge whose lookup failed or that met another.
THEOREM ChainsComeOfCrossings == Spec => []OnlyCrossedLinksChain
<1>1. Spec => []LinkInv
  BY InitLinkInv, NextLinkInv, PTL DEF Spec
<1> QED
  BY <1>1, PTL DEF LinkInv

-----------------------------------------------------------------------------
(***************************************************************************)
(* Spends, gifts and check-ins.                                            *)
(***************************************************************************)

\* The commit of a spend lowers only the payer, and only down to what is left.
LEMMA SpendPtCovered ==
  ASSUME TypeOK, NEW s \in Sessions, SpendPt(s), NEW i \in Ids
  PROVE  balance'[i] >= balance[i] \/ balance'[i] >= 0
<1> DEFINE payer == tx[s].id
<1>1. /\ balance[i] \in Int /\ tx[s].amt \in Int /\ FirstContactPt \in Nat
      /\ Seeds(s, i) \in {0, 1}
  BY AmountsAssumption DEF TypeOK, Tx, Seeds
<1>2. CASE Covered(s, payer) /\ Book(s, payer, -tx[s].amt, 1)
  <2>1. balance'[i] = IF Visible(s, i)
                        THEN balance[i] + (Seeds(s, i) * FirstContactPt
                                             + (IF i = payer THEN -tx[s].amt ELSE 0))
                        ELSE balance[i]
    BY <1>2 DEF Book
  <2>2. CASE i = payer
    BY <1>1, <1>2, <2>1, <2>2 DEF Covered
  <2>3. CASE i # payer
    BY <1>1, <2>1, <2>3
  <2> QED
    BY <2>2, <2>3
<1>3. CASE Book(s, payer, 0, 0)
  <2>1. balance'[i] = IF Visible(s, i)
                        THEN balance[i] + (Seeds(s, i) * FirstContactPt
                                             + (IF i = payer THEN 0 ELSE 0))
                        ELSE balance[i]
    BY <1>3 DEF Book
  <2> QED
    BY <1>1, <2>1
<1> QED
  BY <1>2, <1>3 DEF SpendPt

\* A session's own steps are the only ones that end its transaction, and none
\* but SpendPt ends a spend with rows written.
LEMMA SpendEnds ==
  ASSUME Disciplined, Next, NEW s \in Sessions, tx[s].op = "spend", tx'[s] = Idle
  PROVE  SpendPt(s) \/ UNCHANGED balance
<1>0. /\ TypeOK /\ tx \in [Sessions -> Tx] /\ Idle.op = "none"
      /\ WellPhased(tx[s])
  BY IdlePhased DEF Disciplined, TypeOK, PhaseDiscipline
<1>1. ASSUME NEW u \in Sessions, End(u)
      PROVE  u = s
  BY <1>0, <1>1 DEF End
<1>2. ASSUME NEW u \in Sessions, FinishAccountOp(u)
      PROVE  SpendPt(s)
  <2>1. \E i, d, n : Book(u, i, d, n)
    BY <1>2 DEF FinishAccountOp, GrantPt, AwardBadge, SpendPt, CheckIn, Contact
  <2>2. u = s
    <3>1. End(u)
      BY <2>1 DEF Book
    <3> QED
      BY <1>1, <3>1
  <2> QED
    BY <1>2, <2>2 DEF FinishAccountOp, GrantPt, AwardBadge, CheckIn, Contact
<1>3. ASSUME NEW u \in Sessions, FinishReset(u) \/ Relink(u)
      PROVE  FALSE
  <2>1. u = s
    BY <1>1, <1>3 DEF FinishReset, Relink
  <2> QED
    BY <1>0, <1>3, <2>1 DEF FinishReset, Relink, WellPhased, Merging, AllResets
<1>4. \/ \E u \in Sessions : FinishAccountOp(u) \/ FinishReset(u) \/ Relink(u)
      \/ UNCHANGED tables
  BY TableSteps
<1> QED
  BY <1>2, <1>3, <1>4 DEF tables

\* spendPt never overdraws: a spend that lowers a balance finds enough on it at
\* the moment it commits, whatever committed since it began.
THEOREM SpendsNeverOverdraw == Spec => SpendIsCovered
<1>1. Disciplined /\ [Next]_vars =>
        [\A s \in Sessions, i \in Ids :
           tx[s].op = "spend" /\ tx'[s] = Idle /\ balance'[i] < balance[i]
             => balance'[i] >= 0]_vars
  <2> SUFFICES ASSUME Disciplined, Next, NEW s \in Sessions, NEW i \in Ids,
                      tx[s].op = "spend", tx'[s] = Idle, balance'[i] < balance[i]
               PROVE  balance'[i] >= 0
    BY DEF vars
  <2>1. /\ TypeOK /\ balance[i] \in Int
        /\ balance'[i] \in Int
    BY NextType DEF Disciplined, TypeOK
  <2>2. SpendPt(s)
    BY <2>1, SpendEnds
  <2> QED
    BY <2>1, <2>2, SpendPtCovered
<1>2. Spec => []Disciplined
  BY InitDisciplined, NextDisciplined, PTL DEF Spec
<1> QED
  BY <1>1, <1>2, PTL DEF Spec, SpendIsCovered

\* Which steps touch gifts, badges and check-ins.
LEMMA WritingSteps ==
  ASSUME [Next]_vars
  PROVE  \/ \E s \in Sessions : FinishAccountOp(s) \/ Relink(s)
         \/ UNCHANGED <<gifts, paid, held, checkins>>
<1>1. \/ \E s \in Sessions : FinishAccountOp(s) \/ FinishReset(s) \/ Relink(s)
      \/ UNCHANGED tables
  BY TableSteps
<1>2. ASSUME NEW s \in Sessions, FinishReset(s)
      PROVE  UNCHANGED <<gifts, paid, held, checkins>>
  BY <1>2 DEF FinishReset
<1>3. UNCHANGED tables => UNCHANGED <<gifts, paid, held, checkins>>
  BY DEF tables
<1> QED
  BY <1>1, <1>2, <1>3

LEMMA NextGift ==
  ASSUME Disciplined, GiftComesWithBadge, [Next]_vars
  PROVE  GiftComesWithBadge'
<1> SUFFICES ASSUME NEW k \in Ids, gifts'[k] > 0
             PROVE  <<k, FirstContact>> \in held'
  BY DEF GiftComesWithBadge
<1>0. TypeOK /\ gifts[k] \in Nat
  BY DEF Disciplined, TypeOK
<1>1. gifts[k] > 0 => <<k, FirstContact>> \in held
  BY DEF GiftComesWithBadge
<1>2. ASSUME NEW s \in Sessions, FinishAccountOp(s)
      PROVE  <<k, FirstContact>> \in held'
  <2>1. gifts' = [j \in Ids |-> gifts[j] + Seeds(s, j)]
    BY <1>2 DEF FinishAccountOp, GrantPt, AwardBadge, SpendPt, CheckIn, Contact, Book
  <2>2. CASE Seeds(s, k) = 0
    <3>1. <<k, FirstContact>> \in held
      BY <1>0, <1>1, <2>1, <2>2
    <3> QED
      BY <1>2, <3>1
         DEF FinishAccountOp, GrantPt, AwardBadge, SpendPt, CheckIn, Contact, HeldAfterSeed
  <2>3. CASE Seeds(s, k) # 0
    <3>1. tx[s].isNew /\ k = tx[s].eid
      BY <2>3 DEF Seeds
    <3>2. tx[s].op \in Seeding
      BY <3>1 DEF Disciplined, PhaseDiscipline, WellPhased
    <3>3. held' = HeldAfterSeed(s)
      BY <1>2, <3>2
         DEF FinishAccountOp, GrantPt, AwardBadge, SpendPt, CheckIn, Contact, Seeding
    <3> QED
      BY <3>1, <3>3 DEF HeldAfterSeed
  <2> QED
    BY <2>2, <2>3
<1>3. ASSUME NEW s \in Sessions, Relink(s)
      PROVE  <<k, FirstContact>> \in held'
  <2>1. /\ gifts'[k] = IF k \in Holds(s) THEN 0 ELSE gifts[k]
        /\ held' = {h \in held : h[1] \notin Holds(s)}
    BY <1>3 DEF Relink
  <2> QED
    BY <1>1, <2>1
<1>4. ASSUME UNCHANGED <<gifts, paid, held, checkins>>
      PROVE  <<k, FirstContact>> \in held'
  BY <1>1, <1>4
<1>5. \/ \E s \in Sessions : FinishAccountOp(s) \/ Relink(s)
      \/ UNCHANGED <<gifts, paid, held, checkins>>
  BY WritingSteps
<1> QED
  BY <1>2, <1>3, <1>4, <1>5

\* Whoever was paid the welcome gift holds the badge hasFirstContact looks for.
THEOREM GiftsAreBadged == Spec => []GiftComesWithBadge
<1>1. Init => GiftComesWithBadge
  BY DEF Init, GiftComesWithBadge
<1>2. Spec => []Disciplined
  BY InitDisciplined, NextDisciplined, PTL DEF Spec
<1>3. Disciplined /\ GiftComesWithBadge /\ [Next]_vars => GiftComesWithBadge'
  BY NextGift
<1> QED
  BY <1>1, <1>2, <1>3, PTL DEF Spec

DaysOf(i) == {c \in checkins : c[1] = i}

PaidInv == CheckInPaidOnce /\ IsFiniteSet(checkins)

LEMMA NextPaid ==
  ASSUME TypeOK, PaidInv, [Next]_vars
  PROVE  PaidInv'
<1>0. /\ paid \in [Ids -> Nat]
      /\ IsFiniteSet(checkins)
      /\ \A i \in Ids : paid[i] = Cardinality(DaysOf(i)) /\ IsFiniteSet(DaysOf(i))
  BY FS_Subset DEF PaidInv, CheckInPaidOnce, DaysOf, TypeOK
<1>1. SUFFICES /\ \A i \in Ids : paid'[i] = Cardinality({c \in checkins' : c[1] = i})
               /\ IsFiniteSet(checkins')
  BY DEF PaidInv, CheckInPaidOnce
<1>2. ASSUME NEW s \in Sessions, CheckIn(s), <<tx[s].id, tx[s].day>> \notin checkins
      PROVE  /\ \A i \in Ids : paid'[i] = Cardinality({c \in checkins' : c[1] = i})
             /\ IsFiniteSet(checkins')
  <2> DEFINE row == <<tx[s].id, tx[s].day>>
  <2>1. /\ paid' = [paid EXCEPT ![tx[s].id] = @ + 1]
        /\ checkins' = checkins \cup {row}
    BY <1>2 DEF CheckIn
  <2>2. IsFiniteSet(checkins')
    BY <1>0, <2>1, FS_AddElement
  <2>3. ASSUME NEW i \in Ids
        PROVE  paid'[i] = Cardinality({c \in checkins' : c[1] = i})
    <3>1. CASE i = tx[s].id
      <4>1. {c \in checkins' : c[1] = i} = DaysOf(i) \cup {row}
        BY <2>1, <3>1 DEF DaysOf
      <4>2. row \notin DaysOf(i)
        BY <1>2 DEF DaysOf
      <4>3. Cardinality(DaysOf(i) \cup {row}) = Cardinality(DaysOf(i)) + 1
        BY <1>0, <4>2, FS_AddElement
      <4> QED
        BY <1>0, <2>1, <3>1, <4>1, <4>3
    <3>2. CASE i # tx[s].id
      <4>1. {c \in checkins' : c[1] = i} = DaysOf(i)
        BY <2>1, <3>2 DEF DaysOf
      <4> QED
        BY <1>0, <2>1, <3>2, <4>1
    <3> QED
      BY <3>1, <3>2
  <2> QED
    BY <2>2, <2>3
<1>3. ASSUME NEW s \in Sessions, Relink(s)
      PROVE  /\ \A i \in Ids : paid'[i] = Cardinality({c \in checkins' : c[1] = i})
             /\ IsFiniteSet(checkins')
  <2>1. /\ \A i \in Ids : paid'[i] = IF i \in Holds(s) THEN 0 ELSE paid[i]
        /\ checkins' = {c \in checkins : c[1] \notin Holds(s)}
    BY <1>3 DEF Relink
  <2>2. IsFiniteSet(checkins')
    BY <1>0, <2>1, FS_Subset
  <2>3. ASSUME NEW i \in Ids
        PROVE  paid'[i] = Cardinality({c \in checkins' : c[1] = i})
    <3>1. CASE i \in Holds(s)
      <4>1. {c \in checkins' : c[1] = i} = {}
        BY <2>1, <3>1
      <4> QED
        BY <2>1, <3>1, <4>1, FS_EmptySet
    <3>2. CASE i \notin Holds(s)
      <4>1. {c \in checkins' : c[1] = i} = DaysOf(i)
        BY <2>1, <3>2 DEF DaysOf
      <4> QED
        BY <1>0, <2>1, <3>2, <4>1
    <3> QED
      BY <3>1, <3>2
  <2> QED
    BY <2>2, <2>3
<1>4. ASSUME UNCHANGED <<paid, checkins>>
      PROVE  /\ \A i \in Ids : paid'[i] = Cardinality({c \in checkins' : c[1] = i})
             /\ IsFiniteSet(checkins')
  BY <1>0, <1>4 DEF DaysOf
<1>5. ASSUME NEW s \in Sessions, FinishAccountOp(s)
      PROVE  \/ CheckIn(s) /\ <<tx[s].id, tx[s].day>> \notin checkins
             \/ UNCHANGED <<paid, checkins>>
  <2>1. CASE CheckIn(s) /\ <<tx[s].id, tx[s].day>> \in checkins
    <3>1. checkins' = checkins \cup {<<tx[s].id, tx[s].day>>} /\ paid' = paid
      BY <2>1 DEF CheckIn
    <3> QED
      BY <2>1, <3>1
  <2> QED
    BY <1>5, <2>1 DEF FinishAccountOp, GrantPt, AwardBadge, SpendPt, Contact
<1> QED
  BY <1>2, <1>3, <1>4, <1>5, WritingSteps

\* One daily_checkin ledger row per row of checkins: two transactions that
\* check the same account in on the same day cannot both be paid.
THEOREM CheckInsPayOnce == Spec => []CheckInPaidOnce
<1>1. Init => PaidInv
  <2> SUFFICES ASSUME Init PROVE PaidInv
    OBVIOUS
  <2>1. \A i \in Ids : {c \in checkins : c[1] = i} = {} /\ paid[i] = 0
    BY DEF Init
  <2> QED
    BY <2>1, FS_EmptySet DEF Init, PaidInv, CheckInPaidOnce
<1>2. TypeOK /\ PaidInv /\ [Next]_vars => PaidInv'
  BY NextPaid
<1>3. Spec => []PaidInv
  BY <1>1, <1>2, Typing, PTL DEF Spec
<1> QED
  BY <1>3, PTL DEF PaidInv

-----------------------------------------------------------------------------
(***************************************************************************)
(* The transactions implement the account book.                            *)
(***************************************************************************)

\* A transaction's arguments are those its caller may pass, and a reset has
\* listed no chest.
Argued(t) ==
  /\ t.op = "grant" => t.amt \in Rewards
  /\ t.op = "spend" => t.amt \in Costs
  /\ t.op = "link" => \E to \in Ids : <<t.id, to>> \in Links
  /\ t.pc = "sweep" => t.todo \cap Chests = {}

\* A reset locks no chest, a merge no row but the one it deletes.
Scoped(t, rows) ==
  /\ t.pc = "sweep" => rows \cap Chests = {}
  /\ t.pc \in {"purge", "drop"} => rows = {}
  /\ t.pc \in {"rewire", "relink"} => rows \subseteq {t.id}

\* What a transaction is about, from its first statement to its last.
Purposeful == \A s \in Sessions : Argued(tx[s]) /\ Scoped(tx[s], Holds(s))

\* A step of s need only keep what s's own transaction is about.
LEMMA PurposeStep ==
  ASSUME Purposeful, NEW s \in Sessions, StepOf(s),
         Argued(tx'[s]), Scoped(tx'[s], Holds(s)')
  PROVE  Purposeful'
<1> SUFFICES ASSUME NEW t \in Sessions
             PROVE  Argued(tx'[t]) /\ Scoped(tx'[t], Holds(t)')
  BY DEF Purposeful, Argued, Scoped
<1>1. CASE t = s
  BY <1>1
<1>2. CASE t # s
  <2>1. tx'[t] = tx[t] /\ Holds(t)' \subseteq Holds(t)
    BY <1>2 DEF StepOf
  <2>2. Argued(tx[t]) /\ Scoped(tx[t], Holds(t))
    BY DEF Purposeful
  <2> QED
    BY <2>1, <2>2 DEF Scoped
<1> QED
  BY <1>1, <1>2

LEMMA EndPurpose ==
  ASSUME TypeOK, Purposeful, NEW s \in Sessions, End(s)
  PROVE  Purposeful'
<1>1. StepOf(s) /\ tx'[s] = Idle /\ Holds(s)' = {}
  BY EndStep
<1>2. Argued(Idle) /\ Scoped(Idle, {})
  BY IdlePhased DEF Argued, Scoped
<1> QED
  BY <1>1, <1>2, PurposeStep

LEMMA OpenPurpose ==
  ASSUME Disciplined, Purposeful, NEW s \in Sessions, NEW t \in Tx, Open(s, t), Argued(t)
  PROVE  Purposeful'
<1>1. StepOf(s) /\ tx'[s] = t /\ Holds(s)' = Holds(s)
  BY ReadStep DEF Disciplined, Open
<1>2. Holds(s) = {}
  BY DEF Disciplined, LockDiscipline, Open
<1>3. Scoped(t, {})
  BY DEF Scoped
<1> QED
  BY <1>1, <1>2, <1>3, PurposeStep

LEMMA StartPurpose ==
  ASSUME Disciplined, Purposeful, NEW s \in Sessions, NEW t \in Tx, Start(s, t), Argued(t)
  PROVE  Purposeful'
  BY OpenPurpose DEF Start

LEMMA StartAccountOpPurpose ==
  ASSUME Disciplined, Purposeful, NEW s \in Sessions, StartAccountOp(s)
  PROVE  Purposeful'
<1>1. PICK who \in Ids : \/ StartGrant(s, who)
                         \/ StartAward(s, who)
                         \/ StartSpend(s, who)
                         \/ StartCheckIn(s, who)
                         \/ StartContact(s, who)
  BY DEF StartAccountOp
<1>2. Start(s, tx'[s]) /\ tx'[s] \in Tx
  <2>1. TypeOK'
    BY StartAccountOpType DEF Disciplined
  <2>2. tx'[s] \in Tx
    BY <2>1 DEF TypeOK
  <2>3. \E t : Start(s, t)
    BY <1>1 DEF StartGrant, StartAward, StartSpend, StartCheckIn, StartContact
  <2>4. ASSUME NEW t, Start(s, t) PROVE tx'[s] = t
    BY <2>4 DEF Start, Open, Disciplined, TypeOK
  <2> QED
    BY <2>2, <2>3, <2>4
<1>3. Argued(tx'[s])
  <2>0. tx \in [Sessions -> Tx]
    BY DEF Disciplined, TypeOK
  <2>1. CASE StartGrant(s, who)
    BY <2>0, <2>1 DEF StartGrant, Start, Open, Begin, Argued
  <2>2. CASE StartAward(s, who)
    BY <2>0, <2>2 DEF StartAward, Start, Open, Begin, Argued
  <2>3. CASE StartSpend(s, who)
    BY <2>0, <2>3 DEF StartSpend, Start, Open, Begin, Argued
  <2>4. CASE StartCheckIn(s, who)
    BY <2>0, <2>4 DEF StartCheckIn, Start, Open, Begin, Argued
  <2>5. CASE StartContact(s, who)
    BY <2>0, <2>5 DEF StartContact, Start, Open, Begin, Argued
  <2> QED
    BY <1>1, <2>1, <2>2, <2>3, <2>4, <2>5
<1> QED
  BY <1>2, <1>3, StartPurpose

LEMMA StatementPurpose ==
  ASSUME Disciplined, Purposeful, NEW s \in Sessions, EnsureRead(s) \/ Resolve(s) \/ Upsert(s)
  PROVE  Purposeful'
<1>0. /\ TypeOK /\ tx[s] \in Tx /\ tx[s].row \in Ids /\ TypeOK'
      /\ Argued(tx[s])
  BY StatementType DEF Disciplined, TypeOK, Tx, Purposeful
<1>1. tx'[s] \in Tx
  BY <1>0 DEF TypeOK
<1>2. /\ tx'[s].pc \in {"resolve", "upsert", "write"}
      /\ tx'[s].op = tx[s].op
      /\ tx'[s].amt = tx[s].amt
      /\ tx'[s].id = tx[s].id
  <2>1. CASE EnsureRead(s)
    BY <1>0, <2>1 DEF EnsureRead, TypeOK, Tx
  <2>2. CASE Resolve(s)
    BY <1>0, <2>2 DEF Resolve, TypeOK, Tx
  <2>3. CASE Upsert(s)
    BY <1>0, <2>3 DEF Upsert, TypeOK, Tx
  <2> QED
    BY <2>1, <2>2, <2>3
<1>3. Argued(tx'[s]) /\ Scoped(tx'[s], Holds(s)')
  BY <1>0, <1>2 DEF Argued, Scoped
<1>4. StepOf(s)
  <2>0. tx' = [tx EXCEPT ![s] = tx'[s]]
    BY <1>0 DEF EnsureRead, Resolve, Upsert, TypeOK
  <2>1. CASE EnsureRead(s) \/ Resolve(s)
    BY <1>0, <1>1, <2>0, <2>1, ReadStep DEF EnsureRead, Resolve
  <2>2. CASE Upsert(s)
    BY <1>0, <1>1, <2>0, <2>2, LockStep DEF Upsert
  <2> QED
    BY <2>1, <2>2
<1> QED
  BY <1>3, <1>4, PurposeStep

LEMMA ResetPurpose ==
  ASSUME Disciplined, Purposeful, NEW s \in Sessions, Reset(s)
  PROVE  Purposeful'
<1>0. /\ TypeOK /\ tx[s] \in Tx /\ WellPhased(tx[s])
      /\ TypeOK' /\ tx'[s] \in Tx
      /\ Argued(tx[s]) /\ Scoped(tx[s], Holds(s))
  BY ResetType DEF Disciplined, TypeOK, PhaseDiscipline, Purposeful
<1>1. ASSUME NEW op \in Resets, StartReset(s, op)
      PROVE  Purposeful'
  <2>1. PICK t : t = [Begin(op, "sweep", CHOOSE i \in Ids : TRUE)
                        EXCEPT !.todo = Affected(op),
                               !.plan = [i \in Ids |-> IF i \in Affected(op)
                                                       THEN Goal(op) - balance[i] ELSE 0]]
    OBVIOUS
  <2>2. Start(s, t)
    BY <1>1, <2>1 DEF StartReset
  <2>3. t = tx'[s]
    BY <1>0, <2>2 DEF Start, Open, TypeOK
  <2>4. t.op \in AllResets /\ t.todo = Affected(op)
    BY <2>1, OpsAssumption DEF Begin
  <2>5. Argued(t)
    BY <2>4 DEF Argued, AllResets, Affected
  <2> QED
    BY <1>0, <2>2, <2>3, <2>5, StartPurpose
<1>2. ASSUME NEW i \in Ids, SweepRow(s, i)
      PROVE  Purposeful'
  <2>1. tx'[s] = [tx[s] EXCEPT !.todo = tx[s].todo \ {i}]
    BY <1>0, <1>2 DEF SweepRow, TypeOK
  <2>2. tx' = [tx EXCEPT ![s] = tx'[s]]
    BY <1>0, <1>2, <2>1 DEF SweepRow, TypeOK
  <2>3. StepOf(s) /\ Holds(s)' = Holds(s) \cup {i}
    BY <1>0, <1>2, <2>2, LockStep DEF SweepRow
  <2>4. tx[s].pc = "sweep" /\ i \in tx[s].todo
    BY <1>2 DEF SweepRow
  <2>5. /\ tx'[s].pc = "sweep" /\ tx'[s].op = tx[s].op
        /\ tx'[s].amt = tx[s].amt /\ tx'[s].id = tx[s].id
        /\ tx'[s].todo = tx[s].todo \ {i}
    BY <1>0, <2>1, <2>4 DEF Tx
  <2>6. Argued(tx'[s])
    BY <1>0, <2>4, <2>5 DEF Argued
  <2>7. i \notin Chests /\ Holds(s) \cap Chests = {}
    BY <1>0, <2>4 DEF Argued, Scoped
  <2>8. Scoped(tx'[s], Holds(s)')
    BY <2>3, <2>5, <2>7 DEF Scoped
  <2> QED
    BY <2>3, <2>6, <2>8, PurposeStep
<1>3. CASE FinishReset(s)
  BY <1>0, <1>3, EndPurpose DEF FinishReset
<1> QED
  BY <1>1, <1>2, <1>3 DEF Reset

LEMMA LinkIdentityPurpose ==
  ASSUME Disciplined, Purposeful, NEW s \in Sessions, LinkIdentity(s)
  PROVE  Purposeful'
<1>0. /\ TypeOK /\ tx[s] \in Tx /\ tx[s].id \in Ids
      /\ TypeOK' /\ tx'[s] \in Tx
      /\ Argued(tx[s]) /\ Scoped(tx[s], Holds(s))
  BY LinkIdentityType DEF Disciplined, TypeOK, Tx, Purposeful
<1>1. ASSUME NEW from \in Ids, NEW to \in Ids, StartLink(s, from, to)
      PROVE  Purposeful'
  <2>1. PICK canon \in Ids, t \in Tx :
          /\ t = [Begin("link", "purge", from) EXCEPT !.row = canon]
          /\ <<from, to>> \in Links
          /\ Open(s, t)
    BY <1>0, <1>1, StartLinkOpens
  <2>2. t.op = "link" /\ t.pc = "purge" /\ t.id = from
    BY <2>1 DEF Begin
  <2>3. Argued(t)
    BY <2>1, <2>2 DEF Argued
  <2> QED
    BY <1>0, <2>1, <2>3, OpenPurpose
<1>2. CASE Purge(s) \/ DropProfile(s) \/ RewireAliases(s)
  <2>1. /\ tx[s].pc \in {"purge", "drop", "rewire"}
        /\ tx[s].pc = "purge" => tx'[s].pc = "drop"
        /\ tx[s].pc = "drop" => tx'[s].pc = "rewire"
        /\ tx[s].pc = "rewire" => tx'[s].pc = "relink"
        /\ tx'[s].op = tx[s].op /\ tx'[s].amt = tx[s].amt /\ tx'[s].id = tx[s].id
    BY <1>0, <1>2 DEF Purge, DropProfile, RewireAliases, TypeOK, Tx
  <2>2. Argued(tx'[s])
    BY <1>0, <2>1 DEF Argued
  <2>3. tx' = [tx EXCEPT ![s] = tx'[s]]
    BY <1>0, <1>2 DEF Purge, DropProfile, RewireAliases, TypeOK
  <2>4. CASE UNCHANGED lock
    <3>1. StepOf(s) /\ Holds(s)' = Holds(s)
      BY <1>0, <2>3, <2>4, ReadStep
    <3> QED
      BY <1>0, <2>1, <2>2, <3>1, PurposeStep DEF Scoped
  <2>5. CASE lock' # lock
    <3>1. lock[tx[s].id] = NoTx /\ lock' = [lock EXCEPT ![tx[s].id] = s] /\ tx[s].pc = "drop"
      BY <1>2, <2>5 DEF Purge, DropProfile, RewireAliases
    <3>2. StepOf(s) /\ Holds(s)' = Holds(s) \cup {tx[s].id}
      <4>1. PICK i \in Ids : i = tx[s].id
        BY <1>0
      <4>2. StepOf(s) /\ Holds(s)' = Holds(s) \cup {i}
        BY <1>0, <2>3, <3>1, <4>1, LockStep
      <4> QED
        BY <4>1, <4>2
    <3>3. Scoped(tx'[s], Holds(s)')
      BY <1>0, <2>1, <3>1, <3>2 DEF Scoped
    <3> QED
      BY <2>2, <3>2, <3>3, PurposeStep
  <2> QED
    BY <2>4, <2>5
<1>3. CASE Relink(s)
  BY <1>0, <1>3, EndPurpose DEF Relink
<1> QED
  BY <1>1, <1>2, <1>3 DEF LinkIdentity

LEMMA NextPurpose == Disciplined /\ Purposeful /\ [Next]_vars => Purposeful'
<1> SUFFICES ASSUME Disciplined, Purposeful, [Next]_vars PROVE Purposeful'
  OBVIOUS
<1>1. ASSUME NEW s \in Sessions, Abort(s) \/ FinishAccountOp(s)
      PROVE  Purposeful'
  <2>1. End(s)
    BY <1>1 DEF Abort, FinishAccountOp, GrantPt, AwardBadge, SpendPt, CheckIn, Contact, Book
  <2> QED
    BY <2>1, EndPurpose DEF Disciplined
<1>2. ASSUME NextDay \/ UNCHANGED vars
      PROVE  Purposeful'
  BY <1>2 DEF NextDay, vars, Purposeful, Holds
<1>3. ASSUME NEW s \in Sessions,
             \/ StartAccountOp(s)
             \/ EnsureRead(s) \/ Resolve(s) \/ Upsert(s)
             \/ Reset(s) \/ LinkIdentity(s)
      PROVE  Purposeful'
  BY <1>3, StartAccountOpPurpose, StatementPurpose, ResetPurpose, LinkIdentityPurpose
<1> QED
  BY <1>1, <1>2, <1>3 DEF Next

\* What a COMMIT finds: typed tables the ledger backs, and a transaction that
\* has locked and is about to write what its operation is about.
BookInv == Disciplined /\ LedgerBacksBalance /\ Purposeful /\ LinkInv

\* The newcomer an account operation seeds, if there is one.
Newcomer(s) == {k \in Ids : tx[s].isNew /\ k = tx[s].eid}

\* The commit of an account operation is a service of the account book.
LEMMA BookServes ==
  ASSUME BookInv, NEW s \in Sessions, NEW i \in Ids, NEW d \in Int, NEW n, Book(s, i, d, n),
         Visible(s, i) \/ d = 0
  PROVE  Accounts!Serve(i, d, Newcomer(s)) /\ Newcomer(s) \in Accounts!Welcome
<1>0. /\ TypeOK /\ tx[s].row \in Ids /\ tx[s].eid \in Ids /\ FirstContactPt \in Int
  BY AmountsAssumption DEF BookInv, Disciplined, TypeOK, Tx
<1>1. \A k \in Ids : exists'[k] = (exists[k] \/ k = tx[s].row)
  BY <1>0 DEF Book, TypeOK
<1>2. \A k \in Ids : Visible(s, k) => exists'[k]
  BY <1>1 DEF Visible
<1>3. \A k \in Newcomer(s) : Visible(s, k)
  BY <1>0 DEF Newcomer, Book, SeedAllowed
<1>4. Newcomer(s) \in Accounts!Welcome
  BY <1>0 DEF Newcomer, Accounts!Welcome
<1>5. Newcomer(s) \subseteq {k \in Ids : exists'[k]}
  BY <1>2, <1>3 DEF Newcomer
<1>6. d # 0 => i \in {k \in Ids : exists'[k]}
  BY <1>2
<1>7. {k \in Ids : exists'[k]} = {k \in Ids : exists[k]} \cup {tx[s].row}
  BY <1>0, <1>1
<1>8. balance' = [k \in Ids |-> balance[k] + (IF k = i THEN d ELSE 0)
                                          + (IF k \in Newcomer(s) THEN FirstContactPt ELSE 0)]
  <2>1. balance' = [k \in Ids |-> IF Visible(s, k)
                       THEN balance[k] + (Seeds(s, k) * FirstContactPt + (IF k = i THEN d ELSE 0))
                       ELSE balance[k]]
    BY DEF Book
  <2> SUFFICES ASSUME NEW k \in Ids
               PROVE  (IF Visible(s, k)
                       THEN balance[k] + (Seeds(s, k) * FirstContactPt + (IF k = i THEN d ELSE 0))
                       ELSE balance[k])
                      = balance[k] + (IF k = i THEN d ELSE 0)
                                   + (IF k \in Newcomer(s) THEN FirstContactPt ELSE 0)
    BY <2>1
  <2>2. balance[k] \in Int
    BY <1>0 DEF TypeOK
  <2>3. CASE k \in Newcomer(s)
    <3>1. Seeds(s, k) = 1 /\ Visible(s, k)
      BY <1>3, <2>3 DEF Newcomer, Seeds
    <3> QED
      BY <1>0, <2>2, <2>3, <3>1
  <2>4. CASE k \notin Newcomer(s)
    <3>1. Seeds(s, k) = 0
      BY <2>4 DEF Newcomer, Seeds
    <3> QED
      BY <1>0, <2>2, <2>4, <3>1
  <2> QED
    BY <2>3, <2>4
<1>9. UNCHANGED link
  BY DEF Book
<1> QED
  BY <1>0, <1>4, <1>5, <1>6, <1>7, <1>8, <1>9 DEF Accounts!Serve

\* The operations of the account book are its steps.
LEMMA BookStep ==
  /\ \A i \in Ids, w \in Accounts!Welcome :
       /\ \A d \in Rewards \cup {0} : Accounts!Earn(i, d, w) => Accounts!Next
       /\ \A cost \in Costs : Accounts!Spend(i, cost, w) => Accounts!Next
       /\ \A day \in 0 .. MaxDay : Accounts!CheckIn(i, day, w) => Accounts!Next
  /\ \A pair \in Links, to \in Ids : Accounts!Merge(pair[1], to) => Accounts!Next
  BY DEF Accounts!Next

\* A grant, an award or a contact earns (nothing, in the last two), a spend
\* that is not covered and a second check-in of the day earn nothing.
LEMMA FinishAccountOpServes ==
  ASSUME BookInv, NEW s \in Sessions, FinishAccountOp(s)
  PROVE  Accounts!Next
<1>0. /\ TypeOK /\ LedgerBacksBalance /\ Argued(tx[s])
      /\ tx[s].id \in Ids /\ tx[s].eid \in Ids /\ tx[s].day \in 0 .. MaxDay
      /\ tx[s].amt \in Int /\ -tx[s].amt \in Int /\ DailyCheckinPt \in Int /\ 0 \in Int
  BY AmountsAssumption DEF BookInv, Disciplined, TypeOK, Tx, Purposeful
<1>1. ASSUME NEW i \in Ids, NEW d \in Rewards \cup {0}, NEW n, Book(s, i, d, n),
             Visible(s, i) \/ d = 0, UNCHANGED checkins
      PROVE  Accounts!Next
  <2>1. d \in Int
    BY AmountsAssumption
  <2>2. Accounts!Serve(i, d, Newcomer(s)) /\ Newcomer(s) \in Accounts!Welcome
    BY <1>1, <2>1, BookServes
  <2>3. Accounts!Earn(i, d, Newcomer(s))
    BY <1>1, <2>2 DEF Accounts!Earn
  <2> QED
    BY <2>2, <2>3 DEF Accounts!Next
<1>2. CASE GrantPt(s)
  <2>1. tx[s].amt \in Rewards /\ Book(s, tx[s].id, tx[s].amt, 1) /\ Visible(s, tx[s].id)
        /\ UNCHANGED checkins
    BY <1>0, <1>2 DEF GrantPt, Argued
  <2> QED
    BY <1>0, <1>1, <2>1
<1>3. CASE AwardBadge(s)
  <2>1. Book(s, tx[s].id, 0, 0) /\ UNCHANGED checkins
    BY <1>3 DEF AwardBadge
  <2> QED
    BY <1>0, <1>1, <2>1
<1>4. CASE Contact(s)
  <2>1. Book(s, tx[s].eid, 0, 0) /\ UNCHANGED checkins
    BY <1>4 DEF Contact
  <2> QED
    BY <1>0, <1>1, <2>1
<1>5. CASE SpendPt(s)
  <2>1. UNCHANGED checkins
    BY <1>5 DEF SpendPt
  <2>2. CASE Book(s, tx[s].id, 0, 0)
    BY <1>0, <1>1, <2>1, <2>2
  <2>3. CASE Covered(s, tx[s].id) /\ Book(s, tx[s].id, -tx[s].amt, 1)
    <3>1. Visible(s, tx[s].id)
      BY <2>3 DEF Covered
    <3>2. /\ Accounts!Serve(tx[s].id, -tx[s].amt, Newcomer(s))
          /\ Newcomer(s) \in Accounts!Welcome
      BY <1>0, <2>3, <3>1, BookServes
    <3>3. balance[tx[s].id] + (IF tx[s].id \in Newcomer(s) THEN FirstContactPt ELSE 0)
            >= tx[s].amt
      <4>1. Seeds(s, tx[s].id) = (IF tx[s].id \in Newcomer(s) THEN 1 ELSE 0)
        BY <1>0 DEF Seeds, Newcomer
      <4>2. balance[tx[s].id] \in Int /\ FirstContactPt \in Int
        BY <1>0, AmountsAssumption DEF TypeOK
      <4> QED
        BY <2>3, <4>1, <4>2 DEF Covered
    <3>4. PICK i \in Ids, cost \in Costs, w \in Accounts!Welcome :
            i = tx[s].id /\ cost = tx[s].amt /\ w = Newcomer(s)
      BY <1>0, <1>5, <3>2 DEF SpendPt, Argued
    <3>5. Accounts!Spend(i, cost, w)
      BY <2>1, <3>2, <3>3, <3>4 DEF Accounts!Spend, Accounts!Serve
    <3> QED
      BY <3>5, BookStep
  <2> QED
    BY <1>5, <2>2, <2>3 DEF SpendPt
<1>6. CASE CheckIn(s)
  <2> DEFINE i == tx[s].id
             row == <<i, tx[s].day>>
  <2>1. checkins' = checkins \cup {row}
    BY <1>6 DEF CheckIn
  <2>2. CASE row \in checkins
    <3>1. Book(s, i, 0, 0)
      BY <1>6, <2>2 DEF CheckIn
    <3>2. UNCHANGED checkins
      BY <2>1, <2>2
    <3> QED
      BY <1>0, <1>1, <3>1, <3>2
  <2>3. CASE row \notin checkins
    <3>1. Visible(s, i) /\ Book(s, i, DailyCheckinPt, 1)
      BY <1>6, <2>3 DEF CheckIn
    <3>2. Accounts!Serve(i, DailyCheckinPt, Newcomer(s)) /\ Newcomer(s) \in Accounts!Welcome
      BY <1>0, <3>1, BookServes
    <3>3. PICK k \in Ids, day \in 0 .. MaxDay, w \in Accounts!Welcome :
            k = i /\ day = tx[s].day /\ w = Newcomer(s)
      BY <1>0, <3>2
    <3>4. Accounts!CheckIn(k, day, w)
      BY <2>1, <2>3, <3>2, <3>3 DEF Accounts!CheckIn, Accounts!Serve
    <3> QED
      BY <3>4, BookStep
  <2> QED
    BY <2>2, <2>3
<1> QED
  BY <1>2, <1>3, <1>4, <1>5, <1>6 DEF FinishAccountOp

\* A reset writes the rows it has locked: accounts that exist, no chest.
LEMMA FinishResetLevels ==
  ASSUME BookInv, NEW s \in Sessions, FinishReset(s)
  PROVE  Accounts!Next
<1>0. /\ TypeOK /\ TypeOK'
      /\ tx[s].pc = "sweep" /\ Scoped(tx[s], Holds(s))
  BY NextType DEF BookInv, Disciplined, Purposeful, FinishReset, Next, Reset
<1>1. Holds(s) \cap Chests = {} /\ \A i \in Holds(s) : exists[i]
  BY <1>0 DEF Scoped, BookInv, Disciplined, LockDiscipline
<1>2. \A i \in Ids : balance'[i] # balance[i] => i \in Holds(s)
  BY DEF FinishReset
<1>3. Ids \ {i \in Ids : balance'[i] = balance[i]} \subseteq {i \in Ids : exists[i]} \ Chests
  BY <1>1, <1>2
<1>4. balance' \in [Ids -> Int]
  BY <1>0 DEF TypeOK
<1>5. UNCHANGED <<exists, checkins, link>>
  BY DEF FinishReset
<1>6. Accounts!Level
  BY <1>3, <1>4, <1>5 DEF Accounts!Level, Accounts!Unchanged
<1> QED
  BY <1>6 DEF Accounts!Next

\* A merge closes the account it has locked, if there was one; without one the
\* identity had no balance and no check-in to lose.
LEMMA RelinkMerges ==
  ASSUME BookInv, NEW s \in Sessions, Relink(s)
  PROVE  Accounts!Next
<1>0. /\ TypeOK /\ LedgerBacksBalance /\ tx[s] \in Tx
      /\ tx[s].pc = "relink" /\ WellPhased(tx[s])
      /\ Argued(tx[s]) /\ Scoped(tx[s], Holds(s))
  BY DEF BookInv, Disciplined, TypeOK, PhaseDiscipline, Purposeful, Relink
<1>1. tx[s].op = "link" /\ tx[s].id \in Ids /\ tx[s].row \in Ids /\ Holds(s) \subseteq {tx[s].id}
  BY <1>0 DEF WellPhased, Merging, Scoped, Tx
<1>2. PICK to \in Ids : <<tx[s].id, to>> \in Links
  BY <1>0, <1>1 DEF Argued
<1> DEFINE from == tx[s].id
           gone == Holds(s)
           old  == {i \in Ids : exists[i]}
           new  == {i \in Ids : exists'[i]}
<1>3. new = old \ gone
  <2>1. \A i \in Ids : exists'[i] = (exists[i] /\ i \notin gone)
    BY DEF Relink
  <2> QED
    BY <2>1
<1>4. new \in {old, old \ {from}}
  BY <1>1, <1>3
<1>5. old \ new = gone \cap old
  BY <1>3
<1>6. balance' = [i \in Ids |-> IF i \in old \ new THEN 0 ELSE balance[i]]
  <2>1. balance' = [i \in Ids |-> IF i \in gone THEN 0 ELSE balance[i]]
    BY DEF Relink
  <2>2. \A i \in Ids : i \notin old => balance[i] = 0
    BY <1>0 DEF LedgerBacksBalance
  <2> HIDE DEF gone, old, new
  <2> QED
    BY <1>5, <2>1, <2>2
<1>7. checkins' = {c \in checkins : c[1] \notin old \ new}
  <2>1. checkins' = {c \in checkins : c[1] \notin gone}
    BY DEF Relink
  <2>2. \A i \in Ids : i \notin old => \A c \in checkins : c[1] # i
    BY <1>0, NoRows DEF LedgerBacksBalance
  <2>3. gone \subseteq Ids
    BY DEF Holds
  <2> HIDE DEF gone, old, new
  <2> QED
    BY <1>5, <2>1, <2>2, <2>3
<1>8. /\ tx[s].todo \in SUBSET {i \in Ids : link[i] = from}
      /\ link' = [i \in Ids |-> IF i = from \/ i \in tx[s].todo THEN tx[s].row ELSE link[i]]
  <2>1. \A i \in tx[s].todo : link[i] = from
    BY <1>0 DEF BookInv, LinkInv, AliasRows
  <2>2. tx[s].todo \subseteq Ids
    BY <1>0 DEF Tx
  <2> QED
    BY <2>1, <2>2 DEF Relink, Rewired
<1>9. Accounts!Merge(from, tx[s].row)
  BY <1>4, <1>6, <1>7, <1>8 DEF Accounts!Merge
<1>10. PICK pair \in Links, k \in Ids : pair[1] = from /\ k = tx[s].row
  BY <1>1, <1>2
<1>11. Accounts!Merge(pair[1], k)
  BY <1>9, <1>10 DEF Accounts!Merge
<1> QED
  BY <1>11, BookStep

\* Each COMMIT of lpTx is one whole operation of the account book, made on the
\* balances, check-ins and aliases of that moment, whatever statements of other
\* transactions came between its own; no other step changes the book.
THEOREM CommitsAreOperations == Spec => ImplementsAccountBook
<1>1. Init => Accounts!Init
  BY DEF Init, Accounts!Init
<1>2. Init => BookInv
  <2> SUFFICES ASSUME Init PROVE BookInv
    OBVIOUS
  <2>1. \A s \in Sessions : tx[s] = Idle /\ Holds(s) = {}
    BY IdsAssumption DEF Init, Holds
  <2>2. Argued(Idle) /\ Scoped(Idle, {})
    BY IdlePhased DEF Argued, Scoped
  <2>3. Purposeful
    BY <2>1, <2>2 DEF Purposeful
  <2> QED
    BY <2>3, InitIInv, InitLinkInv DEF IInv, BookInv
<1>3. BookInv /\ [Next]_vars => BookInv'
  BY NextIInv, NextPurpose, NextLinkInv DEF BookInv, IInv
<1>4. BookInv /\ [Next]_vars => [Accounts!Next]_(Accounts!book)
  <2> SUFFICES ASSUME BookInv, [Next]_vars
               PROVE  Accounts!Next \/ UNCHANGED Accounts!book
    OBVIOUS
  <2>1. UNCHANGED tables => UNCHANGED Accounts!book
    BY DEF tables, Accounts!book
  <2> QED
    BY <2>1, TableSteps, FinishAccountOpServes, FinishResetLevels, RelinkMerges
<1> QED
  BY <1>1, <1>2, <1>3, <1>4, PTL DEF Spec, ImplementsAccountBook, Accounts!Spec

=============================================================================
