----------------------------- MODULE Proposals ------------------------------
(***************************************************************************)
(* How a proposal comes to be (core/store/tc.ts, core/store/predict.ts):   *)
(* one transaction reads the counter, moves it on and inserts the row      *)
(* under the number it read; a reply of the model (TC_CREATE, BET_CREATE   *)
(* in channels/feishu-bot.ts) then posts it to the group and keeps the id  *)
(* of the post, while the operator's CLI (bin/agent.ts) leaves that to the *)
(* operator.  PostgreSQL, READ COMMITTED; surveys and predictions have a   *)
(* counter and a table each.                                               *)
(***************************************************************************)
EXTENDS Naturals

CONSTANTS
  Jobs, Clis,      \* replies of the worker that create one, CLI processes
  MaxProposals,    \* bound: creations that are begun
  MaxFailures      \* bound: calls that fail and crashes

Creators == Jobs \cup Clis

VARIABLES
  nextNum,    \* tc_counter, committed
  rows,       \* numbers of the committed rows
  creator,    \* [Creators -> Creator]
  holder,     \* who holds the lock of the counter's row
  attempts,   \* creations begun
  posted,     \* numbers with a post in the group
  known,      \* numbers with the id of their post in the row
  refused,    \* creations lost, with no failure, though nobody overlapped them
  hurt,       \* numbers a failure or a crash came upon
  mishaps

proposalVars == <<nextNum, rows, creator, holder, attempts, posted, known, refused, hurt, mishaps>>

Nobody == "nobody"
Idle == [at |-> "idle", num |-> 0, alone |-> TRUE]

Init ==
  /\ nextNum = 1 /\ rows = {}
  /\ creator = [c \in Creators |-> Idle]
  /\ holder = Nobody
  /\ attempts = 0 /\ refused = 0
  /\ posted = {} /\ known = {} /\ hurt = {}
  /\ mishaps = 0

InTx(c) == creator[c].at \in {"increment", "insert"}
Mishap == mishaps < MaxFailures /\ mishaps' = mishaps + 1
Go(c, stage) == creator' = [creator EXCEPT ![c].at = stage]
Rest(c) == creator' = [creator EXCEPT ![c] = Idle]

-----------------------------------------------------------------------------
\* nextTcNumUnsafe(): SELECT next_num, which waits for no lock.
Read(c) ==
  /\ creator[c].at = "idle" /\ attempts < MaxProposals
  /\ attempts' = attempts + 1
  /\ creator' = [x \in Creators |->
       IF x = c THEN [at |-> "increment", num |-> nextNum,
                      alone |-> \A y \in Creators \ {c} : ~InTx(y)]
       ELSE [creator[x] EXCEPT !.alone = @ /\ ~InTx(x)]]
  /\ UNCHANGED <<nextNum, rows, holder, posted, known, refused, hurt, mishaps>>

\* UPDATE ... next_num + 1: the row's lock is held until the transaction ends.
Increment(c) ==
  /\ creator[c].at = "increment" /\ holder = Nobody
  /\ holder' = c
  /\ Go(c, "insert")
  /\ UNCHANGED <<nextNum, rows, attempts, posted, known, refused, hurt, mishaps>>

\* Mutant of Moved: the counter is not moved on.
MovedNot(c) == nextNum

\* What the commit of c's transaction makes of the counter.
Moved(c) == nextNum + 1

\* INSERT and COMMIT.  A number that is taken violates UNIQUE(num): the
\* transaction is rolled back and the reply goes out without a proposal.
Insert(c) ==
  LET num == creator[c].num IN
  /\ creator[c].at = "insert"
  /\ holder' = Nobody
  /\ \/ /\ num \notin rows
        /\ rows' = rows \cup {num}
        /\ nextNum' = Moved(c)
        /\ IF c \in Jobs THEN Go(c, "post") ELSE Rest(c)
        /\ UNCHANGED refused
     \/ /\ num \in rows
        /\ refused' = refused + IF creator[c].alone THEN 1 ELSE 0
        /\ Rest(c)
        /\ UNCHANGED <<nextNum, rows>>
  /\ UNCHANGED <<attempts, posted, known, hurt, mishaps>>

\* Any statement fails: ROLLBACK.
TxFails(c) ==
  /\ InTx(c) /\ Mishap
  /\ holder' = IF holder = c THEN Nobody ELSE holder
  /\ Rest(c)
  /\ UNCHANGED <<nextNum, rows, attempts, posted, known, refused, hurt>>

\* Mutant of Post: the id of the post is dropped.
PostUnkept(c) ==
  /\ creator[c].at = "post"
  /\ posted' = posted \cup {creator[c].num} /\ Rest(c)
  /\ UNCHANGED <<nextNum, rows, holder, attempts, known, refused, hurt, mishaps>>

\* getTcById() and sendPost(): where the answer is lost the post may be there.
Post(c) ==
  LET num == creator[c].num IN
  /\ creator[c].at = "post"
  /\ \/ posted' = posted \cup {num} /\ Go(c, "keep") /\ UNCHANGED <<hurt, mishaps>>
     \/ /\ Mishap /\ Rest(c)
        /\ posted' \in {posted, posted \cup {num}}
        /\ hurt' = hurt \cup {num}
  /\ UNCHANGED <<nextNum, rows, holder, attempts, known, refused>>

\* updateTcTopMessageId()
Keep(c) ==
  /\ creator[c].at = "keep"
  /\ \/ known' = known \cup {creator[c].num} /\ UNCHANGED <<hurt, mishaps>>
     \/ Mishap /\ hurt' = hurt \cup {creator[c].num} /\ UNCHANGED known
  /\ Rest(c)
  /\ UNCHANGED <<nextNum, rows, holder, attempts, posted, refused>>

\* The process dies; a pending reply is run again and creates a new proposal.
Dies(group) ==
  /\ \E c \in group : creator[c].at # "idle"
  /\ Mishap
  /\ creator' = [c \in Creators |-> IF c \in group THEN Idle ELSE creator[c]]
  /\ holder' = IF holder \in group THEN Nobody ELSE holder
  /\ hurt' = hurt \cup {creator[c].num : c \in {x \in group : creator[x].at \in {"post", "keep"}}}
  /\ UNCHANGED <<nextNum, rows, attempts, posted, known, refused>>

Next ==
  \/ \E c \in Creators : Read(c) \/ Increment(c) \/ Insert(c) \/ TxFails(c) \/ Post(c) \/ Keep(c)
  \/ Dies(Jobs) \/ \E c \in Clis : Dies({c})

Spec == Init /\ [][Next]_proposalVars

-----------------------------------------------------------------------------
\* The types of the counter, the rows and the creations.
TypeOK ==
  /\ nextNum \in 1 .. MaxProposals + 1
  /\ {rows, posted, known, hurt} \subseteq SUBSET (1 .. MaxProposals)
  /\ creator \in [Creators -> [at : {"idle", "increment", "insert", "post", "keep"},
                               num : 0 .. MaxProposals, alone : BOOLEAN]]
  /\ holder \in Creators \cup {Nobody}

\* "Atomically increment the proposal counter" (tc.ts:111): the read before the
\* increment takes no lock, so two transactions can read one number and the
\* second is refused.  Nobody else is: the numbers of the rows are those up to
\* the counter, and a transaction that no other overlapped is never refused.
RefusedByOverlapOnly == rows = 1 .. nextNum - 1 /\ refused = 0

\* updateTcTopMessageId(): where no call failed and nothing died, a row knows its
\* post as soon as its creator is done, and only then.
PostsAreKnown ==
  \A num \in posted \cup known : num \notin hurt =>
    \/ num \in posted /\ num \in known
    \/ \E c \in Jobs : creator[c].at = "keep" /\ creator[c].num = num /\ num \notin known

=============================================================================
