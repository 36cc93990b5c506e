----------------------------- MODULE SelfIntro ------------------------------
(***************************************************************************)
(* The reward for a newcomer's self-introduction (core/self-intro.ts,      *)
(* handleRecordSelfIntro): an operator's command pays the author of the    *)
(* message its thread began with, if no ledger row names that message yet. *)
(* Nothing ties the look at the ledger to the grant.                       *)
(***************************************************************************)
EXTENDS Naturals

CONSTANTS
  Intros,       \* messages people introduce themselves with
  Commands,     \* handlers of "record this introduction" in the worker
  MaxFailures

VARIABLES
  paid,         \* [Intros -> ledger rows welcome:self-intro that name it]
  command,      \* [Commands -> Command]
  told,         \* [Intros -> replies the operators got about it]
  crossed,      \* introductions two commands dealt with side by side
  tries,
  failures

introVars == <<paid, command, told, crossed, tries, failures>>

Idle == [at |-> "idle", about |-> 0]
Fails == failures < MaxFailures /\ failures' = failures + 1
Ends(k) == command' = [command EXCEPT ![k] = Idle]

Init ==
  /\ paid = [i \in Intros |-> 0] /\ told = [i \in Intros |-> {}]
  /\ command = [k \in Commands |-> Idle]
  /\ crossed = {} /\ tries = 0 /\ failures = 0

\* The command, the root of its thread and that message's author, who is not a
\* bot: resolveSelfIntroTarget(), getMessageById().
Begin(k, i) ==
  /\ command[k].at = "idle" /\ tries < 3
  /\ tries' = tries + 1
  /\ command' = [command EXCEPT ![k] = [at |-> "check", about |-> i]]
  /\ crossed' = IF \E c \in Commands : command[c].about = i THEN crossed \cup {i} ELSE crossed
  /\ UNCHANGED <<paid, told, failures>>

\* The message cannot be read, or an error leaves the handler.
GivesUp(k) ==
  /\ command[k].at # "idle" /\ Fails
  /\ Ends(k)
  /\ UNCHANGED <<paid, told, crossed, tries>>

\* Mutant of HasGrant: the ledger is asked about the command, not about the
\* introduction.
HasGrantForCommand(i) == i \notin Intros

\* hasPtGrantForRef()
HasGrant(i) == paid[i] > 0

Check(k) ==
  LET i == command[k].about IN
  /\ command[k].at = "check"
  /\ \/ /\ HasGrant(i)
        /\ told' = [told EXCEPT ![i] = @ \cup {"paid before"}]
        /\ Ends(k)
     \/ /\ ~HasGrant(i)
        /\ command' = [command EXCEPT ![k].at = "grant"]
        /\ UNCHANGED told
  /\ UNCHANGED <<paid, crossed, tries, failures>>

\* grantPt(); it may be done and its answer lost.
Grant(k) ==
  LET i == command[k].about IN
  /\ command[k].at = "grant"
  /\ paid' = [paid EXCEPT ![i] = @ + 1]
  /\ \/ told' = [told EXCEPT ![i] = @ \cup {"paid"}] /\ UNCHANGED failures
     \/ Fails /\ UNCHANGED told
  /\ Ends(k)
  /\ UNCHANGED <<crossed, tries>>

WorkerDies ==
  /\ \E k \in Commands : command[k].at # "idle"
  /\ Fails
  /\ command' = [k \in Commands |-> Idle]
  /\ UNCHANGED <<paid, told, crossed, tries>>

Next ==
  \/ WorkerDies
  \/ \E k \in Commands :
       \/ GivesUp(k) \/ Check(k) \/ Grant(k)
       \/ \E i \in Intros : Begin(k, i)

Spec == Init /\ [][Next]_introVars

-----------------------------------------------------------------------------
\* The types of the ledger's rows and the commands.
TypeOK ==
  /\ paid \in [Intros -> Nat] /\ crossed \subseteq Intros
  /\ \A k \in Commands : command[k].at \in {"idle", "check", "grant"}
  /\ \A i \in Intros : told[i] \subseteq {"paid", "paid before"}

\* "a given self-intro pays out only once, however many times [the command] is
\* repeated" (self-intro.ts), whatever fails or dies, unless two commands about
\* it run side by side; and no reply speaks of a payment that is not booked.
IntroPaidOnce ==
  \A i \in Intros : /\ paid[i] > 1 => i \in crossed
                    /\ told[i] # {} => paid[i] > 0

=============================================================================
