---------------------------- MODULE Groups_proofs ----------------------------
(***************************************************************************)
(* Theorems about the parts that Groups puts side by side, for every value *)
(* of their constants that the parts' assumptions allow.  A section is     *)
(* about one component: its types, its inductive invariant, that every step*)
(* keeps it, and the property it implies.  The last section shows that     *)
(* Groups is a behaviour of its parts, so that what is proved of a part    *)
(* holds of the whole that TLC runs.                                       *)
(***************************************************************************)
EXTENDS Groups, Integers, FiniteSets, SumTheorems

-----------------------------------------------------------------------------
(***************************************************************************)
(* SelfIntro: an introduction is paid once.                                *)
(***************************************************************************)

IntroOrders == [at : {"idle", "check", "grant"}, about : Intros \cup {0}]

IntroTyped ==
  /\ introPaid \in [Intros -> Nat] /\ crossed \subseteq Intros
  /\ told \in [Intros -> SUBSET {"paid", "paid before"}]
  /\ introCommand \in [IntroCommands -> IntroOrders]

Handles(k, i) == introCommand[k].at # "idle" /\ introCommand[k].about = i

\* A command about an introduction is alone with it, unless it was crossed, and
\* the one that is about to pay it found it unpaid.
PaidByOne(i) ==
  /\ introPaid[i] <= 1
  /\ \A k \in IntroCommands :
       introCommand[k].at = "grant" /\ introCommand[k].about = i => introPaid[i] = 0
  /\ \A j, k \in IntroCommands : Handles(j, i) /\ Handles(k, i) => j = k

IntroInv ==
  /\ IntroTyped
  /\ \A k \in IntroCommands : introCommand[k].at # "idle" => introCommand[k].about \in Intros
  /\ \A i \in Intros : (told[i] # {} => introPaid[i] > 0) /\ (i \notin crossed => PaidByOne(i))

\* A command at rest is of the type.
LEMMA IntroIdle == I!Idle \in IntroOrders /\ I!Idle.at = "idle"
  BY DEF I!Idle, IntroOrders

\* What a step of one command does, of whichever kind.
IntroMove(k, r) ==
  /\ introCommand' = [introCommand EXCEPT ![k] = r]
  /\ r \in IntroOrders /\ (r.at # "idle" => r.about \in Intros)

\* One command moves, and the others do not.
LEMMA IntroMoved ==
  ASSUME IntroInv, NEW k \in IntroCommands, NEW r, IntroMove(k, r)
  PROVE  /\ introCommand' \in [IntroCommands -> IntroOrders]
         /\ introCommand'[k] = r
         /\ \A j \in IntroCommands : j # k => introCommand'[j] = introCommand[j]
         /\ \A j \in IntroCommands : introCommand'[j].at # "idle" => introCommand'[j].about \in Intros
<1>1. /\ introCommand' \in [IntroCommands -> IntroOrders]
      /\ introCommand'[k] = r
      /\ \A j \in IntroCommands : j # k => introCommand'[j] = introCommand[j]
  BY DEF IntroInv, IntroTyped, IntroMove
<1>2. \A j \in IntroCommands : introCommand'[j].at # "idle" => introCommand'[j].about \in Intros
  <2> TAKE j \in IntroCommands
  <2>1. CASE j = k
    BY <1>1, <2>1 DEF IntroMove
  <2>2. CASE j # k
    BY <1>1, <2>2 DEF IntroInv
  <2> QED
    BY <2>1, <2>2
<1> QED
  BY <1>1, <1>2

\* A command that ends, or goes on with the introduction it has.
LEMMA IntroGoesOn ==
  ASSUME IntroInv, NEW k \in IntroCommands, NEW r, IntroMove(k, r),
         r.at # "idle" => introCommand[k].at # "idle" /\ r.about = introCommand[k].about,
         NEW i \in Intros, i \notin crossed,
         introPaid'[i] = introPaid[i],
         r.at = "grant" /\ r.about = i => introPaid[i] = 0
  PROVE  PaidByOne(i)'
<1>1. PaidByOne(i)
  BY DEF IntroInv
<1>2. \A j \in IntroCommands : Handles(j, i)' => Handles(j, i)
  <2> TAKE j \in IntroCommands
  <2>1. CASE j = k
    BY <2>1, IntroMoved DEF Handles
  <2>2. CASE j # k
    BY <2>2, IntroMoved DEF Handles
  <2> QED
    BY <2>1, <2>2
<1>3. ASSUME NEW j \in IntroCommands, introCommand'[j].at = "grant", introCommand'[j].about = i
      PROVE  introPaid[i] = 0
  <2>1. CASE j = k
    BY <1>3, <2>1, IntroMoved
  <2>2. CASE j # k
    <3>1. introCommand'[j] = introCommand[j]
      BY <2>2, IntroMoved
    <3> QED
      BY <1>1, <1>3, <3>1 DEF PaidByOne
  <2> QED
    BY <2>1, <2>2
<1> QED
  BY <1>1, <1>2, <1>3 DEF PaidByOne

\* A command takes up an introduction.
LEMMA IntroBegins ==
  ASSUME IntroInv, NEW k \in IntroCommands, NEW i \in Intros, I!Begin(k, i)
  PROVE  IntroInv'
<1> PICK r : r = [at |-> "check", about |-> i]
  OBVIOUS
<1>1. /\ IntroMove(k, r) /\ r.at = "check" /\ r.about = i
      /\ introPaid' = introPaid /\ told' = told
      /\ crossed' = IF \E c \in IntroCommands : introCommand[c].about = i
                      THEN crossed \cup {i} ELSE crossed
  BY DEF I!Begin, IntroMove, IntroOrders
<1>2. IntroTyped' /\ crossed \subseteq crossed'
  BY <1>1, IntroMoved DEF IntroInv, IntroTyped
<1>3. ASSUME NEW x \in Intros, x \notin crossed' PROVE PaidByOne(x)'
  <2>1. PaidByOne(x)
    BY <1>2, <1>3 DEF IntroInv
  <2>2. CASE x # i
    <3>1. \A j \in IntroCommands : Handles(j, x)' => j # k /\ introCommand'[j] = introCommand[j] /\ Handles(j, x)
      BY <1>1, <2>2, IntroMoved DEF Handles
    <3>2. \A j \in IntroCommands : introCommand'[j].at = "grant" /\ introCommand'[j].about = x
                                     => introCommand'[j] = introCommand[j]
      BY <1>1, IntroMoved
    <3> QED
      BY <1>1, <2>1, <3>1, <3>2 DEF PaidByOne
  <2>3. CASE x = i
    <3>1. \A c \in IntroCommands : introCommand[c].about # i
      BY <1>1, <1>3, <2>3
    <3>2. ASSUME NEW j \in IntroCommands, introCommand'[j].about = i PROVE j = k
      <4>1. CASE j # k
        <5>1. introCommand'[j] = introCommand[j]
          BY <1>1, <4>1, IntroMoved
        <5> QED
          BY <3>1, <3>2, <5>1
      <4> QED
        BY <4>1
    <3> QED
      BY <1>1, <2>1, <2>3, <3>2, IntroMoved DEF PaidByOne, Handles
  <2> QED
    BY <2>2, <2>3
<1>4. \A x \in Intros : told'[x] # {} => introPaid'[x] > 0
  BY <1>1 DEF IntroInv
<1> QED
  BY <1>1, <1>2, <1>3, <1>4, IntroMoved DEF IntroInv

\* A command ends without a payment.
LEMMA IntroGivenUp ==
  ASSUME IntroInv, NEW k \in IntroCommands, I!GivesUp(k)
  PROVE  IntroInv'
<1> PICK r : r = I!Idle
  OBVIOUS
<1>1. IntroMove(k, r) /\ r.at = "idle" /\ introPaid' = introPaid /\ told' = told /\ crossed' = crossed
  BY IntroIdle DEF I!GivesUp, I!Ends, IntroMove
<1>2. IntroTyped'
  BY <1>1, IntroMoved DEF IntroInv, IntroTyped
<1>3. \A x \in Intros : x \notin crossed => PaidByOne(x)'
  BY <1>1, IntroGoesOn
<1>4. \A x \in Intros : told'[x] # {} => introPaid'[x] > 0
  BY <1>1 DEF IntroInv
<1> QED
  BY <1>1, <1>2, <1>3, <1>4, IntroMoved DEF IntroInv

\* A command finds the introduction paid, or not.
LEMMA IntroChecked ==
  ASSUME IntroInv, NEW k \in IntroCommands, I!Check(k)
  PROVE  IntroInv'
<1> PICK i : i = introCommand[k].about
  OBVIOUS
<1>1. introCommand[k].at = "check" /\ i \in Intros /\ introPaid' = introPaid /\ crossed' = crossed
  BY DEF I!Check, IntroInv
<1>2. introPaid[i] \in Nat /\ told[i] \in SUBSET {"paid", "paid before"} /\ introCommand[k] \in IntroOrders
  BY <1>1 DEF IntroInv, IntroTyped
<1>3. CASE introPaid[i] > 0 /\ told' = [told EXCEPT ![i] = @ \cup {"paid before"}] /\ I!Ends(k)
  <2> PICK r : r = I!Idle
    OBVIOUS
  <2>1. IntroMove(k, r) /\ r.at = "idle"
    BY <1>3, IntroIdle DEF I!Ends, IntroMove
  <2>2. told' \in [Intros -> SUBSET {"paid", "paid before"}]
    <3>1. told[i] \cup {"paid before"} \in SUBSET {"paid", "paid before"}
      BY <1>2
    <3> QED
      BY <1>3, <3>1 DEF IntroInv, IntroTyped
  <2>3. IntroTyped'
    BY <1>1, <2>1, <2>2, IntroMoved DEF IntroInv, IntroTyped
  <2>4. \A x \in Intros : x \notin crossed => PaidByOne(x)'
    BY <1>1, <2>1, IntroGoesOn
  <2>5. \A x \in Intros : told'[x] # {} => introPaid'[x] > 0
    <3>1. \A x \in Intros : x # i => told'[x] = told[x]
      BY <1>3 DEF IntroInv, IntroTyped
    <3> QED
      BY <1>1, <1>3, <3>1 DEF IntroInv
  <2> QED
    BY <1>1, <2>1, <2>3, <2>4, <2>5, IntroMoved DEF IntroInv
<1>4. CASE ~(introPaid[i] > 0) /\ introCommand' = [introCommand EXCEPT ![k].at = "grant"] /\ told' = told
  <2> PICK r : r = [introCommand[k] EXCEPT !.at = "grant"]
    OBVIOUS
  <2>1. IntroMove(k, r) /\ r.at = "grant" /\ r.about = i
    BY <1>1, <1>2, <1>4 DEF IntroMove, IntroOrders
  <2>2. introPaid[i] = 0
    <3>1. ~(introPaid[i] > 0)
      BY <1>4
    <3>2. introPaid[i] \in Nat
      BY <1>2
    <3> QED
      BY <3>1, <3>2
  <2>3. IntroTyped'
    BY <1>1, <1>4, <2>1, IntroMoved, ZenonT(60) DEF IntroInv, IntroTyped
  <2>4. \A x \in Intros : x \notin crossed => PaidByOne(x)'
    BY <1>1, <2>1, <2>2, IntroGoesOn, ZenonT(60)
  <2>5. \A x \in Intros : told'[x] # {} => introPaid'[x] > 0
    BY <1>1, <1>4 DEF IntroInv
  <2> QED
    BY <1>1, <2>1, <2>3, <2>4, <2>5, IntroMoved DEF IntroInv
<1> QED
  BY <1>3, <1>4 DEF I!Check, I!HasGrant

\* A command pays.
LEMMA IntroGranted ==
  ASSUME IntroInv, NEW k \in IntroCommands, I!Grant(k)
  PROVE  IntroInv'
<1> PICK i : i = introCommand[k].about
  OBVIOUS
<1> PICK r : r = I!Idle
  OBVIOUS
<1>1. introCommand[k].at = "grant" /\ i \in Intros /\ crossed' = crossed
      /\ introPaid' = [introPaid EXCEPT ![i] = @ + 1]
      /\ (told' = told \/ told' = [told EXCEPT ![i] = @ \cup {"paid"}])
  BY DEF I!Grant, IntroInv
<1>2. IntroMove(k, r) /\ r.at = "idle"
  BY IntroIdle DEF I!Grant, I!Ends, IntroMove
<1>3. /\ introPaid \in [Intros -> Nat] /\ introPaid' \in [Intros -> Nat]
      /\ introPaid'[i] = introPaid[i] + 1
      /\ \A x \in Intros : x # i => introPaid'[x] = introPaid[x]
  <2>1. introPaid \in [Intros -> Nat] /\ i \in Intros
    BY <1>1 DEF IntroInv, IntroTyped
  <2>2. introPaid' = [introPaid EXCEPT ![i] = introPaid[i] + 1]
    BY <1>1
  <2>3. introPaid[i] \in Nat
    BY <2>1
  <2>4. introPaid[i] + 1 \in Nat
    BY <2>3
  <2> QED
    BY <2>1, <2>2, <2>4
<1>4. /\ told' \in [Intros -> SUBSET {"paid", "paid before"}]
      /\ \A x \in Intros : x # i => told'[x] = told[x]
  <2>0. told \in [Intros -> SUBSET {"paid", "paid before"}]
    BY DEF IntroInv, IntroTyped
  <2>1. CASE told' = told
    BY <2>0, <2>1
  <2>2. CASE told' = [told EXCEPT ![i] = @ \cup {"paid"}]
    <3>1. told[i] \cup {"paid"} \in SUBSET {"paid", "paid before"}
      BY <1>1, <2>0
    <3> QED
      BY <2>0, <2>2, <3>1
  <2> QED
    BY <1>1, <2>1, <2>2
<1>5. IntroTyped'
  BY <1>1, <1>2, <1>3, <1>4, IntroMoved DEF IntroInv, IntroTyped
<1>6. ASSUME NEW x \in Intros, told'[x] # {} PROVE introPaid'[x] > 0
  <2>1. CASE x = i
    BY <1>1, <1>3, <2>1
  <2>2. CASE x # i
    BY <1>3, <1>4, <1>6, <2>2 DEF IntroInv
  <2> QED
    BY <2>1, <2>2
<1>7. ASSUME NEW x \in Intros, x \notin crossed PROVE PaidByOne(x)'
  <2>1. CASE x # i
    BY <1>2, <1>3, <1>7, <2>1, IntroGoesOn
  <2>2. CASE x = i
    <3>1. PaidByOne(i)
      BY <1>7, <2>2 DEF IntroInv
    <3>2. introPaid'[x] = 1
      BY <1>1, <1>3, <2>2, <3>1 DEF PaidByOne
    <3>3. Handles(k, i)
      BY <1>1 DEF Handles
    <3>4. \A j \in IntroCommands : ~ Handles(j, x)'
      <4> SUFFICES ASSUME NEW j \in IntroCommands, Handles(j, x)' PROVE FALSE
        OBVIOUS
      <4>1. j # k
        BY <1>2, IntroMoved DEF Handles
      <4>2. Handles(j, i)
        BY <1>2, <2>2, <4>1, IntroMoved DEF Handles
      <4> QED
        BY <3>1, <3>3, <4>1, <4>2 DEF PaidByOne
    <3> QED
      BY <3>2, <3>4 DEF PaidByOne, Handles
  <2> QED
    BY <2>1, <2>2
<1> QED
  BY <1>1, <1>2, <1>5, <1>6, <1>7, IntroMoved DEF IntroInv

\* The worker's death ends its commands.
LEMMA IntroWorkerDies ==
  ASSUME IntroInv, I!WorkerDies
  PROVE  IntroInv'
<1>1. /\ introCommand' = [k \in IntroCommands |-> I!Idle]
      /\ introPaid' = introPaid /\ told' = told /\ crossed' = crossed
  BY DEF I!WorkerDies
<1>2. /\ introCommand' \in [IntroCommands -> IntroOrders]
      /\ \A k \in IntroCommands : introCommand'[k].at = "idle"
  BY <1>1, IntroIdle
<1>3. IntroTyped'
  BY <1>1, <1>2 DEF IntroInv, IntroTyped
<1>4. \A i \in Intros : i \notin crossed => PaidByOne(i)'
  BY <1>1, <1>2 DEF IntroInv, PaidByOne, Handles
<1> QED
  BY <1>1, <1>2, <1>3, <1>4 DEF IntroInv

\* An introduction is paid once, unless two commands crossed on it.
LEMMA IntroIsPaidOnce == I!Spec => []I!IntroPaidOnce
<1>1. I!Init => IntroInv
  BY DEF I!Init, I!Idle, IntroInv, IntroTyped, IntroOrders, PaidByOne, Handles
<1>2. IntroInv /\ [I!Next]_I!introVars => IntroInv'
  <2> SUFFICES ASSUME IntroInv, [I!Next]_I!introVars PROVE IntroInv'
    OBVIOUS
  <2>1. CASE I!Next
    BY <2>1, IntroWorkerDies, IntroGivenUp, IntroChecked, IntroGranted, IntroBegins DEF I!Next
  <2>2. CASE UNCHANGED I!introVars
    BY <2>2 DEF I!introVars, IntroInv, IntroTyped, PaidByOne, Handles
  <2> QED
    BY <2>1, <2>2
<1>3. IntroInv => I!IntroPaidOnce
  <2> SUFFICES ASSUME IntroInv, NEW i \in Intros
               PROVE  (introPaid[i] > 1 => i \in crossed) /\ (told[i] # {} => introPaid[i] > 0)
    BY DEF I!IntroPaidOnce
  <2>1. introPaid[i] \in Nat /\ (i \notin crossed => introPaid[i] <= 1)
    BY DEF IntroInv, IntroTyped, PaidByOne
  <2>2. told[i] # {} => introPaid[i] > 0
    BY DEF IntroInv
  <2> QED
    BY <2>1, <2>2
<1> QED
  BY <1>1, <1>2, <1>3, PTL DEF I!Spec

-----------------------------------------------------------------------------
(***************************************************************************)
(* TokenWatch: reminders get more urgent.                                  *)
(***************************************************************************)

WatchRecords == [at : {"idle", "send", "mark"}, login : Logins \cup {0}, passed : SUBSET R!Marks]

WatchTyped ==
  /\ login \in Logins /\ left \in 0 .. 4
  /\ marked \subseteq Logins \X R!Marks
  /\ watcher \in [Watchers -> WatchRecords]
  /\ closest \in [Logins -> 0 .. 4]

Busy(w, l) == watcher[w].at # "idle" /\ watcher[w].login = l

\* A message about to be sent leaves out only marks that were told of, and one
\* that was sent is the closest so far.
WatcherInv(w) ==
  /\ watcher[w].at # "idle" => watcher[w].login \in Logins /\ watcher[w].passed # {}
  /\ watcher[w].at = "send" =>
       \A m \in R!Marks : m >= R!Min(watcher[w].passed)
                            => m \in watcher[w].passed \/ <<watcher[w].login, m>> \in marked
  /\ watcher[w].at = "mark" => closest[watcher[w].login] <= R!Min(watcher[w].passed)

ToldOf(l, m) ==
  \/ <<l, m>> \in marked
  \/ \E w \in Watchers : watcher[w].at = "mark" /\ watcher[w].login = l /\ m \in watcher[w].passed

\* A login no overlap and no failure has touched.
Unmarred(l) ==
  /\ l \notin relapsed
  /\ \A v, w \in Watchers : Busy(v, l) /\ Busy(w, l) => v = w
  /\ \A m \in R!Marks : m >= closest[l] => ToldOf(l, m)
  /\ \A w \in Watchers : watcher[w].at = "send" /\ watcher[w].login = l
                           => \A m \in watcher[w].passed : m < closest[l]

WatchInv ==
  /\ WatchTyped
  /\ relapsed \subseteq Logins
  /\ \A pair \in marked : closest[pair[1]] <= pair[2]
  /\ \A w \in Watchers : WatcherInv(w)
  /\ \A l \in Logins : l \notin marred => Unmarred(l)

\* The least of a set of marks is one of them.
LEMMA LeastMark ==
  ASSUME NEW S \in SUBSET R!Marks, S # {}
  PROVE  R!Min(S) \in S /\ R!Min(S) \in 0 .. 3 /\ \A m \in S : R!Min(S) <= m
<1>1. \E x \in S : \A y \in S : x <= y
  <2>1. S \subseteq {0, 1, 2, 3}
    BY DEF R!Marks
  <2>2. CASE 0 \in S
    BY <2>1, <2>2
  <2>3. CASE 0 \notin S /\ 1 \in S
    BY <2>1, <2>3
  <2>4. CASE 0 \notin S /\ 1 \notin S /\ 2 \in S
    BY <2>1, <2>4
  <2>5. CASE 0 \notin S /\ 1 \notin S /\ 2 \notin S
    <3>1. \A y \in S : y = 3
      BY <2>1, <2>5
    <3>2. PICK x \in S : TRUE
      OBVIOUS
    <3> QED
      BY <3>1, <3>2
  <2> QED
    BY <2>2, <2>3, <2>4, <2>5
<1>2. R!Min(S) \in S /\ \A y \in S : R!Min(S) <= y
  BY <1>1 DEF R!Min
<1> QED
  BY <1>2 DEF R!Marks

\* The least of two.
LEMMA LeastOfTwo ==
  ASSUME NEW a \in Int, NEW b \in Int
  PROVE  R!Min({a, b}) = IF a <= b THEN a ELSE b
<1>1. \E x \in {a, b} : \A y \in {a, b} : x <= y
  OBVIOUS
<1>2. R!Min({a, b}) \in {a, b} /\ \A y \in {a, b} : R!Min({a, b}) <= y
  BY <1>1 DEF R!Min
<1> QED
  BY <1>2

\* The step of one watcher.
WatchMove(w, r) == watcher' = [watcher EXCEPT ![w] = r] /\ r \in WatchRecords

\* One watcher moves, and the others do not.
LEMMA WatchMoved ==
  ASSUME WatchTyped, NEW w \in Watchers, NEW r, WatchMove(w, r)
  PROVE  /\ watcher' \in [Watchers -> WatchRecords]
         /\ watcher'[w] = r
         /\ \A v \in Watchers : v # w => watcher'[v] = watcher[v]
  BY DEF WatchTyped, WatchMove

\* A watcher at rest is of the type.
LEMMA WatchIdle == R!Idle \in WatchRecords /\ R!Idle.at = "idle"
  BY DEF R!Idle, WatchRecords

\* A login that one more watcher leaves, or none touches.
LEMMA UnmarredStays ==
  ASSUME WatchInv, NEW w \in Watchers, NEW r, WatchMove(w, r), NEW l \in Logins,
         l \notin marred, r.at = "idle" \/ r.login # l,
         watcher[w].at = "mark" /\ watcher[w].login = l
           => \A m \in watcher[w].passed : <<l, m>> \in marked',
         marked \subseteq marked', closest'[l] = closest[l],
         l \in relapsed' => l \in relapsed
  PROVE  Unmarred(l)'
<1>1. Unmarred(l)
  BY DEF WatchInv
<1>2. /\ watcher'[w] = r
      /\ \A v \in Watchers : v # w => watcher'[v] = watcher[v]
  BY WatchMoved DEF WatchInv
<1>3. \A v \in Watchers : Busy(v, l)' => v # w /\ watcher'[v] = watcher[v] /\ Busy(v, l)
  BY <1>2 DEF Busy
<1>4. ASSUME NEW m \in R!Marks, ToldOf(l, m) PROVE ToldOf(l, m)'
  <2>1. CASE <<l, m>> \in marked
    BY <2>1 DEF ToldOf
  <2>2. CASE <<l, m>> \notin marked
    <3>1. PICK v \in Watchers : watcher[v].at = "mark" /\ watcher[v].login = l /\ m \in watcher[v].passed
      BY <1>4, <2>2 DEF ToldOf
    <3>2. CASE v = w
      BY <3>1, <3>2 DEF ToldOf
    <3>3. CASE v # w
      BY <1>2, <3>1, <3>3 DEF ToldOf
    <3> QED
      BY <3>2, <3>3
  <2> QED
    BY <2>1, <2>2
<1>5. \A v, u \in Watchers : Busy(v, l)' /\ Busy(u, l)' => v = u
  BY <1>1, <1>3 DEF Unmarred
<1>6. \A m \in R!Marks : m >= closest'[l] => ToldOf(l, m)'
  BY <1>1, <1>4 DEF Unmarred
<1>7. ASSUME NEW v \in Watchers, watcher'[v].at = "send", watcher'[v].login = l,
             NEW m \in watcher'[v].passed
      PROVE  m < closest'[l]
  <2>1. v # w /\ watcher'[v] = watcher[v]
    BY <1>3, <1>7 DEF Busy
  <2> QED
    BY <1>1, <1>7, <2>1 DEF Unmarred
<1> QED
  BY <1>1, <1>5, <1>6, <1>7 DEF Unmarred

\* What a watcher that does not move is about, as rows and messages add up.
LEMMA WatchersStay ==
  ASSUME WatchInv, NEW v \in Watchers, watcher'[v] = watcher[v],
         marked \subseteq marked', \A l \in Logins : closest'[l] <= closest[l],
         closest' \in [Logins -> 0 .. 4]
  PROVE  WatcherInv(v)'
<1>1. WatcherInv(v) /\ watcher[v] \in WatchRecords /\ closest \in [Logins -> 0 .. 4]
  BY DEF WatchInv, WatchTyped
<1>2. watcher[v].at = "mark" => closest'[watcher[v].login] <= R!Min(watcher[v].passed)
  <2> SUFFICES ASSUME watcher[v].at = "mark"
               PROVE  closest'[watcher[v].login] <= R!Min(watcher[v].passed)
    OBVIOUS
  <2>1. watcher[v].login \in Logins /\ watcher[v].passed # {} /\ watcher[v].passed \in SUBSET R!Marks
        /\ closest[watcher[v].login] <= R!Min(watcher[v].passed)
    BY <1>1 DEF WatcherInv, WatchRecords
  <2>2. R!Min(watcher[v].passed) \in 0 .. 3
    BY <2>1, LeastMark
  <2>3. /\ closest[watcher[v].login] \in 0 .. 4 /\ closest'[watcher[v].login] \in 0 .. 4
        /\ closest'[watcher[v].login] <= closest[watcher[v].login]
    BY <1>1, <2>1
  <2> QED
    BY <2>1, <2>2, <2>3
<1>3. watcher[v].at # "idle" => watcher[v].login \in Logins /\ watcher[v].passed # {}
  BY <1>1 DEF WatcherInv
<1>4. watcher[v].at = "send" =>
       \A m \in R!Marks : m >= R!Min(watcher[v].passed)
                            => m \in watcher[v].passed \/ <<watcher[v].login, m>> \in marked'
  BY <1>1 DEF WatcherInv
<1> QED
  BY <1>2, <1>3, <1>4 DEF WatcherInv

\* A watcher reads how much is left and what was told.
LEMMA WatchLooks ==
  ASSUME WatchInv, NEW w \in Watchers, R!Look(w)
  PROVE  WatchInv'
<1>1. PICK fails \in BOOLEAN :
        LET untold == {m \in {n \in R!Marks : left <= n} : fails \/ <<login, m>> \notin marked} IN
        /\ untold # {}
        /\ marred' = IF fails \/ \E x \in Watchers \ {w} : watcher[x].login = login
                     THEN marred \cup {login} ELSE marred
        /\ watcher' = [watcher EXCEPT ![w] = [at |-> "send", login |-> login, passed |-> untold]]
  BY DEF R!Look
<1>2. PICK unsaid : unsaid = {m \in {n \in R!Marks : left <= n} : fails \/ <<login, m>> \notin marked}
  OBVIOUS
<1>3. PICK r : r = [at |-> "send", login |-> login, passed |-> unsaid]
  OBVIOUS
<1>4. /\ watcher' = [watcher EXCEPT ![w] = r] /\ unsaid # {}
      /\ login' = login /\ left' = left /\ marked' = marked /\ closest' = closest /\ relapsed' = relapsed
      /\ watcher[w].at = "idle" /\ marred \subseteq marred'
  BY <1>1, <1>2, <1>3 DEF R!Look
<1>5. WatchTyped /\ left \in 0 .. 4 /\ login \in Logins
  BY DEF WatchInv, WatchTyped
<1>6. unsaid \in SUBSET R!Marks /\ \A m \in R!Marks : left <= m => m \in unsaid \/ <<login, m>> \in marked
  BY <1>2
<1>7. WatchMove(w, r)
  BY <1>3, <1>4, <1>5, <1>6 DEF WatchMove, WatchRecords
<1>8. /\ watcher' \in [Watchers -> WatchRecords] /\ watcher'[w] = r
      /\ \A v \in Watchers : v # w => watcher'[v] = watcher[v]
  BY <1>5, <1>7, WatchMoved
<1>9. r.at = "send" /\ r.login = login /\ r.passed = unsaid
  BY <1>3
<1>10. WatchTyped'
  BY <1>4, <1>5, <1>8 DEF WatchTyped
<1>11. ASSUME NEW v \in Watchers PROVE WatcherInv(v)'
  <2>1. CASE v # w
    <3>1. \A l \in Logins : closest[l] <= closest[l]
      BY <1>5 DEF WatchTyped
    <3> QED
      BY <1>4, <1>5, <1>8, <2>1, <3>1, WatchersStay DEF WatchTyped
  <2>2. CASE v = w
    <3>1. \A m \in R!Marks : m >= R!Min(unsaid) => m \in unsaid \/ <<login, m>> \in marked
      <4> TAKE m \in R!Marks
      <4> HAVE m >= R!Min(unsaid)
      <4>1. R!Min(unsaid) \in unsaid /\ R!Min(unsaid) \in 0 .. 3
        BY <1>4, <1>6, LeastMark
      <4>2. left <= R!Min(unsaid)
        BY <1>2, <4>1
      <4>3. left <= m
        BY <1>5, <4>1, <4>2 DEF R!Marks
      <4> QED
        BY <1>6, <4>3
    <3>2. /\ watcher'[w].at = "send" /\ watcher'[w].login = login /\ watcher'[w].passed = unsaid
      BY <1>8, <1>9
    <3> QED
      BY <1>4, <1>5, <2>2, <3>1, <3>2 DEF WatcherInv
  <2> QED
    BY <2>1, <2>2
<1>12. ASSUME NEW l \in Logins, l \notin marred' PROVE Unmarred(l)'
  <2>0. l \notin marred /\ Unmarred(l)
    BY <1>4, <1>12 DEF WatchInv
  <2>1. CASE l # login
    BY <1>4, <1>7, <1>9, <2>0, <2>1, UnmarredStays
  <2>2. CASE l = login
    <3>1. /\ ~fails /\ \A x \in Watchers : x # w => watcher[x].login # login
      BY <1>1, <1>12, <2>2
    <3>2. \A v \in Watchers : Busy(v, l)' => v = w
      BY <1>8, <2>2, <3>1 DEF Busy
    <3>3. \A v \in Watchers : ~ Busy(v, l)
      BY <1>4, <2>2, <3>1 DEF Busy
    <3>4. \A m \in R!Marks : m >= closest[l] => <<l, m>> \in marked
      BY <2>0, <3>3 DEF Unmarred, ToldOf, Busy
    <3>5. \A m \in unsaid : m < closest[l]
      <4> TAKE m \in unsaid
      <4>1. m \in R!Marks /\ <<l, m>> \notin marked
        BY <1>2, <2>2, <3>1
      <4>2. ~(m >= closest[l])
        BY <3>4, <4>1
      <4>3. m \in Int /\ closest[l] \in Int
        BY <1>5, <4>1 DEF R!Marks, WatchTyped
      <4> QED
        BY <4>2, <4>3
    <3>6. \A v \in Watchers : watcher'[v].at = "send" /\ watcher'[v].login = l
                                => \A m \in watcher'[v].passed : m < closest'[l]
      <4> TAKE v \in Watchers
      <4> HAVE watcher'[v].at = "send" /\ watcher'[v].login = l
      <4>1. v = w
        BY <3>2 DEF Busy
      <4> QED
        BY <1>4, <1>8, <1>9, <3>5, <4>1
    <3>7. \A m \in R!Marks : m >= closest'[l] => ToldOf(l, m)'
      BY <1>4, <3>4 DEF ToldOf
    <3> QED
      BY <1>4, <2>0, <3>2, <3>6, <3>7 DEF Unmarred
  <2> QED
    BY <2>1, <2>2
<1> QED
  BY <1>4, <1>10, <1>11, <1>12 DEF WatchInv

\* A watcher sends its reminder.
LEMMA WatchSends ==
  ASSUME WatchInv, NEW w \in Watchers, R!Send(w)
  PROVE  WatchInv'
<1>1. PICK l, p : l = watcher[w].login /\ p = watcher[w].passed
  OBVIOUS
<1>2. PICK m : m = R!Min(p)
  OBVIOUS
<1>3. PICK comes \in BOOLEAN :
        /\ closest' = IF comes THEN [closest EXCEPT ![l] = R!Min({@, m})] ELSE closest
        /\ relapsed' = IF comes /\ m >= closest[l] THEN relapsed \cup {l} ELSE relapsed
        /\ \/ comes /\ R!To(w, "mark") /\ UNCHANGED <<marred, lapses>>
           \/ /\ R!Fails /\ marred' = marred \cup {l}
              /\ watcher' = [watcher EXCEPT ![w] = R!Idle]
  BY <1>1, <1>2 DEF R!Send
<1>4. /\ watcher[w].at = "send" /\ login' = login /\ left' = left /\ marked' = marked
  BY DEF R!Send
<1>5. WatchTyped /\ WatcherInv(w)
  BY DEF WatchInv
<1>6. /\ l \in Logins /\ p \in SUBSET R!Marks /\ p # {} /\ watcher[w] \in WatchRecords
      /\ \A n \in R!Marks : n >= m => n \in p \/ <<l, n>> \in marked
  BY <1>1, <1>2, <1>4, <1>5 DEF WatcherInv, WatchTyped, WatchRecords
<1>7. m \in p /\ m \in 0 .. 3 /\ \A n \in p : m <= n
  BY <1>2, <1>6, LeastMark
<1>8. closest[l] \in 0 .. 4 /\ closest \in [Logins -> 0 .. 4]
  BY <1>5, <1>6 DEF WatchTyped
<1>9. /\ closest' \in [Logins -> 0 .. 4]
      /\ \A x \in Logins : closest'[x] <= closest[x] /\ (x # l => closest'[x] = closest[x])
      /\ comes => closest'[l] = IF closest[l] <= m THEN closest[l] ELSE m
  <2>1. CASE comes
    <3>1. closest' = [closest EXCEPT ![l] = R!Min({closest[l], m})]
      BY <1>3, <2>1
    <3>2. R!Min({closest[l], m}) = IF closest[l] <= m THEN closest[l] ELSE m
      BY <1>7, <1>8, LeastOfTwo
    <3> QED
      BY <1>6, <1>7, <1>8, <3>1, <3>2
  <2>2. CASE ~comes
    BY <1>3, <1>8, <2>2
  <2> QED
    BY <2>1, <2>2
<1>10. relapsed' \subseteq Logins /\ \A x \in Logins : x # l /\ x \in relapsed' => x \in relapsed
  BY <1>3, <1>6 DEF WatchInv
<1>11. \A pair \in marked' : closest'[pair[1]] <= pair[2]
  <2> SUFFICES ASSUME NEW pair \in marked PROVE closest'[pair[1]] <= pair[2]
    BY <1>4
  <2>1. closest[pair[1]] <= pair[2] /\ pair[1] \in Logins /\ pair[2] \in Int
    BY <1>5 DEF WatchInv, WatchTyped, R!Marks
  <2>2. closest'[pair[1]] <= closest[pair[1]] /\ closest[pair[1]] \in Int /\ closest'[pair[1]] \in Int
    BY <1>8, <1>9, <2>1
  <2> QED
    BY <2>1, <2>2
<1>12. CASE comes /\ R!To(w, "mark") /\ UNCHANGED <<marred, lapses>>
  <2>1. PICK r : r = [watcher[w] EXCEPT !.at = "mark"]
    OBVIOUS
  <2>2. WatchMove(w, r) /\ r.at = "mark" /\ r.login = l /\ r.passed = p
    BY <1>1, <1>6, <1>12, <2>1 DEF WatchMove, R!To, WatchRecords
  <2>3. /\ watcher' \in [Watchers -> WatchRecords] /\ watcher'[w] = r
        /\ \A v \in Watchers : v # w => watcher'[v] = watcher[v]
    BY <1>5, <2>2, WatchMoved
  <2>4. WatchTyped'
    BY <1>4, <1>5, <1>9, <2>3 DEF WatchTyped
  <2>5. closest'[l] <= m
    BY <1>7, <1>8, <1>9, <1>12
  <2>6. ASSUME NEW v \in Watchers PROVE WatcherInv(v)'
    <3>1. CASE v # w
      BY <1>4, <1>9, <2>3, <3>1, WatchersStay
    <3>2. CASE v = w
      BY <1>2, <1>6, <2>2, <2>3, <2>5, <3>2 DEF WatcherInv
    <3> QED
      BY <3>1, <3>2
  <2>7. ASSUME NEW x \in Logins, x \notin marred' PROVE Unmarred(x)'
    <3>0. x \notin marred /\ Unmarred(x)
      BY <1>12, <2>7 DEF WatchInv
    <3>1. CASE x # l
      <4>1. closest'[x] = closest[x] /\ (x \in relapsed' => x \in relapsed)
        BY <1>9, <1>10, <3>1
      <4>2. marked \subseteq marked' /\ ~(watcher[w].at = "mark")
        BY <1>4
      <4> QED
        BY <2>2, <3>0, <3>1, <4>1, <4>2, UnmarredStays
    <3>2. CASE x = l
      <4>1. m < closest[l]
        BY <1>1, <1>4, <1>7, <3>0, <3>2 DEF Unmarred
      <4>2. closest'[l] = m /\ relapsed' = relapsed
        BY <1>3, <1>7, <1>8, <1>9, <1>12, <4>1
      <4>3. \A v \in Watchers : Busy(v, l)' => v = w
        <5> TAKE v \in Watchers
        <5> HAVE Busy(v, l)'
        <5>1. Busy(v, l)
          BY <1>1, <1>4, <2>3 DEF Busy
        <5>2. Busy(w, l)
          BY <1>1, <1>4 DEF Busy
        <5> QED
          BY <3>0, <3>2, <5>1, <5>2 DEF Unmarred
      <4>4. ASSUME NEW n \in R!Marks, n >= closest'[l] PROVE ToldOf(l, n)'
        <5>1. n \in p \/ <<l, n>> \in marked
          BY <1>6, <4>2, <4>4
        <5> QED
          BY <1>4, <2>2, <2>3, <5>1 DEF ToldOf
      <4>5. \A v \in Watchers : ~(watcher'[v].at = "send" /\ watcher'[v].login = l)
        BY <2>2, <2>3, <4>3 DEF Busy
      <4> QED
        BY <3>0, <3>2, <4>2, <4>3, <4>4, <4>5 DEF Unmarred
    <3> QED
      BY <3>1, <3>2
  <2> QED
    BY <1>10, <1>11, <2>4, <2>6, <2>7 DEF WatchInv
<1>13. CASE marred' = marred \cup {l} /\ watcher' = [watcher EXCEPT ![w] = R!Idle]
  <2>1. WatchMove(w, R!Idle) /\ R!Idle.at = "idle"
    BY <1>13, WatchIdle DEF WatchMove
  <2>3. /\ watcher' \in [Watchers -> WatchRecords] /\ watcher'[w] = R!Idle
        /\ \A v \in Watchers : v # w => watcher'[v] = watcher[v]
    BY <1>5, <2>1, WatchMoved
  <2>4. WatchTyped'
    BY <1>4, <1>5, <1>9, <2>3 DEF WatchTyped
  <2>5. ASSUME NEW v \in Watchers PROVE WatcherInv(v)'
    <3>1. CASE v # w
      BY <1>4, <1>9, <2>3, <3>1, WatchersStay
    <3>2. CASE v = w
      BY <2>1, <2>3, <3>2 DEF WatcherInv
    <3> QED
      BY <3>1, <3>2
  <2>6. ASSUME NEW x \in Logins, x \notin marred' PROVE Unmarred(x)'
    <3>1. x # l /\ x \notin marred
      BY <1>13, <2>6
    <3>2. closest'[x] = closest[x] /\ (x \in relapsed' => x \in relapsed)
      BY <1>9, <1>10, <3>1
    <3>3. marked \subseteq marked' /\ ~(watcher[w].at = "mark")
      BY <1>4
    <3> QED
      BY <2>1, <3>1, <3>2, <3>3, UnmarredStays
  <2> QED
    BY <1>10, <1>11, <2>4, <2>5, <2>6 DEF WatchInv
<1> QED
  BY <1>3, <1>12, <1>13

\* A watcher writes its marks, or dies.
LEMMA WatchEnds ==
  ASSUME WatchInv, NEW w \in Watchers, R!Mark(w) \/ R!Dies(w)
  PROVE  WatchInv'
<1>1. PICK l, p : l = watcher[w].login /\ p = watcher[w].passed
  OBVIOUS
<1>2. /\ watcher' = [watcher EXCEPT ![w] = R!Idle] /\ watcher[w].at # "idle"
      /\ login' = login /\ left' = left /\ closest' = closest /\ relapsed' = relapsed
  BY DEF R!Mark, R!Dies
<1>3. /\ marked \subseteq marked'
      /\ \A pair \in marked' : pair \in marked \/ (watcher[w].at = "mark" /\ pair \in {l} \X p)
  BY <1>1 DEF R!Mark, R!Dies, R!Told
<1>4. marred \subseteq marred' /\ (l \notin marred' => \A m \in p : <<l, m>> \in marked')
  BY <1>1 DEF R!Mark, R!Dies, R!Told
<1>5. WatchTyped /\ WatcherInv(w) /\ closest \in [Logins -> 0 .. 4]
  BY DEF WatchInv, WatchTyped
<1>6. l \in Logins /\ p \in SUBSET R!Marks /\ p # {}
  BY <1>1, <1>2, <1>5 DEF WatcherInv, WatchTyped, WatchRecords
<1>7. WatchMove(w, R!Idle) /\ R!Idle.at = "idle"
  BY <1>2, WatchIdle DEF WatchMove
<1>8. /\ watcher' \in [Watchers -> WatchRecords] /\ watcher'[w] = R!Idle
      /\ \A v \in Watchers : v # w => watcher'[v] = watcher[v]
  BY <1>5, <1>7, WatchMoved
<1>9. WatchTyped'
  BY <1>2, <1>3, <1>5, <1>6, <1>8 DEF WatchTyped
<1>10. ASSUME NEW pair \in marked' PROVE closest'[pair[1]] <= pair[2]
  <2>1. CASE pair \in marked
    BY <1>2, <2>1 DEF WatchInv
  <2>2. CASE watcher[w].at = "mark" /\ pair \in {l} \X p
    <3>1. pair[1] = l /\ pair[2] \in p
      BY <2>2
    <3>2. closest[l] <= R!Min(p)
      BY <1>1, <1>5, <2>2 DEF WatcherInv
    <3>3. R!Min(p) <= pair[2] /\ R!Min(p) \in 0 .. 3 /\ pair[2] \in 0 .. 3
      BY <1>6, <3>1, LeastMark DEF R!Marks
    <3>4. closest[l] \in 0 .. 4
      BY <1>5, <1>6
    <3> QED
      BY <1>2, <3>1, <3>2, <3>3, <3>4
  <2> QED
    BY <1>3, <2>1, <2>2
<1>11. ASSUME NEW v \in Watchers PROVE WatcherInv(v)'
  <2>1. CASE v # w
    <3>1. \A x \in Logins : closest[x] <= closest[x]
      BY <1>5
    <3> QED
      BY <1>2, <1>3, <1>5, <1>8, <2>1, <3>1, WatchersStay
  <2>2. CASE v = w
    BY <1>7, <1>8, <2>2 DEF WatcherInv
  <2> QED
    BY <2>1, <2>2
<1>12. ASSUME NEW x \in Logins, x \notin marred' PROVE Unmarred(x)'
  <2>1. x \notin marred /\ closest'[x] = closest[x] /\ (x \in relapsed' => x \in relapsed)
    BY <1>2, <1>4, <1>12
  <2>2. watcher[w].at = "mark" /\ watcher[w].login = x => \A m \in watcher[w].passed : <<x, m>> \in marked'
    BY <1>1, <1>4, <1>12
  <2> QED
    BY <1>3, <1>7, <2>1, <2>2, UnmarredStays
<1> QED
  BY <1>2, <1>9, <1>10, <1>11, <1>12 DEF WatchInv

\* Of a login no overlap or death touched, no reminder is less urgent than an
\* earlier one.
LEMMA RemindersGrowUrgent == R!Spec => []R!RemindersEscalate
<1>1. R!Init => WatchInv
  <2> SUFFICES ASSUME R!Init PROVE WatchInv
    OBVIOUS
  <2>1. WatchTyped /\ marked = {} /\ relapsed = {} /\ \A w \in Watchers : watcher[w].at = "idle"
    BY WatchIdle, Tokens DEF R!Init, R!TokensAssumption, WatchTyped
  <2>2. \A l \in Logins : \A m \in R!Marks : ~(m >= closest[l])
    BY DEF R!Init, R!Marks
  <2> QED
    BY <2>1, <2>2 DEF WatchInv, WatcherInv, Unmarred, Busy
<1>2. WatchInv /\ [R!Next]_R!tokenVars => WatchInv'
  <2> SUFFICES ASSUME WatchInv, [R!Next]_R!tokenVars PROVE WatchInv'
    OBVIOUS
  <2>1. CASE R!DayPasses \/ R!Login \/ UNCHANGED R!tokenVars
    <3>1. login' \in Logins /\ left' \in 0 .. 4
      BY <2>1 DEF R!DayPasses, R!Login, R!tokenVars, WatchInv, WatchTyped
    <3>2. marked' = marked /\ watcher' = watcher /\ closest' = closest /\ relapsed' = relapsed /\ marred' = marred
      BY <2>1 DEF R!DayPasses, R!Login, R!tokenVars
    <3> QED
      BY <3>1, <3>2 DEF WatchInv, WatchTyped, WatcherInv, Unmarred, Busy, ToldOf
  <2> QED
    BY <2>1, WatchLooks, WatchSends, WatchEnds DEF R!Next
<1>3. WatchInv => R!RemindersEscalate
  BY DEF WatchInv, R!RemindersEscalate, Unmarred
<1> QED
  BY <1>1, <1>2, <1>3, PTL DEF R!Spec

\* Introductions are paid once and reminders get more urgent, for any number of
\* commands and watchers.
THEOREM RewardsAreKept == I!Spec /\ R!Spec => []RewardsAndRemindersAreKept
  BY IntroIsPaidOnce, RemindersGrowUrgent, PTL DEF RewardsAndRemindersAreKept

-----------------------------------------------------------------------------
(***************************************************************************)
(* Heartbeat: the day's limit and the fan-out guard.                       *)
(***************************************************************************)

\* HeartAssumption in this module's words.
LEMMA HeartConstants ==
  /\ Limit \in Nat /\ Window \in Nat /\ MaxChats \in Nat \ {0} /\ IsFiniteSet(Chats)
  /\ \A S : H!Cardinality(S) = Cardinality(S)
<1>1. \A S : H!IsFiniteSet(S) <=> IsFiniteSet(S)
  BY DEF IsFiniteSet, H!IsFiniteSet
<1>2. \A S : H!Cardinality(S) = Cardinality(S)
  BY DEF Cardinality, H!Cardinality
<1> QED
  BY <1>1, <1>2, Heart DEF H!HeartAssumption

\* What the worker has begun in its life is in its counter, unless the day has
\* turned; each worker that ended today left at most Limit calls behind.
QuotaInv ==
  /\ calls \in Nat /\ lives \in Nat \ {0}
  /\ counter.count \in 0 .. Limit
  /\ calls <= Limit * (lives - 1) + H!DailyCount

\* Every step keeps the day's count.
LEMMA QuotaKept ==
  ASSUME QuotaInv, [H!Next]_H!heartVars
  PROVE  QuotaInv'
<1>0. /\ Limit \in Nat /\ calls \in Nat /\ lives \in Nat \ {0} /\ counter.count \in 0 .. Limit
      /\ H!DailyCount \in 0 .. Limit
  BY HeartConstants DEF QuotaInv, H!DailyCount
<1>1. CASE \E r \in Runs : H!Beat(r)
  <2>1. /\ counter' = [day |-> H!Day(now), count |-> H!DailyCount + 1]
        /\ H!DailyCount < Limit /\ calls' = calls + 1 /\ lives' = lives /\ now' = now
    BY <1>1 DEF H!Beat, H!Incremented, H!Counted
  <2>2. H!DailyCount' = H!DailyCount + 1 /\ counter'.count = H!DailyCount + 1
    BY <2>1 DEF H!DailyCount
  <2>3. PICK q : q = Limit * (lives - 1) /\ q \in Int
    BY <1>0
  <2>4. calls <= q + H!DailyCount /\ q = Limit * (lives' - 1)
    BY <2>1, <2>3 DEF QuotaInv
  <2>5. calls' <= q + H!DailyCount'
    BY <1>0, <2>1, <2>2, <2>3, <2>4
  <2> QED
    BY <1>0, <2>1, <2>2, <2>4, <2>5 DEF QuotaInv
<1>2. CASE H!Pass
  <2>1. counter' = counter
    BY <1>2 DEF H!Pass
  <2>2. CASE H!Day(now') = H!Day(now)
    BY <1>2, <2>1, <2>2 DEF H!Pass, QuotaInv, H!DailyCount
  <2>3. CASE H!Day(now') # H!Day(now)
    <3>1. calls' = 0 /\ lives' = 1
      BY <1>2, <2>3 DEF H!Pass
    <3>2. H!DailyCount' \in 0 .. Limit
      BY <1>0, <2>1 DEF H!DailyCount
    <3>3. Limit * (lives' - 1) = 0
      BY <1>0, <3>1
    <3>4. calls' <= Limit * (lives' - 1) + H!DailyCount'
      <4>1. PICK e, q : e = H!DailyCount' /\ q = Limit * (lives' - 1)
        OBVIOUS
      <4>2. q = 0 /\ e \in 0 .. Limit /\ calls' = 0
        BY <3>1, <3>2, <3>3, <4>1
      <4>3. calls' <= q + e
        BY <1>0, <4>2
      <4> QED
        BY <4>1, <4>3
    <3>5. calls' \in Nat /\ lives' \in Nat \ {0} /\ counter'.count \in 0 .. Limit
      BY <1>0, <2>1, <3>1
    <3> QED
      BY <3>4, <3>5 DEF QuotaInv
  <2> QED
    BY <2>2, <2>3
<1>3. CASE H!Restart
  <2>1. /\ counter' = [day |-> 0, count |-> 0] /\ calls' = calls /\ lives' = lives + 1 /\ now' = now
    BY <1>3 DEF H!Restart
  <2>2. H!DailyCount' = 0 /\ counter'.count = 0
    BY <2>1 DEF H!DailyCount
  <2>3. PICK q : q = Limit * (lives - 1) /\ q \in Int
    BY <1>0
  <2>4. calls <= q + Limit
    BY <1>0, <2>3 DEF QuotaInv
  <2>5. Limit * (lives' - 1) = q + Limit
    <3>1. lives' - 1 = (lives - 1) + 1 /\ lives - 1 \in Int
      BY <1>0, <2>1
    <3>2. Limit * ((lives - 1) + 1) = Limit * (lives - 1) + Limit
      BY <1>0, <3>1
    <3> QED
      BY <2>3, <3>1, <3>2
  <2> QED
    BY <1>0, <2>1, <2>2, <2>3, <2>4, <2>5 DEF QuotaInv
<1>4. CASE /\ counter' = counter /\ calls' = calls /\ lives' = lives /\ now' = now
  BY <1>4 DEF QuotaInv, H!DailyCount
<1> QED
  BY <1>1, <1>2, <1>3, <1>4
     DEF H!Next, H!heartVars, H!Skip, H!Ends, H!Send, H!Incremented, H!Counted

\* chats a content with the sendings s was sent to within Window from t on, and
\* those of the window that ended last before f.
SentFrom(s, t) == {c \in Chats : s[c] >= t /\ s[c] <= t + Window}
SentBefore(s, f) == {c \in Chats : s[c] > 0 /\ s[c] < f /\ s[c] >= f - Window}

\* One record of a content, at the time n: it knows the chats of its window,
\* and the windows before it were as small as the guard keeps this one.
WindowOk(record, s, n) ==
  /\ record.chats \in SUBSET Chats /\ record.first \in 0 .. n
  /\ s \in [Chats -> 0 .. n]
  /\ record.chats = {} => record.first = 0
  /\ Cardinality(record.chats) <= MaxChats
  /\ \A c \in Chats : s[c] <= record.first + Window
  /\ \A c \in Chats : s[c] > 0 /\ s[c] >= record.first => c \in record.chats
  /\ Cardinality(SentBefore(s, record.first)) <= MaxChats
  /\ \A t \in Nat \ {0} : Cardinality(SentFrom(s, t)) <= 2 * MaxChats

FanoutInv ==
  /\ now \in Nat \ {0}
  /\ fanout \in [Runs -> [chats : SUBSET Chats, first : Nat]]
  /\ sent \in [Runs -> [Chats -> Nat]]
  /\ \A r \in Runs : WindowOk(fanout[r], sent[r], now)

\* A part of a few chats is a few.
LEMMA FewInPart ==
  ASSUME IsFiniteSet(Chats), NEW n \in Int,
         NEW A \in SUBSET Chats, NEW B \in SUBSET A, Cardinality(A) <= n
  PROVE  Cardinality(B) <= n
<1>1. IsFiniteSet(A)
  BY FS_Subset
<1>2. IsFiniteSet(B) /\ Cardinality(B) <= Cardinality(A)
  BY <1>1, FS_Subset
<1> QED
  BY <1>1, <1>2, FS_CardinalityType

\* Two times a few are at most twice as many.
LEMMA FewInTwo ==
  ASSUME IsFiniteSet(Chats), NEW n \in Int, NEW A \in SUBSET Chats, NEW B \in SUBSET Chats,
         Cardinality(A) <= n, Cardinality(B) <= n, NEW D \in SUBSET (A \cup B)
  PROVE  Cardinality(D) <= 2 * n
<1>1. IsFiniteSet(A) /\ IsFiniteSet(B) /\ IsFiniteSet(A \cap B)
  BY FS_Subset
<1>2. /\ Cardinality(A) \in Nat /\ Cardinality(B) \in Nat /\ Cardinality(A \cap B) \in Nat
  BY <1>1, FS_CardinalityType
<1>3. Cardinality(A \cup B) = Cardinality(A) + Cardinality(B) - Cardinality(A \cap B)
  BY <1>1, FS_Union
<1>4. Cardinality(A \cup B) <= 2 * n /\ 2 * n \in Int /\ A \cup B \in SUBSET Chats
  BY <1>2, <1>3
<1> QED
  BY <1>4, FewInPart

\* The windows S and Q of the two latest records hold what was sent of late, and
\* what was sent before them is as it was.
TwoWindows(n, old, new, S, Q, first, c) ==
  /\ n \in Nat \ {0} /\ first \in 0 .. n /\ c \in Chats
  /\ old \in [Chats -> 0 .. n] /\ new \in [Chats -> 0 .. n]
  /\ S \in SUBSET Chats /\ Q \in SUBSET Chats
  /\ \A d \in Chats : d # c => new[d] = old[d]
  /\ new[c] = old[c] \/ new[c] = n
  /\ Cardinality(S) <= MaxChats /\ Cardinality(Q) <= MaxChats
  /\ \A d \in Chats : new[d] > 0 /\ new[d] >= first => d \in S
  /\ \A d \in Chats : new[d] > 0 /\ new[d] < first /\ new[d] >= first - Window => d \in Q
  /\ \A t \in Nat \ {0} : Cardinality(SentFrom(old, t)) <= 2 * MaxChats

\* What lies in a window from t on lies in two that a run counted.
LEMMA WindowsHold ==
  ASSUME NEW n, NEW old, NEW new, NEW S, NEW Q, NEW first, NEW c,
         TwoWindows(n, old, new, S, Q, first, c), NEW t \in Nat \ {0}
  PROVE  Cardinality(SentFrom(new, t)) <= 2 * MaxChats
<1> USE DEF TwoWindows
<1>0. Window \in Nat /\ MaxChats \in Nat \ {0} /\ IsFiniteSet(Chats)
  BY HeartConstants
<1>1. \A d \in Chats : new[d] \in 0 .. n /\ old[d] \in 0 .. n
  OBVIOUS
<1>2. CASE t + Window < first
  <2>1. ASSUME NEW d \in Chats, new[d] >= t, new[d] <= t + Window PROVE new[d] = old[d]
    <3>1. new[d] # n
      BY <1>0, <1>1, <1>2, <2>1
    <3> QED
      BY <3>1
  <2>2. SentFrom(new, t) \in SUBSET SentFrom(old, t)
    BY <2>1 DEF SentFrom
  <2>3. SentFrom(old, t) \in SUBSET Chats
    BY DEF SentFrom
  <2>4. 2 * MaxChats \in Int
    BY <1>0
  <2> QED
    BY <1>0, <2>2, <2>3, <2>4, FewInPart
<1>3. CASE ~(t + Window < first)
  <2>1. ASSUME NEW d \in Chats, new[d] >= t, new[d] <= t + Window PROVE d \in S \cup Q
    <3>1. /\ new[d] \in Nat /\ new[d] > 0 /\ new[d] >= first - Window
          /\ first \in Nat
      BY <1>0, <1>1, <1>3, <2>1
    <3>2. CASE new[d] >= first
      BY <3>1, <3>2
    <3>3. CASE ~(new[d] >= first)
      <4>1. new[d] < first
        BY <3>1, <3>3
      <4> QED
        BY <3>1, <4>1
    <3> QED
      BY <3>2, <3>3
  <2>2. SentFrom(new, t) \in SUBSET (S \cup Q)
    BY <2>1 DEF SentFrom
  <2>3. MaxChats \in Int
    BY <1>0
  <2> QED
    BY <1>0, <2>2, <2>3, FewInTwo
<1> QED
  BY <1>2, <1>3

\* A send that the guard lets through keeps the windows.
LEMMA FanoutSend ==
  ASSUME FanoutInv, NEW r \in Runs, NEW c \in Chats, H!Send(r, c)
  PROVE  FanoutInv'
<1>0. Window \in Nat /\ MaxChats \in Nat \ {0} /\ IsFiniteSet(Chats) /\ now \in Nat \ {0}
  BY HeartConstants DEF FanoutInv
<1>1. PICK S, f : S = fanout[r].chats /\ f = fanout[r].first
  OBVIOUS
<1>2. /\ S \in SUBSET Chats /\ f \in 0 .. now /\ sent[r] \in [Chats -> 0 .. now]
      /\ (S = {} => f = 0) /\ Cardinality(S) <= MaxChats
      /\ \A d \in Chats : sent[r][d] <= f + Window
      /\ \A d \in Chats : sent[r][d] > 0 /\ sent[r][d] >= f => d \in S
      /\ Cardinality(SentBefore(sent[r], f)) <= MaxChats
      /\ \A t \in Nat \ {0} : Cardinality(SentFrom(sent[r], t)) <= 2 * MaxChats
  BY <1>1 DEF FanoutInv, WindowOk
<1>3. PICK g : g = IF H!Expired(r) THEN [chats |-> {c}, first |-> now]
                   ELSE [chats |-> S \cup {c}, first |-> f]
  OBVIOUS
<1>4. fanout' = [fanout EXCEPT ![r] = g] /\ now' = now
  <2>1. fanout[r] \in [chats : SUBSET Chats, first : Nat]
    BY DEF FanoutInv
  <2>2. [fanout[r] EXCEPT !.chats = S \cup {c}] = [chats |-> S \cup {c}, first |-> f]
    BY <1>1, <2>1
  <2>3. fanout' = [fanout EXCEPT ![r] = IF H!Expired(r) THEN [chats |-> {c}, first |-> now]
                                        ELSE [fanout[r] EXCEPT !.chats = S \cup {c}]]
    BY <1>1 DEF H!Send
  <2>4. now' = now
    BY DEF H!Send
  <2> QED
    BY <1>3, <2>2, <2>3, <2>4
<1>5. PICK snt : snt = sent'[r]
  OBVIOUS
<1>6. /\ snt \in [Chats -> 0 .. now] /\ \A d \in Chats : d # c => snt[d] = sent[r][d]
      /\ (snt[c] = sent[r][c] \/ snt[c] = now)
      /\ \A q \in Runs : q # r => sent'[q] = sent[q]
      /\ sent' \in [Runs -> [Chats -> Nat]]
  <2>0. sent \in [Runs -> [Chats -> Nat]] /\ now \in 0 .. now
    BY <1>0 DEF FanoutInv
  <2>1. CASE sent' = sent
    BY <1>2, <1>5, <2>0, <2>1
  <2>2. CASE sent' = [sent EXCEPT ![r][c] = now]
    <3>1. sent' = [sent EXCEPT ![r] = [sent[r] EXCEPT ![c] = now]]
      BY <2>2
    <3>2. [sent[r] EXCEPT ![c] = now] \in [Chats -> Nat] /\ [sent[r] EXCEPT ![c] = now] \in [Chats -> 0 .. now]
      BY <1>0, <1>2, <2>0
    <3>3. snt = [sent[r] EXCEPT ![c] = now]
      BY <1>5, <2>0, <3>1
    <3> QED
      BY <1>2, <2>0, <3>1, <3>2, <3>3
  <2> QED
    BY <2>1, <2>2 DEF H!Send
<1>7. /\ g.chats \in SUBSET Chats /\ g.first \in 0 .. now /\ g.chats # {}
      /\ g \in [chats : SUBSET Chats, first : Nat]
  BY <1>0, <1>2, <1>3
<1>8. Cardinality(g.chats) <= MaxChats
  <2>1. CASE H!Expired(r)
    <3>1. g.chats = {c} /\ Cardinality({c}) = 1
      BY <1>3, <2>1, FS_Singleton
    <3> QED
      BY <1>0, <3>1
  <2>2. CASE ~H!Expired(r)
    <3>1. g.chats = S \cup {c}
      BY <1>3, <2>2
    <3>2. c \in S \/ ~(Cardinality(S) >= MaxChats)
      BY <1>1, <2>2, HeartConstants DEF H!Send, H!Flood
    <3>3. IsFiniteSet(S) /\ Cardinality(S) \in Nat
      BY <1>0, <1>2, FS_Subset, FS_CardinalityType
    <3>4. Cardinality(S \cup {c}) = IF c \in S THEN Cardinality(S) ELSE Cardinality(S) + 1
      BY <3>3, FS_AddElement
    <3> QED
      BY <1>0, <1>2, <3>1, <3>2, <3>3, <3>4
  <2> QED
    BY <2>1, <2>2
<1>9. \E Q \in SUBSET Chats :
        /\ Cardinality(Q) <= MaxChats
        /\ \A d \in Chats : snt[d] > 0 /\ snt[d] < g.first /\ snt[d] >= g.first - Window => d \in Q
        /\ \A d \in Chats : snt[d] <= g.first + Window
        /\ \A d \in Chats : snt[d] > 0 /\ snt[d] >= g.first => d \in g.chats
  <2>1. CASE H!Expired(r)
    <3>1. g.chats = {c} /\ g.first = now
      BY <1>3, <2>1
    <3>2. S = {} \/ now - f > Window
      BY <1>1, <2>1 DEF H!Expired
    <3>3. \A d \in Chats : sent[r][d] \in Nat /\ (sent[r][d] = 0 \/ sent[r][d] < now)
      <4> TAKE d \in Chats
      <4>1. sent[r][d] \in 0 .. now /\ f \in 0 .. now
        BY <1>2
      <4>2. CASE S = {}
        BY <1>2, <4>1, <4>2
      <4>3. CASE now - f > Window
        <5>1. sent[r][d] <= f + Window
          BY <1>2
        <5> QED
          BY <1>0, <4>1, <4>3, <5>1
      <4> QED
        BY <3>2, <4>2, <4>3
    <3>4. \A d \in Chats : snt[d] > 0 /\ snt[d] >= now => d \in {c}
      <4> SUFFICES ASSUME NEW d \in Chats, snt[d] > 0, snt[d] >= now, d # c PROVE FALSE
        OBVIOUS
      <4>1. snt[d] = sent[r][d]
        BY <1>6
      <4> QED
        BY <1>0, <3>3, <4>1
    <3>5. ASSUME NEW d \in Chats, snt[d] > 0, snt[d] < now, snt[d] >= now - Window PROVE d \in S
      <4>1. sent[r][d] = snt[d] /\ sent[r][d] \in Nat
        BY <1>0, <1>6, <3>3, <3>5
      <4>2. f \in Nat /\ (S = {} => f = 0)
        BY <1>2
      <4>3. sent[r][d] >= f
        BY <1>0, <3>2, <3>5, <4>1, <4>2
      <4> QED
        BY <1>2, <3>5, <4>1, <4>3
    <3>6. \A d \in Chats : snt[d] <= now + Window
      BY <1>0, <1>6
    <3> QED
      BY <1>2, <3>1, <3>4, <3>5, <3>6
  <2>2. CASE ~H!Expired(r)
    <3>1. g.chats = S \cup {c} /\ g.first = f
      BY <1>3, <2>2
    <3>2. ~(now - f > Window)
      BY <1>1, <2>2 DEF H!Expired
    <3>3. f \in 0 .. now /\ now \in Nat /\ now - f <= Window
      BY <1>0, <1>2, <3>2
    <3>4. PICK Q : Q = SentBefore(sent[r], f)
      OBVIOUS
    <3>5. Q \in SUBSET Chats /\ Cardinality(Q) <= MaxChats
      BY <1>2, <3>4 DEF SentBefore
    <3>6. ASSUME NEW d \in Chats
          PROVE  /\ snt[d] > 0 /\ snt[d] < f /\ snt[d] >= f - Window => d \in Q
                 /\ snt[d] <= f + Window
                 /\ snt[d] > 0 /\ snt[d] >= f => d \in S \cup {c}
      <4>1. CASE snt[d] = sent[r][d]
        BY <1>2, <3>4, <4>1 DEF SentBefore
      <4>2. CASE d = c /\ snt[c] = now
        BY <1>0, <3>3, <4>2
      <4> QED
        BY <1>6, <4>1, <4>2
    <3> QED
      BY <3>1, <3>5, <3>6
  <2> QED
    BY <2>1, <2>2
<1>10. PICK Q \in SUBSET Chats :
        /\ Cardinality(Q) <= MaxChats
        /\ \A d \in Chats : snt[d] > 0 /\ snt[d] < g.first /\ snt[d] >= g.first - Window => d \in Q
        /\ \A d \in Chats : snt[d] <= g.first + Window
        /\ \A d \in Chats : snt[d] > 0 /\ snt[d] >= g.first => d \in g.chats
  BY <1>9
<1>11. \A t \in Nat \ {0} : Cardinality(SentFrom(snt, t)) <= 2 * MaxChats
  <2> TAKE t \in Nat \ {0}
  <2>1. PICK old : old = sent[r]
    OBVIOUS
  <2>2. PICK n : n = now
    OBVIOUS
  <2>3. PICK S2, first : S2 = g.chats /\ first = g.first
    OBVIOUS
  <2>4. /\ n \in Nat \ {0} /\ old \in [Chats -> 0 .. n] /\ snt \in [Chats -> 0 .. n]
        /\ S2 \in SUBSET Chats /\ first \in 0 .. n
    BY <1>0, <1>2, <1>6, <1>7, <2>1, <2>2, <2>3
  <2>5. (\A d \in Chats : d # c => snt[d] = old[d]) /\ (snt[c] = old[c] \/ snt[c] = n)
    BY <1>6, <2>1, <2>2
  <2>6. Cardinality(S2) <= MaxChats /\ Cardinality(Q) <= MaxChats
    BY <1>8, <1>10, <2>3
  <2>7. /\ \A d \in Chats : snt[d] > 0 /\ snt[d] >= first => d \in S2
        /\ \A d \in Chats : snt[d] > 0 /\ snt[d] < first /\ snt[d] >= first - Window => d \in Q
    BY <1>10, <2>3
  <2>8. \A u \in Nat \ {0} : Cardinality(SentFrom(old, u)) <= 2 * MaxChats
    BY <1>2, <2>1
  <2>9. TwoWindows(n, old, snt, S2, Q, first, c)
    BY <2>4, <2>5, <2>6, <2>7, <2>8 DEF TwoWindows
  <2> QED
    BY <2>9, WindowsHold
<1>12. Cardinality(SentBefore(snt, g.first)) <= MaxChats
  <2>1. SentBefore(snt, g.first) \in SUBSET Q
    BY <1>10 DEF SentBefore
  <2> QED
    BY <1>0, <1>10, <2>1, FewInPart
<1>13. fanout'[r] = g /\ sent'[r] = snt /\ \A q \in Runs : q # r => fanout'[q] = fanout[q] /\ sent'[q] = sent[q]
  BY <1>4, <1>5, <1>6 DEF FanoutInv
<1>14. WindowOk(g, snt, now)
  BY <1>6, <1>7, <1>8, <1>10, <1>11, <1>12 DEF WindowOk
<1>15. \A q \in Runs : WindowOk(fanout'[q], sent'[q], now')
  <2> TAKE q \in Runs
  <2>1. WindowOk(fanout[q], sent[q], now) /\ now' = now
    BY <1>4 DEF FanoutInv
  <2>2. CASE q = r
    BY <1>13, <1>14, <2>1, <2>2
  <2>3. CASE q # r
    <3>1. fanout'[q] = fanout[q] /\ sent'[q] = sent[q]
      BY <1>13, <2>3
    <3> QED
      BY <2>1, <3>1
  <2> QED
    BY <2>2, <2>3
<1>16. fanout' \in [Runs -> [chats : SUBSET Chats, first : Nat]]
  BY <1>4, <1>7 DEF FanoutInv
<1> QED
  BY <1>0, <1>4, <1>6, <1>15, <1>16 DEF FanoutInv

\* A run that has sent nothing keeps within any window.
LEMMA NothingSent ==
  ASSUME NEW n \in Nat \ {0}
  PROVE  WindowOk(H!Never, H!Unsent, n)
<1>0. Window \in Nat /\ MaxChats \in Nat \ {0} /\ Cardinality({}) = 0
  BY HeartConstants, FS_EmptySet
<1>1. /\ H!Never.chats = {} /\ H!Never.first = 0
      /\ H!Unsent \in [Chats -> 0 .. n] /\ \A c \in Chats : H!Unsent[c] = 0
  BY DEF H!Unsent, H!Never
<1>2. SentBefore(H!Unsent, 0) = {}
  BY <1>1 DEF SentBefore
<1>3. \A t \in Nat \ {0} : SentFrom(H!Unsent, t) = {}
  BY <1>0, <1>1 DEF SentFrom
<1>4. \A t \in Nat \ {0} : Cardinality(SentFrom(H!Unsent, t)) <= 2 * MaxChats
  BY <1>0, <1>3
<1>5. \A c \in Chats : H!Unsent[c] <= H!Never.first + Window /\ ~(H!Unsent[c] > 0)
  BY <1>0, <1>1
<1>6. Cardinality(SentBefore(H!Unsent, H!Never.first)) <= MaxChats /\ Cardinality(H!Never.chats) <= MaxChats
  BY <1>0, <1>1, <1>2
<1>7. H!Never.chats \in SUBSET Chats /\ H!Never.first \in 0 .. n
  BY <1>1
<1> QED
  BY <1>1, <1>4, <1>5, <1>6, <1>7 DEF WindowOk

\* Every step keeps the windows.
LEMMA FanoutKept ==
  ASSUME FanoutInv, [H!Next]_H!heartVars
  PROVE  FanoutInv'
<1>0. H!Never \in [chats : SUBSET Chats, first : Nat] /\ H!Unsent \in [Chats -> Nat]
      /\ now \in Nat \ {0}
  BY DEF H!Never, H!Unsent, FanoutInv
<1>1. CASE \E r \in Runs, c \in Chats : H!Send(r, c)
  BY <1>1, FanoutSend
<1>2. CASE \E r \in Runs : H!Beat(r) \/ H!Ends(r)
  <2>1. PICK r \in Runs : /\ fanout' = [fanout EXCEPT ![r] = H!Never]
                          /\ sent' = [sent EXCEPT ![r] = H!Unsent] /\ now' = now
    BY <1>2 DEF H!Beat, H!Ends
  <2>2. /\ fanout' \in [Runs -> [chats : SUBSET Chats, first : Nat]]
        /\ sent' \in [Runs -> [Chats -> Nat]] /\ now' \in Nat \ {0}
        /\ fanout'[r] = H!Never /\ sent'[r] = H!Unsent
        /\ \A q \in Runs : q # r => fanout'[q] = fanout[q] /\ sent'[q] = sent[q]
    BY <1>0, <2>1 DEF FanoutInv
  <2>3. WindowOk(H!Never, H!Unsent, now)
    BY <1>0, NothingSent
  <2>4. \A q \in Runs : WindowOk(fanout'[q], sent'[q], now')
    BY <2>1, <2>2, <2>3 DEF FanoutInv
  <2> QED
    BY <2>2, <2>4 DEF FanoutInv
<1>3. CASE H!Restart
  <2>1. /\ fanout' = [r \in Runs |-> H!Never] /\ sent' = [r \in Runs |-> H!Unsent] /\ now' = now
    BY <1>3 DEF H!Restart
  <2>2. WindowOk(H!Never, H!Unsent, now)
    BY <1>0, NothingSent
  <2>3. \A q \in Runs : WindowOk(fanout'[q], sent'[q], now')
    BY <2>1, <2>2
  <2> QED
    BY <1>0, <2>1, <2>3 DEF FanoutInv
<1>4. CASE fanout' = fanout /\ sent' = sent /\ now' \in {now, now + 1}
  <2>1. now' \in Nat \ {0} /\ now' >= now
    BY <1>0, <1>4
  <2>2. ASSUME NEW q \in Runs PROVE WindowOk(fanout'[q], sent'[q], now')
    <3>1. WindowOk(fanout[q], sent[q], now)
      BY DEF FanoutInv
    <3>2. 0 .. now \subseteq 0 .. now'
      BY <1>0, <2>1
    <3>3. fanout[q].first \in 0 .. now' /\ sent[q] \in [Chats -> 0 .. now']
      BY <3>1, <3>2 DEF WindowOk
    <3> QED
      BY <1>4, <3>1, <3>3 DEF WindowOk
  <2> QED
    BY <1>4, <2>1, <2>2 DEF FanoutInv
<1> QED
  BY <1>1, <1>2, <1>3, <1>4 DEF H!Next, H!heartVars, H!Pass, H!Skip

\* The daily limit: whatever overlaps and however often the worker restarts, the
\* runs of a day keep to the limit for each worker that lived in it.
LEMMA SoulsKeepTheirQuota == H!Spec => []H!HeartbeatQuota
<1>1. H!Init => QuotaInv
  BY HeartConstants DEF H!Init, QuotaInv, H!DailyCount
<1>3. QuotaInv => H!HeartbeatQuota
  <2> SUFFICES ASSUME QuotaInv PROVE calls <= Limit * lives
    BY DEF H!HeartbeatQuota
  <2>1. /\ Limit \in Nat /\ calls \in Nat /\ lives \in Nat \ {0} /\ counter.count \in 0 .. Limit
        /\ H!DailyCount \in 0 .. Limit
    BY HeartConstants DEF QuotaInv, H!DailyCount
  <2>2. PICK q : q = Limit * (lives - 1) /\ q \in Int
    BY <2>1
  <2>3. Limit * lives = q + Limit
    <3>1. PICK m \in Nat : lives = m + 1
      <4>1. lives - 1 \in Nat /\ lives = (lives - 1) + 1
        BY <2>1
      <4> QED
        BY <4>1
    <3>2. Limit * (m + 1) = Limit * m + Limit
      BY <2>1
    <3>3. lives - 1 = m
      BY <2>1, <3>1
    <3> QED
      BY <2>2, <3>1, <3>2, <3>3
  <2> QED
    BY <2>1, <2>2, <2>3 DEF QuotaInv
<1> QED
  BY <1>1, <1>3, QuotaKept, PTL DEF H!Spec

\* The fan-out guard: any stretch as long as its window sees one content in at
\* most twice the chats that it allows.
LEMMA BroadcastsStayBounded == H!Spec => []H!BroadcastIsBounded
<1>2. H!Init => FanoutInv
  <2> SUFFICES ASSUME H!Init PROVE FanoutInv
    OBVIOUS
  <2>1. WindowOk(H!Never, H!Unsent, 1)
    BY NothingSent
  <2>2. H!Never \in [chats : SUBSET Chats, first : Nat] /\ H!Unsent \in [Chats -> Nat]
    BY DEF H!Never, H!Unsent
  <2> QED
    BY <2>1, <2>2 DEF H!Init, FanoutInv
<1>4. FanoutInv => H!BroadcastIsBounded
  <2> SUFFICES ASSUME FanoutInv, NEW r \in Runs, NEW t \in 1 .. now
               PROVE  Cardinality(SentFrom(sent[r], t)) <= 2 * MaxChats
    BY HeartConstants DEF H!BroadcastIsBounded, SentFrom
  <2>1. t \in Nat \ {0}
    BY DEF FanoutInv
  <2> QED
    BY <2>1 DEF FanoutInv, WindowOk
<1> QED
  BY <1>2, <1>4, FanoutKept, PTL DEF H!Spec

\* What a soul does unasked stays within the day's limit and the fan-out guard,
\* for any limits, any number of runs and however often the worker restarts.
THEOREM AutonomyStaysBounded == H!Spec => []AutonomyIsBounded
  BY SoulsKeepTheirQuota, BroadcastsStayBounded, PTL DEF AutonomyIsBounded

-----------------------------------------------------------------------------
(***************************************************************************)
(* Proposals: numbers without gaps, posts known to their rows.             *)
(***************************************************************************)

Creations == [at : {"idle", "increment", "insert", "post", "keep"}, num : Nat, alone : BOOLEAN]

ProposalTyped ==
  /\ nextNum \in Nat \ {0} /\ creator \in [N!Creators -> Creations]

\* A transaction read the counter as it was or is; one that is alone read it as
\* it is.
CreatorInv(c) ==
  /\ N!InTx(c) => creator[c].num \in 1 .. nextNum
  /\ N!InTx(c) /\ creator[c].alone =>
       /\ creator[c].num = nextNum
       /\ \A d \in N!Creators : d # c => ~N!InTx(d)
  /\ creator[c].at \in {"post", "keep"} => c \in ProposalJobs
  /\ creator[c].at = "keep" => creator[c].num \in posted

BeingKept(num) == \E c \in N!Creators : creator[c].at = "keep" /\ creator[c].num = num

ProposalInv ==
  /\ ProposalTyped
  /\ rows = 1 .. nextNum - 1 /\ refused = 0
  /\ \A c \in N!Creators : CreatorInv(c)
  /\ known \subseteq posted
  /\ \A num \in posted : num \in spoilt \/ num \in known \/ BeingKept(num)

\* A creator at rest is of the type.
LEMMA ProposalIdle == N!Idle \in Creations /\ N!Idle.at = "idle"
  BY DEF N!Idle, Creations

\* The step of one creator.
CreatorMove(c, r) == creator' = [creator EXCEPT ![c] = r] /\ r \in Creations

\* One creator moves, and the others do not.
LEMMA CreatorMoved ==
  ASSUME ProposalTyped, NEW c \in N!Creators, NEW r, CreatorMove(c, r)
  PROVE  /\ creator' \in [N!Creators -> Creations] /\ creator'[c] = r
         /\ \A d \in N!Creators : d # c => creator'[d] = creator[d]
  BY DEF ProposalTyped, CreatorMove

\* A step that leaves the counter and the rows: no transaction begins with it.
LEMMA CountKept ==
  ASSUME ProposalInv, NEW c \in N!Creators, NEW r, CreatorMove(c, r),
         nextNum' = nextNum, rows' = rows, refused' = refused,
         posted \subseteq posted', known' \subseteq posted', known \subseteq known',
         spoilt \subseteq spoilt',
         r.at \in {"increment", "insert"} =>
           N!InTx(c) /\ r.num = creator[c].num /\ r.alone = creator[c].alone,
         r.at \in {"post", "keep"} => c \in ProposalJobs,
         r.at = "keep" => r.num \in posted',
         \A num \in posted' : num \in posted \/ num \in spoilt' \/ (r.at = "keep" /\ r.num = num),
         creator[c].at = "keep" =>
           \/ creator[c].num \in spoilt' \/ creator[c].num \in known'
           \/ r.at = "keep" /\ r.num = creator[c].num
  PROVE  ProposalInv'
<1>1. /\ creator' \in [N!Creators -> Creations] /\ creator'[c] = r
      /\ \A d \in N!Creators : d # c => creator'[d] = creator[d]
  BY CreatorMoved DEF ProposalInv
<1>2. \A d \in N!Creators : N!InTx(d)' => N!InTx(d) /\ creator'[d].num = creator[d].num
                                           /\ creator'[d].alone = creator[d].alone
  <2> TAKE d \in N!Creators
  <2>1. CASE d = c
    BY <1>1, <2>1 DEF N!InTx
  <2>2. CASE d # c
    BY <1>1, <2>2 DEF N!InTx
  <2> QED
    BY <2>1, <2>2
<1>3. ASSUME NEW d \in N!Creators PROVE CreatorInv(d)'
  <2>1. CreatorInv(d)
    BY DEF ProposalInv
  <2>2. creator'[d].at \in {"post", "keep"} => d \in ProposalJobs
    BY <1>1, <2>1 DEF CreatorInv
  <2>3. creator'[d].at = "keep" => creator'[d].num \in posted'
    BY <1>1, <2>1 DEF CreatorInv
  <2>4. N!InTx(d)' => creator'[d].num \in 1 .. nextNum
    BY <1>2, <2>1 DEF CreatorInv
  <2>5. ASSUME N!InTx(d)', creator'[d].alone
        PROVE  creator'[d].num = nextNum /\ \A e \in N!Creators : e # d => ~N!InTx(e)'
    <3>1. N!InTx(d) /\ creator[d].alone /\ creator'[d].num = creator[d].num
      BY <1>2, <2>5
    <3> QED
      BY <1>2, <2>1, <3>1 DEF CreatorInv
  <2> QED
    BY <2>2, <2>3, <2>4, <2>5 DEF CreatorInv
<1>4. ASSUME NEW num \in posted' PROVE num \in spoilt' \/ num \in known' \/ BeingKept(num)'
  <2>1. CASE num \in spoilt' \/ (r.at = "keep" /\ r.num = num)
    BY <1>1, <2>1 DEF BeingKept
  <2>2. CASE num \in posted
    <3>1. CASE BeingKept(num)
      <4>1. PICK d \in N!Creators : creator[d].at = "keep" /\ creator[d].num = num
        BY <3>1 DEF BeingKept
      <4>2. CASE d = c
        BY <1>1, <4>1, <4>2 DEF BeingKept
      <4>3. CASE d # c
        BY <1>1, <4>1, <4>3 DEF BeingKept
      <4> QED
        BY <4>2, <4>3
    <3> QED
      BY <2>2, <3>1 DEF ProposalInv
  <2> QED
    BY <1>4, <2>1, <2>2
<1>5. ProposalTyped'
  BY <1>1 DEF ProposalInv, ProposalTyped
<1> QED
  BY <1>3, <1>4, <1>5 DEF ProposalInv

\* A transaction reads the counter.
LEMMA ProposalStarts ==
  ASSUME ProposalInv, NEW c \in N!Creators, N!Read(c)
  PROVE  ProposalInv'
<1>1. /\ creator[c].at = "idle"
      /\ creator' = [x \in N!Creators |->
           IF x = c THEN [at |-> "increment", num |-> nextNum,
                          alone |-> \A y \in N!Creators \ {c} : ~N!InTx(y)]
           ELSE [creator[x] EXCEPT !.alone = @ /\ ~N!InTx(x)]]
      /\ nextNum' = nextNum /\ rows' = rows /\ posted' = posted /\ known' = known
      /\ refused' = refused /\ spoilt' = spoilt
  BY DEF N!Read
<1>2. /\ creator \in [N!Creators -> Creations] /\ nextNum \in Nat \ {0}
      /\ \A d \in N!Creators : creator[d].at \in {"idle", "increment", "insert", "post", "keep"}
                                /\ creator[d].num \in Nat
  BY DEF ProposalInv, ProposalTyped, Creations
<1>3. /\ creator'[c].at = "increment" /\ creator'[c].num = nextNum
      /\ (creator'[c].alone => \A y \in N!Creators : y # c => ~N!InTx(y))
  BY <1>1
<1>4. ASSUME NEW d \in N!Creators, d # c
      PROVE  /\ creator'[d] \in Creations
             /\ creator'[d].at = creator[d].at /\ creator'[d].num = creator[d].num
             /\ (creator'[d].alone => ~N!InTx(d))
  <2>1. creator'[d] = [creator[d] EXCEPT !.alone = creator[d].alone /\ ~N!InTx(d)]
    BY <1>1, <1>4
  <2>2. creator[d] \in Creations
    BY <1>2
  <2>3. /\ creator'[d].at = creator[d].at /\ creator'[d].num = creator[d].num
        /\ creator'[d].alone = (creator[d].alone /\ ~N!InTx(d))
    BY <2>1, <2>2 DEF Creations
  <2>4. (creator[d].alone /\ ~N!InTx(d)) \in BOOLEAN
    OBVIOUS
  <2>5. creator'[d] \in Creations
    BY <2>1, <2>2, <2>4 DEF Creations
  <2> QED
    BY <2>3, <2>5
<1>5. creator' \in [N!Creators -> Creations]
  <2>1. ASSUME NEW d \in N!Creators PROVE creator'[d] \in Creations
    <3>1. CASE d = c
      <4>1. (\A y \in N!Creators \ {c} : ~N!InTx(y)) \in BOOLEAN
        OBVIOUS
      <4>2. PICK b : b = (\A y \in N!Creators \ {c} : ~N!InTx(y))
        OBVIOUS
      <4>3. creator'[c] = [at |-> "increment", num |-> nextNum, alone |-> b]
        BY <1>1, <4>2
      <4>4. b \in BOOLEAN
        BY <4>1, <4>2
      <4> QED
        BY <1>2, <3>1, <4>3, <4>4 DEF Creations
    <3>2. CASE d # c
      BY <1>4, <3>2
    <3> QED
      BY <3>1, <3>2
  <2>2. creator' = [x \in N!Creators |-> creator'[x]]
    BY <1>1
  <2> QED
    BY <2>1, <2>2
<1>6. \A d \in N!Creators : d # c => (N!InTx(d)' <=> N!InTx(d))
  BY <1>4 DEF N!InTx
<1>7. ASSUME NEW d \in N!Creators PROVE CreatorInv(d)'
  <2>1. CASE d = c
    <3>1. nextNum \in 1 .. nextNum
      BY <1>2
    <3>2. creator'[c].alone => \A e \in N!Creators : e # c => ~N!InTx(e)'
      BY <1>3, <1>6
    <3> QED
      BY <1>1, <1>3, <2>1, <3>1, <3>2 DEF CreatorInv
  <2>2. CASE d # c
    <3>1. CreatorInv(d)
      BY DEF ProposalInv
    <3>2. creator'[d].alone => ~N!InTx(d)'
      BY <1>4, <1>6, <2>2
    <3> QED
      BY <1>1, <1>4, <1>6, <2>2, <3>1, <3>2 DEF CreatorInv
  <2> QED
    BY <2>1, <2>2
<1>8. \A num : BeingKept(num) => BeingKept(num)'
  <2> SUFFICES ASSUME NEW num, NEW d \in N!Creators, creator[d].at = "keep", creator[d].num = num
               PROVE  BeingKept(num)'
    BY DEF BeingKept
  <2>1. d # c
    BY <1>1
  <2> QED
    BY <1>4, <2>1 DEF BeingKept
<1>9. ProposalTyped'
  BY <1>1, <1>2, <1>5 DEF ProposalTyped
<1> QED
  BY <1>1, <1>7, <1>8, <1>9 DEF ProposalInv

\* A transaction inserts its row, and commits or is refused.
LEMMA ProposalInserted ==
  ASSUME ProposalInv, NEW c \in N!Creators, N!Insert(c)
  PROVE  ProposalInv'
<1>1. PICK num : num = creator[c].num
  OBVIOUS
<1>2. /\ creator[c].at = "insert" /\ posted' = posted /\ known' = known /\ spoilt' = spoilt
  BY DEF N!Insert
<1>3. /\ creator \in [N!Creators -> Creations] /\ nextNum \in Nat \ {0} /\ creator[c] \in Creations
      /\ rows = 1 .. nextNum - 1 /\ refused = 0 /\ CreatorInv(c)
  BY DEF ProposalInv, ProposalTyped
<1>4. num \in 1 .. nextNum /\ N!InTx(c)
  BY <1>1, <1>2, <1>3 DEF CreatorInv, N!InTx
<1>5. CASE num \in rows
  <2>1. /\ refused' = refused + (IF creator[c].alone THEN 1 ELSE 0)
        /\ creator' = [creator EXCEPT ![c] = N!Idle] /\ nextNum' = nextNum /\ rows' = rows
    BY <1>1, <1>5 DEF N!Insert, N!Rest
  <2>2. ~creator[c].alone
    BY <1>1, <1>3, <1>4, <1>5 DEF CreatorInv
  <2>3. refused' = refused
    BY <1>3, <2>1, <2>2
  <2>4. CreatorMove(c, N!Idle) /\ N!Idle.at = "idle"
    BY <2>1, ProposalIdle DEF CreatorMove
  <2>5. known \subseteq posted
    BY DEF ProposalInv
  <2> QED
    BY <1>2, <2>1, <2>3, <2>4, <2>5, CountKept
<1>6. CASE num \notin rows
  <2>1. PICK r : /\ CreatorMove(c, r) /\ r.at \in {"idle", "post"}
                 /\ (r.at = "post" => c \in ProposalJobs)
    <3>1. CASE c \in ProposalJobs
      <4>1. PICK r : r = [creator[c] EXCEPT !.at = "post"]
        OBVIOUS
      <4>2. creator' = [creator EXCEPT ![c].at = "post"]
        BY <1>1, <1>6, <3>1 DEF N!Insert, N!Go
      <4>3. creator' = [creator EXCEPT ![c] = r]
        BY <4>1, <4>2
      <4>4. r \in Creations /\ r.at = "post"
        BY <1>3, <4>1 DEF Creations
      <4> QED
        BY <3>1, <4>3, <4>4 DEF CreatorMove
    <3>2. CASE c \notin ProposalJobs
      <4>1. creator' = [creator EXCEPT ![c] = N!Idle]
        BY <1>1, <1>6, <3>2 DEF N!Insert, N!Rest
      <4> QED
        BY <4>1, ProposalIdle DEF CreatorMove
    <3> QED
      BY <3>1, <3>2
  <2>2. rows' = rows \cup {num} /\ nextNum' = nextNum + 1 /\ refused' = refused
    BY <1>1, <1>6 DEF N!Insert, N!Moved
  <2>3. num = nextNum
    BY <1>3, <1>4, <1>6
  <2>4. rows' = 1 .. nextNum' - 1
    BY <1>3, <2>2, <2>3
  <2>5. /\ creator' \in [N!Creators -> Creations] /\ creator'[c] = r
        /\ \A d \in N!Creators : d # c => creator'[d] = creator[d]
    BY <2>1, CreatorMoved DEF ProposalInv
  <2>6. ASSUME NEW d \in N!Creators PROVE CreatorInv(d)'
    <3>1. CASE d = c
      BY <2>1, <2>5, <3>1 DEF CreatorInv, N!InTx
    <3>2. CASE d # c
      <4>1. CreatorInv(d) /\ creator'[d] = creator[d]
        BY <2>5, <3>2 DEF ProposalInv
      <4>2. 1 .. nextNum \subseteq 1 .. nextNum'
        BY <1>3, <2>2
      <4>3. N!InTx(d) => ~creator[d].alone
        BY <1>4, <3>2, <4>1 DEF CreatorInv
      <4> QED
        BY <1>2, <4>1, <4>2, <4>3 DEF CreatorInv, N!InTx
    <3> QED
      BY <3>1, <3>2
  <2>7. \A n : BeingKept(n) => BeingKept(n)'
    <3> SUFFICES ASSUME NEW n, NEW d \in N!Creators, creator[d].at = "keep", creator[d].num = n
                 PROVE  BeingKept(n)'
      BY DEF BeingKept
    <3>1. d # c
      BY <1>2
    <3> QED
      BY <2>5, <3>1 DEF BeingKept
  <2>8. ProposalTyped' /\ refused' = 0
    BY <1>3, <2>2, <2>5 DEF ProposalTyped
  <2> QED
    BY <1>2, <2>4, <2>6, <2>7, <2>8 DEF ProposalInv
<1> QED
  BY <1>5, <1>6

\* The other steps of one creator.
LEMMA ProposalGoesOn ==
  ASSUME ProposalInv, NEW c \in N!Creators,
         N!Increment(c) \/ N!TxFails(c) \/ N!Post(c) \/ N!Keep(c)
  PROVE  ProposalInv'
<1>0. /\ creator[c] \in Creations /\ CreatorInv(c) /\ known \subseteq posted
      /\ nextNum' = nextNum /\ rows' = rows /\ refused' = refused
  BY DEF ProposalInv, ProposalTyped, N!Increment, N!TxFails, N!Post, N!Keep
<1>1. CASE N!Increment(c)
  <2>1. PICK r : r = [creator[c] EXCEPT !.at = "insert"]
    OBVIOUS
  <2>2. /\ creator' = [creator EXCEPT ![c].at = "insert"] /\ creator[c].at = "increment"
        /\ posted' = posted /\ known' = known /\ spoilt' = spoilt
    BY <1>1 DEF N!Increment, N!Go
  <2>3. CreatorMove(c, r) /\ r.at = "insert" /\ r.num = creator[c].num /\ r.alone = creator[c].alone
    BY <1>0, <2>1, <2>2 DEF CreatorMove, Creations
  <2>4. N!InTx(c)
    BY <2>2 DEF N!InTx
  <2> QED
    BY <1>0, <2>2, <2>3, <2>4, CountKept
<1>2. CASE N!TxFails(c)
  <2>1. /\ creator' = [creator EXCEPT ![c] = N!Idle] /\ creator[c].at # "keep"
        /\ posted' = posted /\ known' = known /\ spoilt' = spoilt
    BY <1>2 DEF N!TxFails, N!Rest, N!InTx
  <2>2. CreatorMove(c, N!Idle) /\ N!Idle.at = "idle"
    BY <2>1, ProposalIdle DEF CreatorMove
  <2> QED
    BY <1>0, <2>1, <2>2, CountKept
<1>3. CASE N!Post(c)
  <2>1. PICK num : num = creator[c].num
    OBVIOUS
  <2>2. creator[c].at = "post" /\ known' = known /\ c \in ProposalJobs
    BY <1>0, <1>3 DEF N!Post, CreatorInv
  <2>3. CASE posted' = posted \cup {num} /\ N!Go(c, "keep") /\ spoilt' = spoilt
    <3>1. PICK r : r = [creator[c] EXCEPT !.at = "keep"]
      OBVIOUS
    <3>2. CreatorMove(c, r) /\ r.at = "keep" /\ r.num = num
      BY <1>0, <2>1, <2>3, <3>1 DEF CreatorMove, Creations, N!Go
    <3>3. /\ posted \subseteq posted' /\ num \in posted' /\ known \subseteq posted'
          /\ \A n \in posted' : n \in posted \/ num = n
      BY <1>0, <2>3
    <3> QED
      BY <1>0, <2>2, <2>3, <3>2, <3>3, CountKept
  <2>4. CASE posted' \in {posted, posted \cup {num}} /\ N!Rest(c) /\ spoilt' = spoilt \cup {num}
    <3>1. CreatorMove(c, N!Idle) /\ N!Idle.at = "idle"
      BY <2>4, ProposalIdle DEF CreatorMove, N!Rest
    <3>2. posted \subseteq posted' /\ \A n \in posted' : n \in posted \/ n \in spoilt'
      BY <2>4
    <3>3. known' \subseteq posted' /\ known \subseteq known' /\ spoilt \subseteq spoilt'
      BY <1>0, <2>2, <2>4, <3>2
    <3> QED
      BY <1>0, <2>2, <3>1, <3>2, <3>3, CountKept
  <2> QED
    BY <1>3, <2>1, <2>3, <2>4 DEF N!Post
<1>4. CASE N!Keep(c)
  <2>1. /\ creator[c].at = "keep" /\ posted' = posted /\ creator' = [creator EXCEPT ![c] = N!Idle]
        /\ \/ known' = known \cup {creator[c].num} /\ spoilt' = spoilt
           \/ known' = known /\ spoilt' = spoilt \cup {creator[c].num}
    BY <1>4 DEF N!Keep, N!Rest
  <2>2. CreatorMove(c, N!Idle) /\ N!Idle.at = "idle"
    BY <2>1, ProposalIdle DEF CreatorMove
  <2>3. /\ known' \subseteq posted' /\ known \subseteq known' /\ spoilt \subseteq spoilt'
        /\ creator[c].num \in spoilt' \/ creator[c].num \in known'
    BY <1>0, <2>1 DEF CreatorInv
  <2> QED
    BY <1>0, <2>1, <2>2, <2>3, CountKept
<1> QED
  BY <1>1, <1>2, <1>3, <1>4

\* A process dies with the creations it has under way.
LEMMA ProposalDies ==
  ASSUME ProposalInv, NEW gone, N!Dies(gone)
  PROVE  ProposalInv'
<1>1. /\ creator' = [c \in N!Creators |-> IF c \in gone THEN N!Idle ELSE creator[c]]
      /\ spoilt' = spoilt \cup {creator[c].num : c \in {x \in gone : creator[x].at \in {"post", "keep"}}}
      /\ nextNum' = nextNum /\ rows' = rows /\ posted' = posted /\ known' = known /\ refused' = refused
  BY DEF N!Dies
<1>2. \A c \in N!Creators : creator'[c] = IF c \in gone THEN N!Idle ELSE creator[c]
  BY <1>1
<1>3. creator' \in [N!Creators -> Creations]
  BY <1>1, ProposalIdle DEF ProposalInv, ProposalTyped
<1>4. \A c \in N!Creators : creator'[c].at # "idle" => c \notin gone /\ creator'[c] = creator[c]
  BY <1>2, ProposalIdle
<1>5. ASSUME NEW c \in N!Creators PROVE CreatorInv(c)'
  <2>1. CASE creator'[c].at = "idle"
    BY <2>1 DEF CreatorInv, N!InTx
  <2>2. CASE creator'[c].at # "idle"
    <3>1. CreatorInv(c) /\ creator'[c] = creator[c]
      BY <1>4, <2>2 DEF ProposalInv
    <3>2. \A d \in N!Creators : N!InTx(d)' => N!InTx(d)
      BY <1>4 DEF N!InTx
    <3> QED
      BY <1>1, <3>1, <3>2 DEF CreatorInv, N!InTx
  <2> QED
    BY <2>1, <2>2
<1>6. ASSUME NEW num \in posted PROVE num \in spoilt' \/ num \in known' \/ BeingKept(num)'
  <2>1. CASE BeingKept(num)
    <3>1. PICK c \in N!Creators : creator[c].at = "keep" /\ creator[c].num = num
      BY <2>1 DEF BeingKept
    <3>2. CASE c \in gone
      BY <1>1, <3>1, <3>2
    <3>3. CASE c \notin gone
      BY <1>2, <3>1, <3>3 DEF BeingKept
    <3> QED
      BY <3>2, <3>3
  <2> QED
    BY <1>1, <2>1 DEF ProposalInv
<1> QED
  BY <1>1, <1>3, <1>5, <1>6 DEF ProposalInv, ProposalTyped

\* The counter, the rows and the posts, over overlaps, failures and deaths.
LEMMA ProposalInvariant == N!Spec => []ProposalInv
<1>1. N!Init => ProposalInv
  <2> SUFFICES ASSUME N!Init PROVE ProposalInv
    OBVIOUS
  <2>1. /\ creator \in [N!Creators -> Creations] /\ \A c \in N!Creators : creator[c].at = "idle"
    BY ProposalIdle DEF N!Init
  <2>2. rows = 1 .. nextNum - 1 /\ nextNum \in Nat \ {0} /\ refused = 0 /\ known = {} /\ posted = {}
    BY DEF N!Init
  <2> QED
    BY <2>1, <2>2 DEF ProposalInv, ProposalTyped, CreatorInv, N!InTx
<1>2. ProposalInv /\ [N!Next]_N!proposalVars => ProposalInv'
  <2> SUFFICES ASSUME ProposalInv, [N!Next]_N!proposalVars PROVE ProposalInv'
    OBVIOUS
  <2>1. CASE N!Next
    BY <2>1, ProposalStarts, ProposalInserted, ProposalGoesOn, ProposalDies DEF N!Next
  <2>2. CASE UNCHANGED N!proposalVars
    BY <2>2 DEF N!proposalVars, ProposalInv, ProposalTyped, CreatorInv, N!InTx, BeingKept
  <2> QED
    BY <2>1, <2>2
<1> QED
  BY <1>1, <1>2, PTL DEF N!Spec

\* Numbers have no gaps (tc.ts, nextTcNumUnsafe): a creation is refused, without
\* a failure, only when another overlapped it.
LEMMA RefusalsAreOverlaps == N!Spec => []N!RefusedByOverlapOnly
<1>1. ProposalInv => N!RefusedByOverlapOnly
  BY DEF ProposalInv, N!RefusedByOverlapOnly
<1> QED
  BY <1>1, ProposalInvariant, PTL

\* A post in the group is known to its row (updateTcTopMessageId), is about to
\* be, or met a failure or a crash.
LEMMA PostsKeepTheirRows == N!Spec => []N!PostsAreKnown
<1>1. ProposalInv => N!PostsAreKnown
  <2> SUFFICES ASSUME ProposalInv, NEW num \in posted \cup known, num \notin spoilt, num \notin known
               PROVE  \E c \in ProposalJobs : creator[c].at = "keep" /\ creator[c].num = num
    BY DEF ProposalInv, N!PostsAreKnown
  <2>1. PICK c \in N!Creators : creator[c].at = "keep" /\ creator[c].num = num
    BY DEF ProposalInv, BeingKept
  <2> QED
    BY <2>1 DEF ProposalInv, CreatorInv
<1> QED
  BY <1>1, ProposalInvariant, PTL

\* Numbers without gaps and posts known to their rows, for any number of jobs
\* and CLI processes at once.
THEOREM NumbersFollowOn == N!Spec => []NumbersAndPostsAgree
  BY RefusalsAreOverlaps, PostsKeepTheirRows, PTL DEF NumbersAndPostsAgree

-----------------------------------------------------------------------------
(***************************************************************************)
(* Meetups: rows, calendar and wiki page say the same.                     *)
(***************************************************************************)

MeetStages == {"idle", "insert", "list", "write", "delete", "mark", "retitle", "edit"}
MeetSessions == [at : MeetStages, id : {0} \cup M!Ids, title : {0} \cup Titles, listed : M!Rows]

MeetupsTyped ==
  /\ created \in 0 .. MaxMeetups
  /\ row \in M!Rows /\ page \in M!Rows
  /\ event \in [M!Ids -> [there : BOOLEAN, title : {0} \cup Titles]]
  /\ session \in [M!Sessions -> MeetSessions]

\* A session works on a meetup that exists, and one that is about to insert the row
\* is alone with it.
SessionsInv ==
  \A s \in M!Sessions :
    /\ session[s].at # "idle" => session[s].id \in 1 .. created
    /\ session[s].at \in {"retitle", "edit"} => s \in MeetupClis
    /\ session[s].at = "insert" => row[session[s].id] = M!NoRow
    /\ session[s].at = "insert" =>
         \A t \in M!Sessions : session[t].at # "idle" /\ session[t].id = session[s].id => t = s

\* A meetup that was never begun is nowhere.
FreshInv ==
  \A i \in M!Ids : i > created => row[i] = M!NoRow /\ event[i] = M!NoEvent

\* Row and event of one meetup, with whoever is between the one and the other.
CalendarInv(i) ==
  /\ row[i].status = "none" /\ event[i].there =>
       \E s \in M!Sessions : session[s].at = "insert" /\ session[s].id = i
  /\ row[i].status = "confirmed" =>
       \/ event[i].there
       \/ \E s \in M!Sessions : session[s].at = "mark" /\ session[s].id = i
  /\ row[i].status = "cancelled" => ~event[i].there
  /\ \A s \in M!Sessions : session[s].at = "mark" /\ session[s].id = i => ~event[i].there
  /\ \A s \in M!Sessions :
       session[s].at = "insert" /\ session[s].id = i =>
         row[i] = M!NoRow /\ event[i].there /\ event[i].title = 0

\* Only one edits a meetup, and the titles differ while it is between the two.
TitlesInv(i) ==
  /\ \A s, t \in M!Sessions : M!Editing(s, i) /\ M!Editing(t, i) => s = t
  /\ \A s \in M!Sessions :
       session[s].at = "edit" /\ session[s].id = i => event[i].title = session[s].title
  /\ \/ event[i].title = row[i].title
     \/ \E s \in M!Sessions : session[s].at = "edit" /\ session[s].id = i

\* The page is the rows, or somebody is to make it so.
PageInv ==
  smudged \/
    /\ \A s, t \in M!Sessions : M!Refreshing(s) /\ M!Refreshing(t) => s = t
    /\ \/ \E s \in M!Sessions : session[s].at = "list"
       \/ \E s \in M!Sessions : M!Refreshing(s) /\ session[s].listed = row
       \/ page = row /\ (\A s \in M!Sessions : ~M!Refreshing(s))

MeetupsInv ==
  /\ MeetupsTyped /\ SessionsInv /\ FreshInv /\ PageInv
  /\ \A i \in M!Ids \ hurt : CalendarInv(i) /\ TitlesInv(i)

\* Nothing is planned at first.
LEMMA MeetupsInit == M!Init => MeetupsInv
<1> SUFFICES ASSUME M!Init PROVE MeetupsInv
  OBVIOUS
<1> USE DEF M!Init, M!NoPage, M!NoRow, M!NoEvent, M!Idle
<1>1. MeetupsTyped
  BY Meetings DEF MeetupsTyped, M!MeetupsAssumption, MeetSessions, MeetStages, M!Rows
<1>2. \A s \in M!Sessions : session[s].at = "idle"
  OBVIOUS
<1>3. SessionsInv /\ FreshInv /\ PageInv
  BY <1>2 DEF SessionsInv, FreshInv, PageInv, M!Refreshing
<1>4. \A i \in M!Ids : CalendarInv(i) /\ TitlesInv(i)
  BY <1>2 DEF CalendarInv, TitlesInv, M!Editing
<1> QED
  BY <1>1, <1>3, <1>4 DEF MeetupsInv

\* A session at rest is of the type.
LEMMA MeetIdle == M!Idle \in MeetSessions /\ M!Idle.at = "idle"
  BY DEF M!Idle, MeetSessions, MeetStages, M!NoPage, M!NoRow, M!Rows

\* A step that leaves a meetup's row and event, and those at work on them, as they were.
LEMMA MeetupLeft ==
  ASSUME NEW i \in M!Ids, CalendarInv(i), TitlesInv(i), row'[i] = row[i], event'[i] = event[i],
         \A t \in M!Sessions :
           \/ session'[t] = session[t]
           \/ /\ session[t].at \in {"insert", "mark", "retitle", "edit"} => session[t].id # i
              /\ session'[t].at \in {"insert", "mark", "retitle", "edit"} => session'[t].id # i
  PROVE  CalendarInv(i)' /\ TitlesInv(i)'
<1> DEFINE on == {"insert", "mark", "retitle", "edit"}
<1>1. \A t \in M!Sessions :
        (session[t].at \in on /\ session[t].id = i) \/ (session'[t].at \in on /\ session'[t].id = i)
          => session'[t] = session[t]
  OBVIOUS
<1>2. CalendarInv(i)'
  <2>1. row'[i].status = "none" /\ event'[i].there =>
          \E s \in M!Sessions : session'[s].at = "insert" /\ session'[s].id = i
    BY <1>1 DEF CalendarInv
  <2>2. row'[i].status = "confirmed" =>
          \/ event'[i].there
          \/ \E s \in M!Sessions : session'[s].at = "mark" /\ session'[s].id = i
    BY <1>1 DEF CalendarInv
  <2>3. \A s \in M!Sessions : session'[s].at = "mark" /\ session'[s].id = i => ~event'[i].there
    BY <1>1 DEF CalendarInv
  <2>4. \A s \in M!Sessions :
          session'[s].at = "insert" /\ session'[s].id = i =>
            row'[i] = M!NoRow /\ event'[i].there /\ event'[i].title = 0
    BY <1>1 DEF CalendarInv
  <2> QED
    BY <2>1, <2>2, <2>3, <2>4 DEF CalendarInv, M!NoRow
<1>3. TitlesInv(i)'
  <2>1. \A s \in M!Sessions : M!Editing(s, i) \/ M!Editing(s, i)' => session'[s] = session[s]
    BY <1>1 DEF M!Editing
  <2>2. \A s, t \in M!Sessions : M!Editing(s, i)' /\ M!Editing(t, i)' => s = t
    BY <2>1 DEF TitlesInv, M!Editing
  <2>3. \A s \in M!Sessions :
          session'[s].at = "edit" /\ session'[s].id = i => event'[i].title = session'[s].title
    BY <1>1 DEF TitlesInv
  <2>4. \/ event'[i].title = row'[i].title
        \/ \E s \in M!Sessions : session'[s].at = "edit" /\ session'[s].id = i
    BY <1>1 DEF TitlesInv
  <2> QED
    BY <2>2, <2>3, <2>4 DEF TitlesInv
<1> QED
  BY <1>2, <1>3

\* One session moves, and the others do not.
LEMMA MeetMoved ==
  ASSUME session \in [M!Sessions -> MeetSessions], NEW s \in M!Sessions, NEW stage \in MeetSessions,
         session' = [session EXCEPT ![s] = stage]
  PROVE  /\ session' \in [M!Sessions -> MeetSessions] /\ session'[s] = stage
         /\ \A t \in M!Sessions : t # s => session'[t] = session[t]
OBVIOUS

\* What the steps of one session have in common: an identifier j that it works on
\* before, after, or both, and nothing else touched.
MeetStep(s, j) ==
  /\ s \in M!Sessions /\ j \in 1 .. created'
  /\ created' \in 0 .. MaxMeetups /\ (created' = created \/ created' = created + 1)
  /\ session' \in [M!Sessions -> MeetSessions]
  /\ \A t \in M!Sessions : t # s => session'[t] = session[t]
  /\ session[s].at = "idle" \/ session[s].id = j
  /\ session'[s].at = "idle" \/ session'[s].id = j
  /\ session[s].at = "idle" => j = created + 1 \/ row[j] # M!NoRow
  /\ session'[s].at = "insert" => created' = created + 1 /\ j = created' /\ row'[j] = row[j]
  /\ session'[s].at \in {"retitle", "edit"} => s \in MeetupClis
  /\ \A i \in M!Ids : i # j => row'[i] = row[i] /\ event'[i] = event[i]
  /\ created' = created \/ j = created'
  /\ hurt \subseteq hurt' /\ hurt' \subseteq hurt \cup {j}

\* What has nothing to do with the step's own meetup stays; that one is for the steps
\* themselves.
LEMMA MeetStepKeeps ==
  ASSUME MeetupsInv, NEW s, NEW j, MeetStep(s, j)
  PROVE  /\ SessionsInv'
         /\ \A i \in M!Ids : i > created' => row'[i] = M!NoRow /\ event'[i] = M!NoEvent
         /\ \A i \in M!Ids \ hurt' : i # j => CalendarInv(i)' /\ TitlesInv(i)'
<1> USE DEF MeetStep
<1>0. MeetupsTyped /\ SessionsInv /\ FreshInv /\ created \in Nat /\ created' \in Nat /\ M!Ids = 1 .. MaxMeetups
      /\ MaxMeetups \in Nat
  BY Meetings DEF MeetupsInv, MeetupsTyped, M!Ids, M!MeetupsAssumption
<1>1. SessionsInv'
  <2>1. \A t \in M!Sessions : session'[t].at # "idle" => session'[t].id \in 1 .. created'
    BY <1>0 DEF SessionsInv
  <2>2. \A t \in M!Sessions : session'[t].at \in {"retitle", "edit"} => t \in MeetupClis
    BY <1>0 DEF SessionsInv
  <2>3. ASSUME NEW t \in M!Sessions, session'[t].at = "insert",
               NEW q \in M!Sessions, session'[q].at # "idle", session'[q].id = session'[t].id
        PROVE  q = t
    <3>1. CASE t = s
      <4>1. session'[t].id = created + 1
        BY <3>1, <2>3, <1>0
      <4>2. q # s => session[q].id \in 1 .. created
        BY <2>3, <1>0 DEF SessionsInv
      <4> QED
        BY <4>1, <4>2, <3>1, <2>3, <1>0
    <3>2. CASE t # s
      <4>1. session[t].at = "insert" /\ session[t].id \in 1 .. created /\ session'[t].id = session[t].id
        BY <3>2, <2>3, <1>0 DEF SessionsInv
      <4>2. CASE q = s
        <5>1. j = session[t].id /\ j # created + 1
          BY <4>1, <4>2, <2>3, <1>0
        <5>2. session[s].at = "idle" /\ row[j] = M!NoRow
          BY <5>1, <4>1, <3>2, <1>0 DEF SessionsInv
        <5> QED
          BY <5>1, <5>2
      <4>3. CASE q # s
        BY <4>1, <4>3, <2>3, <3>2, <1>0 DEF SessionsInv
      <4> QED
        BY <4>2, <4>3
    <3> QED
      BY <3>1, <3>2
  <2>4. ASSUME NEW t \in M!Sessions, session'[t].at = "insert" PROVE row'[session'[t].id] = M!NoRow
    <3>1. CASE t = s
      BY <3>1, <2>4, <1>0 DEF FreshInv
    <3>2. CASE t # s
      <4>1. /\ session[t].at = "insert" /\ session[t].id \in 1 .. created /\ row[session[t].id] = M!NoRow
            /\ session'[t].id = session[t].id
        BY <3>2, <2>4, <1>0 DEF SessionsInv
      <4>2. j # session[t].id
        BY <4>1, <3>2, <1>0 DEF SessionsInv
      <4> QED
        BY <4>1, <4>2, <1>0
    <3> QED
      BY <3>1, <3>2
  <2> QED
    BY <2>1, <2>2, <2>3, <2>4 DEF SessionsInv
<1>2. \A i \in M!Ids : i > created' => row'[i] = M!NoRow /\ event'[i] = M!NoEvent
  BY <1>0 DEF FreshInv
<1>3. ASSUME NEW i \in M!Ids \ hurt', i # j PROVE CalendarInv(i)' /\ TitlesInv(i)'
  <2>1. CalendarInv(i) /\ TitlesInv(i)
    BY <1>3 DEF MeetupsInv
  <2>2. \A t \in M!Sessions :
           \/ session'[t] = session[t]
           \/ /\ session[t].at \in {"insert", "mark", "retitle", "edit"} => session[t].id # i
              /\ session'[t].at \in {"insert", "mark", "retitle", "edit"} => session'[t].id # i
    BY <1>3
  <2> QED
    BY <2>1, <2>2, <1>3, MeetupLeft
<1> QED
  BY <1>1, <1>2, <1>3

\* Where a meetup is not hurt: what a step makes of its own.
LEMMA MeetOwn ==
  ASSUME MeetupsInv, NEW s, NEW j, MeetStep(s, j), MeetupsTyped', FreshInv',
         j \notin hurt' => CalendarInv(j)' /\ TitlesInv(j)', PageInv'
  PROVE  MeetupsInv'
<1>1. SessionsInv' /\ \A i \in M!Ids \ hurt' : i # j => CalendarInv(i)' /\ TitlesInv(i)'
  BY MeetStepKeeps
<1>2. M!Ids' = M!Ids
  BY DEF M!Ids
<1> QED
  BY <1>1, <1>2 DEF MeetupsInv

\* A session that does not touch the rows, and does not refresh the page, leaves it
\* to whoever does.
LEMMA PageLeft ==
  ASSUME MeetupsInv, NEW s \in M!Sessions, UNCHANGED <<row, page>>, smudged => smudged',
         \A t \in M!Sessions : t # s => session'[t] = session[t],
         session[s].at \notin {"list", "write"}, session'[s].at \notin {"list", "write"}
  PROVE  PageInv'
BY DEF MeetupsInv, PageInv, M!Refreshing

\* A session that has touched the rows is about to read them for the page.
LEMMA PageAwaited ==
  ASSUME MeetupsInv, NEW s \in M!Sessions, page' = page, smudged => smudged',
         \A t \in M!Sessions : t # s => session'[t] = session[t],
         session[s].at # "write", session'[s].at = "list"
  PROVE  PageInv'
BY DEF MeetupsInv, PageInv, M!Refreshing

\* A meetup and its event are begun.
LEMMA MeetCreated ==
  ASSUME MeetupsInv, NEW s \in M!Sessions, M!Create(s) PROVE MeetupsInv'
<1>j. PICK j : j = created + 1
  OBVIOUS
<1> DEFINE placed == [event EXCEPT ![j] = [there |-> TRUE, title |-> 0]]
           stage == [session[s] EXCEPT !.at = "insert", !.id = j]
<1>0. /\ MeetupsTyped /\ SessionsInv /\ FreshInv /\ created \in Nat /\ M!Ids = 1 .. MaxMeetups
      /\ MaxMeetups \in Nat
  BY Meetings DEF MeetupsInv, MeetupsTyped, M!Ids, M!MeetupsAssumption
<1>1. /\ session[s].at = "idle" /\ created' = j /\ j \in M!Ids /\ UNCHANGED <<row, page, smudged>>
      /\ \/ event' = placed /\ session' = [session EXCEPT ![s] = stage] /\ hurt' = hurt
         \/ (event' = event \/ event' = placed) /\ hurt' = hurt \cup {j} /\ session' = session
  <2>1. j \in M!Ids
    BY <1>0, <1>j DEF M!Create
  <2> QED
    BY <2>1, <1>0, <1>j DEF M!Create, MeetupsTyped
<1>2. /\ placed \in [M!Ids -> [there : BOOLEAN, title : {0} \cup Titles]]
      /\ placed[j].there /\ placed[j].title = 0 /\ \A i \in M!Ids : i # j => placed[i] = event[i]
  BY <1>0, <1>1 DEF MeetupsTyped
<1>3. stage \in MeetSessions /\ stage.at = "insert" /\ stage.id = j
  <2>1. session[s] \in MeetSessions /\ j \in {0} \cup M!Ids
    BY <1>0, <1>1 DEF MeetupsTyped
  <2> QED
    BY <2>1 DEF MeetSessions, MeetStages
<1>4. /\ session' \in [M!Sessions -> MeetSessions] /\ \A t \in M!Sessions : t # s => session'[t] = session[t]
      /\ session'[s] = session[s] \/ session'[s] = stage
  BY <1>0, <1>1, <1>3, MeetMoved DEF MeetupsTyped
<1>5. row[j] = M!NoRow /\ event[j] = M!NoEvent
  BY <1>0, <1>1, <1>j DEF FreshInv
<1>a. event' = event \/ event' = placed
  BY <1>1
<1>b. /\ created' \in 0 .. MaxMeetups /\ j \in 1 .. created'
      /\ \A i \in M!Ids : i # j => row'[i] = row[i] /\ event'[i] = event[i]
  BY <1>0, <1>1, <1>2, <1>a, <1>j
<1>c. /\ session'[s].at = "idle" \/ session'[s].id = j
      /\ session'[s].at \in {"idle", "insert"}
      /\ hurt \subseteq hurt' /\ hurt' \subseteq hurt \cup {j}
  BY <1>1, <1>3, <1>4
<1>6. MeetStep(s, j)
  BY <1>0, <1>1, <1>4, <1>b, <1>c, <1>j DEF MeetStep
<1>7. MeetupsTyped'
  <2>1. event' \in [M!Ids -> [there : BOOLEAN, title : {0} \cup Titles]]
    BY <1>0, <1>2, <1>a DEF MeetupsTyped
  <2> QED
    BY <2>1, <1>0, <1>1, <1>4, <1>b DEF MeetupsTyped, M!Ids, M!Rows, M!Sessions
<1>8. FreshInv'
  BY <1>0, <1>1, <1>2, <1>j DEF FreshInv
<1>9. ASSUME j \notin hurt' PROVE CalendarInv(j)' /\ TitlesInv(j)'
  <2>1. event' = placed /\ session'[s] = stage
    BY <1>9, <1>1, <1>0 DEF MeetupsTyped
  <2>2. \A t \in M!Sessions : t # s => session[t].at = "idle" \/ session'[t].id # j
    BY <1>0, <1>4, <1>j DEF SessionsInv
  <2>3. row'[j] = [status |-> "none", title |-> 0]
    BY <1>1, <1>5 DEF M!NoRow
  <2>4. CalendarInv(j)'
    <3>1. \A t \in M!Sessions : session'[t].at = "mark" => session'[t].id # j
      BY <2>1, <2>2, <1>3, <1>4
    <3>2. row'[j].status = "none" /\ row'[j] = M!NoRow /\ event'[j].there /\ event'[j].title = 0
      BY <2>1, <2>3, <1>2 DEF M!NoRow
    <3>3. \E t \in M!Sessions : session'[t].at = "insert" /\ session'[t].id = j
      BY <2>1, <1>3
    <3> QED
      BY <3>1, <3>2, <3>3 DEF CalendarInv
  <2>5. TitlesInv(j)'
    <3>1. \A t \in M!Sessions : session'[t].at \in {"retitle", "edit"} => session'[t].id # j
      BY <2>1, <2>2, <1>3, <1>4
    <3>2. event'[j].title = row'[j].title
      BY <2>1, <2>3, <1>2
    <3> QED
      BY <3>1, <3>2 DEF TitlesInv, M!Editing
  <2> QED
    BY <2>4, <2>5
<1>10. PageInv'
  BY <1>1, <1>3, <1>4, PageLeft
<1> QED
  BY <1>6, <1>7, <1>8, <1>9, <1>10, MeetOwn

\* A step of a session on a meetup that exists.
LEMMA MeetGoes ==
  ASSUME MeetupsInv, NEW s \in M!Sessions, NEW j, NEW stage \in MeetSessions, UNCHANGED created,
         \/ session[s].at = "idle" /\ j \in M!Ids /\ row[j] # M!NoRow
         \/ session[s].at # "idle" /\ j = session[s].id,
         session' = [session EXCEPT ![s] = stage], stage.at # "insert",
         stage.at = "idle" \/ stage.id = j,
         stage.at \in {"retitle", "edit"} => s \in MeetupClis,
         \A i \in M!Ids : i # j => row'[i] = row[i] /\ event'[i] = event[i],
         hurt \subseteq hurt', hurt' \subseteq hurt \cup {j}
  PROVE  /\ MeetStep(s, j) /\ j \in M!Ids /\ j \in 1 .. created
         /\ session' \in [M!Sessions -> MeetSessions] /\ session'[s] = stage
         /\ \A t \in M!Sessions : t # s => session'[t] = session[t]
         /\ FreshInv'
         /\ j \notin hurt' => CalendarInv(j) /\ TitlesInv(j)
<1>0. /\ MeetupsTyped /\ SessionsInv /\ FreshInv /\ created \in Nat /\ M!Ids = 1 .. MaxMeetups
      /\ MaxMeetups \in Nat /\ created <= MaxMeetups
  BY Meetings DEF MeetupsInv, MeetupsTyped, M!Ids, M!MeetupsAssumption
<1>1. /\ session' \in [M!Sessions -> MeetSessions] /\ session'[s] = stage
      /\ \A t \in M!Sessions : t # s => session'[t] = session[t]
  BY <1>0, MeetMoved DEF MeetupsTyped
<1>2. j \in 1 .. created /\ j \in M!Ids
  BY <1>0 DEF SessionsInv, FreshInv
<1>3. MeetStep(s, j)
  BY <1>0, <1>1, <1>2 DEF MeetStep
<1>4. FreshInv'
  <2>1. \A i \in M!Ids : i > created' => row'[i] = M!NoRow /\ event'[i] = M!NoEvent
    BY <1>3, MeetStepKeeps
  <2> QED
    BY <2>1 DEF FreshInv, M!Ids, M!NoRow, M!NoEvent
<1> QED
  BY <1>1, <1>2, <1>3, <1>4 DEF MeetupsInv

\* Who works on a meetup has it to himself as far as inserting goes.
LEMMA NobodyInserts ==
  ASSUME MeetupsInv, NEW s \in M!Sessions, session[s].at # "idle", NEW t \in M!Sessions,
         session[t].at = "insert", session[t].id = session[s].id
  PROVE  t = s
BY DEF MeetupsInv, SessionsInv

\* What a session that knows its own fields may become.
LEMMA MeetFields ==
  ASSUME MeetupsInv, NEW s \in M!Sessions
  PROVE  /\ session[s].at \in MeetStages /\ session[s].id \in {0} \cup M!Ids
         /\ session[s].title \in {0} \cup Titles /\ session[s].listed \in M!Rows
         /\ \A at \in MeetStages :
              LET stage == [session[s] EXCEPT !.at = at] IN
              /\ stage \in MeetSessions /\ stage.at = at /\ stage.id = session[s].id
              /\ stage.title = session[s].title /\ stage.listed = session[s].listed
<1>1. session[s] \in MeetSessions
  BY DEF MeetupsInv, MeetupsTyped
<1> QED
  BY <1>1 DEF MeetSessions

\* The row of a meetup that has its event.
LEMMA MeetInserted ==
  ASSUME MeetupsInv, NEW s \in M!Sessions, M!Insert(s) PROVE MeetupsInv'
<1>j. PICK j : j = session[s].id
  OBVIOUS
<1> DEFINE begun == [row EXCEPT ![j] = [status |-> "confirmed", title |-> 0]]
           stage == [session[s] EXCEPT !.at = "list"]
<1>0. MeetupsTyped /\ j \in M!Ids
  <2>1. MeetupsTyped /\ j \in 1 .. created
    BY <1>j DEF MeetupsInv, SessionsInv, M!Insert
  <2> QED
    BY <2>1, Meetings DEF MeetupsTyped, M!Ids, M!MeetupsAssumption
<1>1. /\ session[s].at = "insert" /\ UNCHANGED <<created, event, page>>
      /\ \/ row' = begun /\ session' = [session EXCEPT ![s] = stage] /\ hurt' = hurt /\ smudged' = smudged
         \/ /\ row' = row \/ row' = begun
            /\ session' = [session EXCEPT ![s] = M!Idle] /\ hurt' = hurt \cup {j} /\ smudged'
  BY <1>0, <1>j DEF M!Insert, M!Go, M!Rest, MeetupsTyped
<1>2. /\ begun \in M!Rows /\ begun[j].status = "confirmed" /\ begun[j].title = 0
      /\ \A i \in M!Ids : i # j => begun[i] = row[i]
  BY <1>0 DEF MeetupsTyped, M!Rows
<1>3. stage \in MeetSessions /\ stage.at = "list" /\ stage.id = j
  BY <1>j, MeetFields DEF MeetStages
<1>4. /\ row' \in M!Rows /\ \A i \in M!Ids : i # j => row'[i] = row[i] /\ event'[i] = event[i]
      /\ hurt \subseteq hurt' /\ hurt' \subseteq hurt \cup {j}
  BY <1>0, <1>1, <1>2 DEF MeetupsTyped
<1> HIDE DEF stage, begun
<1>5. CASE row' = begun /\ session' = [session EXCEPT ![s] = stage] /\ hurt' = hurt /\ smudged' = smudged
  <2>1. /\ MeetStep(s, j) /\ session' \in [M!Sessions -> MeetSessions] /\ session'[s] = stage
        /\ \A t \in M!Sessions : t # s => session'[t] = session[t]
        /\ FreshInv' /\ (j \notin hurt' => CalendarInv(j) /\ TitlesInv(j))
    <3>1. /\ UNCHANGED created /\ session[s].at # "idle" /\ j = session[s].id
          /\ stage.at # "insert" /\ stage.at \notin {"retitle", "edit"} /\ stage.id = j
          /\ session' = [session EXCEPT ![s] = stage]
      BY <1>1, <1>3, <1>5, <1>j
    <3> QED
      BY <3>1, <1>3, <1>4, MeetGoes, ZenonT(60)
  <2>2. MeetupsTyped'
    BY <2>1, <1>0, <1>1, <1>4 DEF MeetupsTyped, M!Rows, M!Ids, M!Sessions
  <2>3. PageInv'
    BY <2>1, <1>1, <1>3, <1>5, PageAwaited
  <2>4. \A t \in M!Sessions : session'[t].at # "idle" /\ session'[t].id = j => t = s
    BY <2>1, <1>1, <1>j DEF MeetupsInv, SessionsInv
  <2>5. ASSUME j \notin hurt' PROVE CalendarInv(j)' /\ TitlesInv(j)'
    <3>1. event'[j].there /\ event'[j].title = 0 /\ row'[j].status = "confirmed" /\ row'[j].title = 0
      BY <2>1, <2>5, <1>1, <1>2, <1>5, <1>j DEF CalendarInv
    <3>2. \A t \in M!Sessions :
            session'[t].at \in {"insert", "mark", "retitle", "edit"} => session'[t].id # j
      BY <2>1, <2>4, <1>3
    <3> QED
      BY <3>1, <3>2 DEF CalendarInv, TitlesInv, M!Editing
  <2> QED
    BY <2>1, <2>2, <2>3, <2>5, MeetOwn
<1>6. CASE session' = [session EXCEPT ![s] = M!Idle] /\ hurt' = hurt \cup {j} /\ smudged'
  <2>1. /\ MeetStep(s, j) /\ session' \in [M!Sessions -> MeetSessions] /\ FreshInv'
    BY <1>1, <1>4, <1>6, <1>j, MeetGoes, MeetIdle
  <2>2. MeetupsTyped'
    BY <2>1, <1>0, <1>1, <1>4 DEF MeetupsTyped, M!Rows, M!Ids, M!Sessions
  <2>3. PageInv'
    BY <1>6 DEF PageInv
  <2> QED
    BY <2>1, <2>2, <2>3, <1>6, MeetOwn
<1> QED
  BY <1>1, <1>5, <1>6

\* A step that fails: the meetup is hurt, the rest is as it was.
LEMMA MeetFailed ==
  ASSUME MeetupsInv, NEW s \in M!Sessions, session[s].at \in {"delete", "mark", "retitle", "edit"},
         UNCHANGED <<created, row, event, page, smudged>>, hurt' = hurt \cup {session[s].id},
         NEW stage \in MeetSessions, session' = [session EXCEPT ![s] = stage],
         stage.at = "idle" \/ stage.id = session[s].id,
         stage.at \in {"idle", "mark", "edit"}, stage.at = "edit" => s \in MeetupClis
  PROVE  MeetupsInv'
<1>j. PICK j : j = session[s].id
  OBVIOUS
<1>1. /\ MeetStep(s, j) /\ session' \in [M!Sessions -> MeetSessions] /\ session'[s] = stage
      /\ \A t \in M!Sessions : t # s => session'[t] = session[t]
      /\ FreshInv'
  BY <1>j, MeetGoes
<1>2. MeetupsTyped'
  BY <1>1 DEF MeetupsInv, MeetupsTyped, M!Rows, M!Ids, M!Sessions
<1>3. PageInv'
  BY <1>1, PageLeft
<1> QED
  BY <1>1, <1>2, <1>3, <1>j, MeetOwn

\* Cancelling: the row is read, the event deleted, the row marked.
LEMMA MeetCancelled ==
  ASSUME MeetupsInv, NEW s \in M!Sessions,
         (\E i \in M!Ids : M!ReadCancel(s, i)) \/ M!Delete(s) \/ M!Mark(s)
  PROVE  MeetupsInv'
<1>0. MeetupsTyped
  BY DEF MeetupsInv
<1>1. ASSUME NEW j \in M!Ids, M!ReadCancel(s, j) PROVE MeetupsInv'
  <2> DEFINE stage == [session[s] EXCEPT !.at = "delete", !.id = j]
  <2>1. /\ session[s].at = "idle" /\ row[j].status = "confirmed" /\ session' = [session EXCEPT ![s] = stage]
        /\ UNCHANGED <<created, row, event, page, hurt, smudged>>
    BY <1>0, <1>1 DEF M!ReadCancel, MeetupsTyped
  <2>2. stage \in MeetSessions /\ stage.at = "delete" /\ stage.id = j
    <3>1. session[s] \in MeetSessions
      BY <1>0 DEF MeetupsTyped
    <3> QED
      BY <3>1 DEF MeetSessions, MeetStages
  <2>3. row[j] # M!NoRow
    BY <2>1 DEF M!NoRow
  <2>4. /\ MeetStep(s, j) /\ session' \in [M!Sessions -> MeetSessions] /\ session'[s] = stage
        /\ \A t \in M!Sessions : t # s => session'[t] = session[t]
        /\ FreshInv' /\ (j \notin hurt' => CalendarInv(j) /\ TitlesInv(j))
    BY <2>1, <2>2, <2>3, MeetGoes
  <2>5. j \notin hurt' => CalendarInv(j)' /\ TitlesInv(j)'
    BY <2>1, <2>2, <2>4, MeetupLeft
  <2>6. MeetupsTyped'
    BY <2>1, <2>4, <1>0 DEF MeetupsTyped, M!Rows, M!Ids, M!Sessions
  <2>7. PageInv'
    BY <2>1, <2>2, <2>4, PageLeft
  <2> QED
    BY <2>4, <2>5, <2>6, <2>7, MeetOwn
<1>2. CASE M!Delete(s)
  <2>j. PICK j : j = session[s].id
    OBVIOUS
  <2> DEFINE stage == [session[s] EXCEPT !.at = "mark"]
             gone == [event EXCEPT ![j] = [event[j] EXCEPT !.there = FALSE]]
  <2>1. /\ session[s].at = "delete" /\ session' = [session EXCEPT ![s] = stage]
        /\ UNCHANGED <<created, row, page, smudged>>
        /\ \/ event' = gone /\ hurt' = hurt
           \/ event' = event /\ hurt' = hurt \cup {j}
    BY <1>0, <1>2, <2>j DEF M!Delete, M!Go, MeetupsTyped
  <2>2. stage \in MeetSessions /\ stage.at = "mark" /\ stage.id = j
    BY <2>j, MeetFields DEF MeetStages
  <2>2a. j \in M!Ids =>
           /\ gone \in [M!Ids -> [there : BOOLEAN, title : {0} \cup Titles]]
           /\ ~gone[j].there /\ gone[j].title = event[j].title
           /\ \A i \in M!Ids : i # j => gone[i] = event[i]
    <3> SUFFICES ASSUME j \in M!Ids
                 PROVE  /\ gone \in [M!Ids -> [there : BOOLEAN, title : {0} \cup Titles]]
                        /\ ~gone[j].there /\ gone[j].title = event[j].title
                        /\ \A i \in M!Ids : i # j => gone[i] = event[i]
      OBVIOUS
    <3>1. event[j] \in [there : BOOLEAN, title : {0} \cup Titles]
      BY <1>0 DEF MeetupsTyped
    <3>2. /\ [event[j] EXCEPT !.there = FALSE] \in [there : BOOLEAN, title : {0} \cup Titles]
          /\ ~[event[j] EXCEPT !.there = FALSE].there
          /\ [event[j] EXCEPT !.there = FALSE].title = event[j].title
      BY <3>1
    <3> QED
      BY <3>2, <1>0 DEF MeetupsTyped
  <2>2b. \A i \in M!Ids : i # j => gone[i] = event[i]
    BY <1>0 DEF MeetupsTyped
  <2> HIDE DEF stage, gone
  <2>3. CASE event' = event /\ hurt' = hurt \cup {j}
    BY <2>1, <2>2, <2>3, <2>j, MeetFailed
  <2>4. CASE event' = gone /\ hurt' = hurt
    <3>1. \A i \in M!Ids : i # j => event'[i] = event[i]
      BY <2>4, <2>2b
    <3>2. /\ MeetStep(s, j) /\ session' \in [M!Sessions -> MeetSessions] /\ session'[s] = stage
          /\ \A t \in M!Sessions : t # s => session'[t] = session[t]
          /\ FreshInv' /\ (j \notin hurt' => CalendarInv(j) /\ TitlesInv(j)) /\ j \in M!Ids
      BY <2>1, <2>2, <2>4, <2>j, <3>1, MeetGoes, ZenonT(60)
    <3>3. /\ event' \in [M!Ids -> [there : BOOLEAN, title : {0} \cup Titles]]
          /\ ~event'[j].there /\ event'[j].title = event[j].title
      BY <2>4, <3>2, <2>2a
    <3>4. MeetupsTyped'
      BY <2>1, <3>2, <3>3, <1>0 DEF MeetupsTyped, M!Rows, M!Ids, M!Sessions
    <3>5. PageInv'
      BY <2>1, <2>2, <3>2, PageLeft
    <3>6. \A t \in M!Sessions : session'[t].at = "insert" => session'[t].id # j
      <4>1. session[s].at # "idle" /\ session[s].at # "insert" /\ session'[s].at # "insert"
        BY <3>2, <2>1, <2>2
      <4>2. \A t \in M!Sessions : session[t].at = "insert" => session[t].id # session[s].id
        BY <4>1, NobodyInserts
      <4> QED
        BY <4>1, <4>2, <3>2, <2>j
    <3>7. ASSUME j \notin hurt' PROVE CalendarInv(j)' /\ TitlesInv(j)'
      <4>1. CalendarInv(j)'
        <5>1. CalendarInv(j) /\ row'[j] = row[j]
          BY <3>7, <3>2, <2>1
        <5>2. row'[j].status = "confirmed" => \E t \in M!Sessions : session'[t].at = "mark" /\ session'[t].id = j
          BY <2>2, <3>2
        <5> QED
          BY <5>1, <5>2, <3>3, <3>6 DEF CalendarInv
      <4>2. TitlesInv(j)'
        <5>1. \A t \in M!Sessions : session[t].at \in {"retitle", "edit"} \/ session'[t].at \in {"retitle", "edit"}
                                      => session'[t] = session[t]
          BY <2>1, <2>2, <3>2
        <5> QED
          BY <5>1, <3>7, <2>1, <3>2, <3>3 DEF TitlesInv, M!Editing
      <4> QED
        BY <4>1, <4>2
    <3> QED
      BY <3>2, <3>4, <3>5, <3>7, MeetOwn
  <2> QED
    BY <2>1, <2>3, <2>4
<1>3. CASE M!Mark(s)
  <2>j. PICK j : j = session[s].id
    OBVIOUS
  <2> DEFINE stage == [session[s] EXCEPT !.at = "list"]
             struck == [row EXCEPT ![j] = [row[j] EXCEPT !.status = "cancelled"]]
  <2>1. /\ session[s].at = "mark" /\ UNCHANGED <<created, event, page, smudged>>
        /\ \/ row' = struck /\ hurt' = hurt /\ session' = [session EXCEPT ![s] = stage]
           \/ row' = row /\ hurt' = hurt \cup {j} /\ session' = [session EXCEPT ![s] = M!Idle]
    BY <1>0, <1>3, <2>j DEF M!Mark, M!Cancelled, M!Go, M!Rest, MeetupsTyped
  <2>2. stage \in MeetSessions /\ stage.at = "list" /\ stage.id = j
    BY <2>j, MeetFields DEF MeetStages
  <2> HIDE DEF stage
  <2>3. CASE row' = row /\ hurt' = hurt \cup {j} /\ session' = [session EXCEPT ![s] = M!Idle]
    BY <2>1, <2>3, <2>j, MeetIdle, MeetFailed
  <2>4. CASE row' = struck /\ hurt' = hurt /\ session' = [session EXCEPT ![s] = stage]
    <3>1. \A i \in M!Ids : i # j => row'[i] = row[i]
      BY <2>4, <1>0 DEF MeetupsTyped, M!Rows
    <3>2. /\ MeetStep(s, j) /\ session' \in [M!Sessions -> MeetSessions] /\ session'[s] = stage
          /\ \A t \in M!Sessions : t # s => session'[t] = session[t]
          /\ FreshInv' /\ (j \notin hurt' => CalendarInv(j) /\ TitlesInv(j)) /\ j \in M!Ids
      BY <2>1, <2>2, <2>4, <2>j, <3>1, MeetGoes, ZenonT(60)
    <3>3. row' \in M!Rows /\ row'[j].status = "cancelled" /\ row'[j].title = row[j].title
      BY <2>4, <3>2, <1>0 DEF MeetupsTyped, M!Rows
    <3>4. MeetupsTyped'
      BY <2>1, <3>2, <3>3, <1>0 DEF MeetupsTyped, M!Rows, M!Ids, M!Sessions
    <3>5. PageInv'
      BY <2>1, <2>2, <3>2, PageAwaited
    <3>6. \A t \in M!Sessions : session'[t].at = "insert" => session'[t].id # j
      <4>1. session[s].at # "idle" /\ session[s].at # "insert" /\ session'[s].at # "insert"
        BY <3>2, <2>1, <2>2
      <4>2. \A t \in M!Sessions : session[t].at = "insert" => session[t].id # session[s].id
        BY <4>1, NobodyInserts
      <4> QED
        BY <4>1, <4>2, <3>2, <2>j
    <3>7. ASSUME j \notin hurt' PROVE CalendarInv(j)' /\ TitlesInv(j)'
      <4>0. ~event[j].there
        BY <3>7, <3>2, <2>1, <2>j DEF CalendarInv
      <4>1. CalendarInv(j)'
        BY <4>0, <2>1, <2>2, <3>2, <3>3, <3>6 DEF CalendarInv
      <4>2. TitlesInv(j)'
        <5>1. \A t \in M!Sessions : session[t].at \in {"retitle", "edit"} \/ session'[t].at \in {"retitle", "edit"}
                                      => session'[t] = session[t]
          BY <2>1, <2>2, <3>2
        <5> QED
          BY <5>1, <3>7, <2>1, <3>2, <3>3 DEF TitlesInv, M!Editing
      <4> QED
        BY <4>1, <4>2
    <3> QED
      BY <3>2, <3>4, <3>5, <3>7, MeetOwn
  <2> QED
    BY <2>1, <2>3, <2>4
<1> QED
  BY <1>1, <1>2, <1>3

\* Editing: the row is read, the event retitled, the row written.
LEMMA MeetEdited ==
  ASSUME MeetupsInv, NEW s \in M!Sessions,
         (\E i \in M!Ids, title \in Titles : M!ReadEdit(s, i, title)) \/ M!Retitle(s) \/ M!Edit(s)
  PROVE  MeetupsInv'
<1>0. MeetupsTyped
  BY DEF MeetupsInv
<1>1. ASSUME NEW j \in M!Ids, NEW title \in Titles, M!ReadEdit(s, j, title) PROVE MeetupsInv'
  <2> DEFINE stage == [session[s] EXCEPT !.at = "retitle", !.id = j, !.title = title]
  <2>1. /\ s \in MeetupClis /\ session[s].at = "idle" /\ row[j].status = "confirmed"
        /\ session' = [session EXCEPT ![s] = stage]
        /\ hurt' = IF \E r \in MeetupClis : M!Editing(r, j) THEN hurt \cup {j} ELSE hurt
        /\ UNCHANGED <<created, row, event, page, smudged>>
    BY <1>0, <1>1 DEF M!ReadEdit, MeetupsTyped
  <2>2. stage \in MeetSessions /\ stage.at = "retitle" /\ stage.id = j
    <3>1. session[s] \in MeetSessions
      BY <1>0 DEF MeetupsTyped
    <3> QED
      BY <3>1 DEF MeetSessions, MeetStages
  <2> HIDE DEF stage
  <2>3. row[j] # M!NoRow /\ hurt \subseteq hurt' /\ hurt' \subseteq hurt \cup {j}
    BY <2>1 DEF M!NoRow
  <2>4. /\ MeetStep(s, j) /\ session' \in [M!Sessions -> MeetSessions] /\ session'[s] = stage
        /\ \A t \in M!Sessions : t # s => session'[t] = session[t]
        /\ FreshInv' /\ (j \notin hurt' => CalendarInv(j) /\ TitlesInv(j))
    BY <2>1, <2>2, <2>3, MeetGoes
  <2>5. MeetupsTyped'
    BY <2>1, <2>4, <1>0 DEF MeetupsTyped, M!Rows, M!Ids, M!Sessions
  <2>6. PageInv'
    BY <2>1, <2>2, <2>4, PageLeft
  <2>7. ASSUME j \notin hurt' PROVE CalendarInv(j)' /\ TitlesInv(j)'
    <3>1. \A t \in M!Sessions :
            session[t].at \in {"insert", "mark", "edit"} \/ session'[t].at \in {"insert", "mark", "edit"}
              => session'[t] = session[t]
      BY <2>1, <2>2, <2>4
    <3>2. CalendarInv(j)'
      BY <3>1, <2>1, <2>4, <2>7 DEF CalendarInv
    <3>3. \A t \in M!Sessions : ~M!Editing(t, j)
      <4>1. \A t \in MeetupClis : ~M!Editing(t, j)
        BY <2>1, <2>7
      <4> QED
        BY <4>1 DEF MeetupsInv, SessionsInv, M!Editing
    <3>4. \A t \in M!Sessions : M!Editing(t, j)' => t = s
      BY <3>3, <2>4 DEF M!Editing
    <3>5. TitlesInv(j)'
      <4>1. CalendarInv(j) /\ TitlesInv(j) /\ row' = row /\ event' = event
        BY <2>1, <2>4, <2>7
      <4>2. \A t \in M!Sessions : session'[t].at = "edit" => session'[t].id # j
        BY <3>1, <3>3 DEF M!Editing
      <4>3. event[j].title = row[j].title
        BY <4>1, <3>3 DEF TitlesInv, M!Editing
      <4> QED
        BY <4>1, <4>2, <4>3, <3>4 DEF TitlesInv
    <3> QED
      BY <3>2, <3>5
  <2> QED
    BY <2>4, <2>5, <2>6, <2>7, MeetOwn
<1>2. CASE M!Retitle(s)
  <2>j. PICK j : j = session[s].id
    OBVIOUS
  <2> DEFINE stage == [session[s] EXCEPT !.at = "edit"]
             titled == [event EXCEPT ![j] = [event[j] EXCEPT !.title = session[s].title]]
  <2>1. /\ session[s].at = "retitle" /\ session' = [session EXCEPT ![s] = stage]
        /\ UNCHANGED <<created, row, page, smudged>>
        /\ \/ event' = titled /\ hurt' = hurt
           \/ event' = event /\ hurt' = hurt \cup {j}
    BY <1>0, <1>2, <2>j DEF M!Retitle, M!Go, MeetupsTyped
  <2>2. /\ stage \in MeetSessions /\ stage.at = "edit" /\ stage.id = j /\ stage.title = session[s].title
        /\ s \in MeetupClis /\ session[s].title \in {0} \cup Titles
    BY <2>1, <2>j, MeetFields DEF MeetStages, MeetupsInv, SessionsInv
  <2>2a. j \in M!Ids =>
           /\ titled \in [M!Ids -> [there : BOOLEAN, title : {0} \cup Titles]]
           /\ titled[j].there = event[j].there /\ titled[j].title = session[s].title
    <3> SUFFICES ASSUME j \in M!Ids
                 PROVE  /\ titled \in [M!Ids -> [there : BOOLEAN, title : {0} \cup Titles]]
                        /\ titled[j].there = event[j].there /\ titled[j].title = session[s].title
      OBVIOUS
    <3>1. event[j] \in [there : BOOLEAN, title : {0} \cup Titles]
      BY <1>0 DEF MeetupsTyped
    <3>2. /\ [event[j] EXCEPT !.title = session[s].title] \in [there : BOOLEAN, title : {0} \cup Titles]
          /\ [event[j] EXCEPT !.title = session[s].title].there = event[j].there
          /\ [event[j] EXCEPT !.title = session[s].title].title = session[s].title
      BY <3>1, <2>2
    <3> QED
      BY <3>2, <1>0 DEF MeetupsTyped
  <2>2b. \A i \in M!Ids : i # j => titled[i] = event[i]
    BY <1>0 DEF MeetupsTyped
  <2> HIDE DEF stage, titled
  <2>3. CASE event' = event /\ hurt' = hurt \cup {j}
    BY <2>1, <2>2, <2>3, <2>j, MeetFailed
  <2>4. CASE event' = titled /\ hurt' = hurt
    <3>1. \A i \in M!Ids : i # j => event'[i] = event[i]
      BY <2>4, <2>2b
    <3>2. /\ MeetStep(s, j) /\ session' \in [M!Sessions -> MeetSessions] /\ session'[s] = stage
          /\ \A t \in M!Sessions : t # s => session'[t] = session[t]
          /\ FreshInv' /\ (j \notin hurt' => CalendarInv(j) /\ TitlesInv(j)) /\ j \in M!Ids
      BY <2>1, <2>2, <2>4, <2>j, <3>1, MeetGoes, ZenonT(60)
    <3>3. /\ event' \in [M!Ids -> [there : BOOLEAN, title : {0} \cup Titles]]
          /\ event'[j].there = event[j].there /\ event'[j].title = session'[s].title
      BY <2>2, <2>4, <3>2, <2>2a
    <3>4. MeetupsTyped'
      BY <2>1, <3>2, <3>3, <1>0 DEF MeetupsTyped, M!Rows, M!Ids, M!Sessions
    <3>5. PageInv'
      BY <2>1, <2>2, <3>2, PageLeft
    <3>6. \A t \in M!Sessions : session'[t].at = "insert" => session'[t].id # j
      <4>1. session[s].at # "idle" /\ session[s].at # "insert" /\ session'[s].at # "insert"
        BY <3>2, <2>1, <2>2
      <4>2. \A t \in M!Sessions : session[t].at = "insert" => session[t].id # session[s].id
        BY <4>1, NobodyInserts
      <4> QED
        BY <4>1, <4>2, <3>2, <2>j
    <3>7. ASSUME j \notin hurt' PROVE CalendarInv(j)' /\ TitlesInv(j)'
      <4>0. CalendarInv(j) /\ TitlesInv(j) /\ row' = row
        BY <3>2, <3>7, <2>1
      <4>1. CalendarInv(j)'
        <5>1. \A t \in M!Sessions : session[t].at = "mark" \/ session'[t].at = "mark" => session'[t] = session[t]
          BY <2>1, <2>2, <3>2
        <5>2. \A t \in M!Sessions : session[t].at = "insert" => session'[t] = session[t]
          BY <2>1, <3>2
        <5> QED
          BY <4>0, <5>1, <5>2, <3>3, <3>6 DEF CalendarInv
      <4>2. TitlesInv(j)'
        <5>1. \A t \in M!Sessions : M!Editing(t, j) => t = s
          BY <4>0, <2>1, <2>j DEF TitlesInv, M!Editing
        <5>2. \A t \in M!Sessions : M!Editing(t, j)' => t = s
          BY <5>1, <3>2 DEF M!Editing
        <5>3. \A t \in M!Sessions : session'[t].at = "edit" /\ session'[t].id = j => t = s
          BY <5>2 DEF M!Editing
        <5>4. session'[s].at = "edit" /\ session'[s].id = j
          BY <2>2, <3>2
        <5> QED
          BY <5>2, <5>3, <5>4, <3>3 DEF TitlesInv
      <4> QED
        BY <4>1, <4>2
    <3> QED
      BY <3>2, <3>4, <3>5, <3>7, MeetOwn
  <2> QED
    BY <2>1, <2>3, <2>4
<1>3. CASE M!Edit(s)
  <2>j. PICK j : j = session[s].id
    OBVIOUS
  <2> DEFINE stage == [session[s] EXCEPT !.at = "list"]
             titled == [row EXCEPT ![j] = [row[j] EXCEPT !.title = session[s].title]]
  <2>1. /\ session[s].at = "edit" /\ UNCHANGED <<created, event, page, smudged>>
        /\ \/ row' = titled /\ hurt' = hurt /\ session' = [session EXCEPT ![s] = stage]
           \/ row' = row /\ hurt' = hurt \cup {j} /\ session' = [session EXCEPT ![s] = M!Idle]
    BY <1>0, <1>3, <2>j DEF M!Edit, M!Go, M!Rest, MeetupsTyped
  <2>2. /\ stage \in MeetSessions /\ stage.at = "list" /\ stage.id = j
        /\ session[s].title \in {0} \cup Titles
    BY <2>j, MeetFields DEF MeetStages
  <2>2a. j \in M!Ids =>
           titled \in M!Rows /\ titled[j].status = row[j].status /\ titled[j].title = session[s].title
    BY <1>0, <2>2 DEF MeetupsTyped, M!Rows
  <2>2b. \A i \in M!Ids : i # j => titled[i] = row[i]
    BY <1>0 DEF MeetupsTyped, M!Rows
  <2> HIDE DEF stage, titled
  <2>3. CASE row' = row /\ hurt' = hurt \cup {j} /\ session' = [session EXCEPT ![s] = M!Idle]
    BY <2>1, <2>3, <2>j, MeetIdle, MeetFailed
  <2>4. CASE row' = titled /\ hurt' = hurt /\ session' = [session EXCEPT ![s] = stage]
    <3>1. \A i \in M!Ids : i # j => row'[i] = row[i]
      BY <2>4, <2>2b
    <3>2. /\ MeetStep(s, j) /\ session' \in [M!Sessions -> MeetSessions] /\ session'[s] = stage
          /\ \A t \in M!Sessions : t # s => session'[t] = session[t]
          /\ FreshInv' /\ (j \notin hurt' => CalendarInv(j) /\ TitlesInv(j)) /\ j \in M!Ids
      BY <2>1, <2>2, <2>4, <2>j, <3>1, MeetGoes, ZenonT(60)
    <3>3. row' \in M!Rows /\ row'[j].status = row[j].status /\ row'[j].title = session[s].title
      BY <2>4, <3>2, <2>2a
    <3>4. MeetupsTyped'
      BY <2>1, <3>2, <3>3, <1>0 DEF MeetupsTyped, M!Rows, M!Ids, M!Sessions
    <3>5. PageInv'
      BY <2>1, <2>2, <3>2, PageAwaited
    <3>6. \A t \in M!Sessions : session'[t].at = "insert" => session'[t].id # j
      <4>1. session[s].at # "idle" /\ session[s].at # "insert" /\ session'[s].at # "insert"
        BY <3>2, <2>1, <2>2
      <4>2. \A t \in M!Sessions : session[t].at = "insert" => session[t].id # session[s].id
        BY <4>1, NobodyInserts
      <4> QED
        BY <4>1, <4>2, <3>2, <2>j
    <3>7. ASSUME j \notin hurt' PROVE CalendarInv(j)' /\ TitlesInv(j)'
      <4>0. CalendarInv(j) /\ TitlesInv(j) /\ event' = event
        BY <3>2, <3>7, <2>1
      <4>1. CalendarInv(j)'
        <5>1. \A t \in M!Sessions : session[t].at = "mark" \/ session'[t].at = "mark" => session'[t] = session[t]
          BY <2>1, <2>2, <3>2
        <5>2. \A t \in M!Sessions : session[t].at = "insert" => session'[t] = session[t]
          BY <2>1, <3>2
        <5> QED
          BY <4>0, <5>1, <5>2, <3>3, <3>6 DEF CalendarInv
      <4>2. TitlesInv(j)'
        <5>1. \A t \in M!Sessions : M!Editing(t, j) => t = s
          BY <4>0, <2>1, <2>j DEF TitlesInv, M!Editing
        <5>2. \A t \in M!Sessions : session'[t].at \in {"retitle", "edit"} => session'[t].id # j
          BY <5>1, <2>2, <3>2 DEF M!Editing
        <5>3. event[j].title = session[s].title
          BY <4>0, <2>1, <2>j DEF TitlesInv
        <5> QED
          BY <4>0, <5>2, <5>3, <3>3 DEF TitlesInv, M!Editing
      <4> QED
        BY <4>1, <4>2
    <3> QED
      BY <3>2, <3>4, <3>5, <3>7, MeetOwn
  <2> QED
    BY <2>1, <2>3, <2>4
<1> QED
  BY <1>1, <1>2, <1>3

\* A session that reads the rows for the page, or writes the page, leaves the meetups.
LEMMA MeetPaged ==
  ASSUME MeetupsInv, NEW s \in M!Sessions, M!List(s) \/ M!Write(s) PROVE MeetupsInv'
<1>j. PICK j : j = session[s].id
  OBVIOUS
<1>0. MeetupsTyped
  BY DEF MeetupsInv
<1> DEFINE stage == [session[s] EXCEPT !.at = "write", !.listed = row]
<1>1. /\ UNCHANGED <<created, row, event, hurt>>
      /\ \/ /\ session[s].at = "list" /\ session' = [session EXCEPT ![s] = stage] /\ page' = page
            /\ smudged' = (smudged \/ \E t \in M!Sessions : M!Refreshing(t))
         \/ /\ session[s].at = "write" /\ session' = [session EXCEPT ![s] = M!Idle]
            /\ (page' = session[s].listed /\ smudged' = smudged) \/ (page' = page /\ smudged')
  BY <1>0 DEF M!List, M!Write, M!Refreshing, M!Rest, MeetupsTyped
<1>2. stage \in MeetSessions /\ stage.at = "write" /\ stage.id = j /\ stage.listed = row
  <2>1. session[s] \in MeetSessions /\ row \in M!Rows
    BY <1>0 DEF MeetupsTyped
  <2> QED
    BY <2>1, <1>j DEF MeetSessions, MeetStages
<1> HIDE DEF stage
<1>3. PICK after \in MeetSessions :
        /\ session' = [session EXCEPT ![s] = after] /\ (after.at = "idle" \/ after.id = j)
        /\ \/ session[s].at = "list" /\ after.at = "write" /\ after.listed = row
           \/ session[s].at = "write" /\ after.at = "idle"
  BY <1>1, <1>2, MeetIdle
<1>4. /\ MeetStep(s, j) /\ session' \in [M!Sessions -> MeetSessions] /\ session'[s] = after
      /\ \A t \in M!Sessions : t # s => session'[t] = session[t]
      /\ FreshInv' /\ (j \notin hurt' => CalendarInv(j) /\ TitlesInv(j)) /\ j \in M!Ids
  <2>1. /\ UNCHANGED created /\ session[s].at # "idle" /\ after.at # "insert"
        /\ after.at \notin {"retitle", "edit"}
    BY <1>1, <1>3
  <2> QED
    BY <2>1, <1>1, <1>3, <1>j, MeetGoes
<1>5. j \notin hurt' => CalendarInv(j)' /\ TitlesInv(j)'
  BY <1>1, <1>3, <1>4, MeetupLeft
<1>6. MeetupsTyped'
  <2>1. page' \in M!Rows
    BY <1>0, <1>1, MeetFields DEF MeetupsTyped
  <2> QED
    BY <2>1, <1>0, <1>1, <1>4 DEF MeetupsTyped, M!Rows, M!Ids, M!Sessions
<1>7. PageInv'
  <2> SUFFICES ASSUME ~smudged'
               PROVE  /\ \A t, q \in M!Sessions : M!Refreshing(t)' /\ M!Refreshing(q)' => t = q
                      /\ \/ \E t \in M!Sessions : session'[t].at = "list"
                         \/ \E t \in M!Sessions : M!Refreshing(t)' /\ session'[t].listed = row'
                         \/ page' = row' /\ (\A t \in M!Sessions : ~M!Refreshing(t)')
    BY DEF PageInv
  <2>1. CASE session[s].at = "list"
    <3>1. page' = page /\ \A t \in M!Sessions : ~M!Refreshing(t)
      BY <1>1, <2>1
    <3>2. session'[s].at = "write" /\ session'[s].listed = row'
      BY <1>1, <1>3, <1>4, <2>1
    <3> QED
      BY <3>1, <3>2, <1>4 DEF M!Refreshing
  <2>2. CASE session[s].at = "write"
    <3>1. page' = session[s].listed /\ ~smudged /\ session'[s].at = "idle" /\ row' = row
      BY <1>1, <1>3, <1>4, <2>2
    <3>2. \A t \in M!Sessions : M!Refreshing(t) => t = s
      BY <3>1, <2>2 DEF MeetupsInv, PageInv, M!Refreshing
    <3>3. \A t \in M!Sessions : ~M!Refreshing(t)'
      BY <3>1, <3>2, <1>4 DEF M!Refreshing
    <3>4. (\E t \in M!Sessions : session[t].at = "list" /\ t # s) \/ session[s].listed = row
      BY <3>1, <3>2, <2>2 DEF MeetupsInv, PageInv, M!Refreshing
    <3> QED
      BY <3>1, <3>3, <3>4, <1>4
  <2> QED
    BY <2>1, <2>2, <1>3
<1> QED
  BY <1>4, <1>5, <1>6, <1>7, MeetOwn

\* A process dies with what its sessions were about.
LEMMA MeetDies ==
  ASSUME MeetupsInv, NEW dead, M!Dies(dead) PROVE MeetupsInv'
<1>0. MeetupsTyped
  BY DEF MeetupsInv
<1>1. /\ UNCHANGED <<created, row, event, page>> /\ smudged' /\ hurt \subseteq hurt'
      /\ \A t \in M!Sessions : session'[t] = IF t \in dead THEN M!Idle ELSE session[t]
  BY DEF M!Dies
<1>1a. session' \in [M!Sessions -> MeetSessions]
  <2>1. \A t \in M!Sessions : (IF t \in dead THEN M!Idle ELSE session[t]) \in MeetSessions
    BY <1>0, MeetIdle DEF MeetupsTyped
  <2>2. session' = [t \in M!Sessions |-> IF t \in dead THEN M!Idle ELSE session[t]]
    BY DEF M!Dies
  <2> QED
    BY <2>1, <2>2
<1>2. \A t \in M!Sessions : t \in dead /\ session[t].at # "idle" => session[t].id \in hurt'
  <2>1. hurt' = hurt \cup {session[t].id : t \in {q \in dead : session[q].at # "idle"}}
    BY DEF M!Dies
  <2> QED
    BY <2>1
<1>3. MeetupsTyped'
  BY <1>0, <1>1, <1>1a DEF MeetupsTyped, M!Rows, M!Ids, M!Sessions
<1>4. SessionsInv'
  BY <1>1, MeetIdle DEF MeetupsInv, SessionsInv, M!NoRow
<1>5. FreshInv'
  BY <1>1 DEF MeetupsInv, FreshInv, M!Ids, M!NoRow, M!NoEvent
<1>6. ASSUME NEW i \in M!Ids \ hurt' PROVE CalendarInv(i)' /\ TitlesInv(i)'
  <2>1. CalendarInv(i) /\ TitlesInv(i) /\ row'[i] = row[i] /\ event'[i] = event[i]
    BY <1>1, <1>6 DEF MeetupsInv
  <2>2. \A t \in M!Sessions :
           \/ session'[t] = session[t]
           \/ /\ session[t].at \in {"insert", "mark", "retitle", "edit"} => session[t].id # i
              /\ session'[t].at \in {"insert", "mark", "retitle", "edit"} => session'[t].id # i
    BY <1>1, <1>2, <1>6, MeetIdle
  <2> QED
    BY <2>1, <2>2, MeetupLeft
<1>7. PageInv'
  BY <1>1 DEF PageInv
<1> QED
  BY <1>3, <1>4, <1>5, <1>6, <1>7 DEF MeetupsInv, M!Ids

\* Every step of the jobs, the commands and the CLIs.
LEMMA MeetupsStep == MeetupsInv /\ [M!Next]_M!meetupVars => MeetupsInv'
<1> SUFFICES ASSUME MeetupsInv, [M!Next]_M!meetupVars PROVE MeetupsInv'
  OBVIOUS
<1>1. CASE UNCHANGED M!meetupVars
  <2> USE <1>1 DEF M!meetupVars
  <2>1. MeetupsTyped' /\ SessionsInv' /\ FreshInv'
    BY DEF MeetupsInv, MeetupsTyped, SessionsInv, FreshInv, M!Ids, M!Rows, M!Sessions, M!NoRow,
       M!NoEvent
  <2>2. PageInv'
    BY DEF MeetupsInv, PageInv, M!Refreshing
  <2>3. \A i \in M!Ids \ hurt' : CalendarInv(i)' /\ TitlesInv(i)'
    BY DEF MeetupsInv, CalendarInv, TitlesInv, M!Editing, M!NoRow
  <2> QED
    BY <2>1, <2>2, <2>3 DEF MeetupsInv, M!Ids
<1>2. CASE M!Next
  <2>1. \/ \E s \in M!Sessions :
             \/ M!Create(s) \/ M!Insert(s)
             \/ (\E i \in M!Ids : M!ReadCancel(s, i)) \/ M!Delete(s) \/ M!Mark(s)
             \/ (\E i \in M!Ids, title \in Titles : M!ReadEdit(s, i, title)) \/ M!Retitle(s) \/ M!Edit(s)
             \/ M!List(s) \/ M!Write(s)
        \/ \E dead : M!Dies(dead)
    BY <1>2 DEF M!Next
  <2> QED
    BY <2>1, MeetCreated, MeetInserted, MeetCancelled, MeetEdited, MeetPaged, MeetDies
<1> QED
  BY <1>1, <1>2

\* createCalendarEvent() and insertMeetup() and their like (channels/feishu-bot.ts,
\* core/commands.ts, bin/agent.ts), and "so the page always mirrors the live meetup
\* list" (meetup-wiki.ts:90): for any number of replies, commands and CLI processes
\* side by side, meetups and titles.
THEOREM MeetupsStayTogether == M!Spec => []MeetupsAgree
<1>1. MeetupsInv => MeetupsAgree
  <2> SUFFICES ASSUME MeetupsInv PROVE MeetupsAgree
    OBVIOUS
  <2>1. ASSUME NEW i \in M!Ids \ hurt, ~M!AtWork(i)
        PROVE  (event[i].there <=> row[i].status = "confirmed") /\ event[i].title = row[i].title
    <3>1. CalendarInv(i) /\ TitlesInv(i)
      BY <2>1 DEF MeetupsInv
    <3>2. \A s \in M!Sessions : session[s].at \in {"insert", "mark", "edit"} => session[s].id # i
      BY <2>1 DEF M!AtWork
    <3>3. row[i].status \in {"none", "confirmed", "cancelled"}
      BY DEF MeetupsInv, MeetupsTyped, M!Rows
    <3>4. event[i].there => row[i].status = "confirmed"
      BY <3>1, <3>2, <3>3 DEF CalendarInv
    <3>5. row[i].status = "confirmed" => event[i].there
      BY <3>1, <3>2 DEF CalendarInv
    <3>6. event[i].title = row[i].title
      BY <3>1, <3>2 DEF TitlesInv
    <3>7. event[i].there \in BOOLEAN
      BY DEF MeetupsInv, MeetupsTyped
    <3> QED
      BY <3>4, <3>5, <3>6, <3>7
  <2>2. M!CalendarMatchesTheRows
    BY <2>1 DEF M!CalendarMatchesTheRows
  <2>3. M!PageMirrorsTheMeetups
    BY DEF MeetupsInv, PageInv, M!PageMirrorsTheMeetups, M!Refreshing
  <2> QED
    BY <2>2, <2>3 DEF MeetupsAgree
<1> QED
  BY <1>1, MeetupsInit, MeetupsStep, PTL DEF M!Spec

-----------------------------------------------------------------------------
(***************************************************************************)
(* Signups: one reminder for each crossing of a threshold.                 *)
(***************************************************************************)

RsvpRounds == [at : Nat, n : Int]
RsvpStages == {"idle", "count", "prev", "record", "fire"}
RsvpSweeps == [at : RsvpStages, second : Nat, occurrence : 0 .. Occurrences, n : Int, prev : RsvpRounds]

SignupsTyped ==
  /\ upcoming \in 1 .. Occurrences /\ second \in Nat
  /\ round \in [1 .. Occurrences -> RsvpRounds]
  /\ signupSweep \in [SignupSweeps -> RsvpSweeps]
  /\ \A s \in SignupSweeps : signupSweep[s].at # "idle" => signupSweep[s].occurrence \in 1 .. Occurrences
  /\ sinceLow \in [Thresholds -> Nat]

\* What was announced of a threshold is what a count of n calls for.
Announced(t, n) == sinceLow[t] = IF n >= t THEN 1 ELSE 0

\* A sweep that is on its way is alone, about the occurrence that is next, and not
\* behind the round it will replace.
AloneInv ==
  /\ \A s, r \in SignupSweeps : signupSweep[s].at # "idle" /\ signupSweep[r].at # "idle" => s = r
  /\ \A s \in SignupSweeps :
       signupSweep[s].at # "idle" =>
         signupSweep[s].occurrence = upcoming /\ signupSweep[s].second \in round[upcoming].at .. second

\* The rounds are those of the past and of the next occurrence, and the count of the
\* latest is what the sweep compares with, or what it has kept.
RoundsInv ==
  /\ \A o \in 1 .. Occurrences : round[o].at <= second /\ (o > upcoming => round[o] = U!None)
  /\ \A s \in SignupSweeps :
       /\ signupSweep[s].at = "record" => signupSweep[s].prev = round[upcoming]
       /\ signupSweep[s].at = "fire" => signupSweep[s].n = round[upcoming].n

\* The reminders, before and while one is due.
RemindersInv ==
  /\ (\A s \in SignupSweeps : signupSweep[s].at # "fire") =>
       \A t \in Thresholds : Announced(t, round[upcoming].n)
  /\ \A s \in SignupSweeps : signupSweep[s].at = "fire" =>
       \A t \in Thresholds :
         IF t \in U!Crossed(s) THEN sinceLow[t] = 0 ELSE Announced(t, round[upcoming].n)

SignupsInv ==
  SignupsTyped /\ (signupMarred \/ (AloneInv /\ RoundsInv /\ RemindersInv))

\* A sweep at rest is of the type.
LEMMA RsvpIdle ==
  /\ U!Idle \in RsvpSweeps /\ U!Idle.at = "idle"
  /\ \A n \in Nat : [U!Idle EXCEPT !.second = n] \in RsvpSweeps /\ [U!Idle EXCEPT !.second = n].at = "idle"
<1>1. 0 \in 0 .. Occurrences
  BY Courses DEF U!SignupsAssumption
<1>2. U!Idle = [at |-> "idle", second |-> 0, occurrence |-> 0, n |-> 0, prev |-> [at |-> 0, n |-> -1]]
  BY DEF U!Idle, U!None
<1>3. U!Idle \in RsvpSweeps /\ U!Idle.at = "idle"
  BY <1>1, <1>2 DEF RsvpSweeps, RsvpStages, RsvpRounds
<1> QED
  BY <1>3 DEF RsvpSweeps

\* Nobody has signed up at first.
LEMMA SignupsInit == U!Init => SignupsInv
<1> SUFFICES ASSUME U!Init PROVE SignupsInv
  OBVIOUS
<1>0. Occurrences \in Nat \ {0} /\ Thresholds \subseteq Nat \ {0}
  BY Courses DEF U!SignupsAssumption
<1>1. /\ upcoming = 1 /\ second = 1 /\ round = [o \in 1 .. Occurrences |-> [at |-> 0, n |-> -1]]
      /\ \A s \in SignupSweeps : signupSweep[s].at = "idle"
      /\ sinceLow = [t \in Thresholds |-> 0] /\ signupSweep = [s \in SignupSweeps |-> U!Idle]
  BY DEF U!Init, U!Idle, U!None
<1>2. SignupsTyped
  <2> QED
    BY <1>0, <1>1, RsvpIdle DEF SignupsTyped, RsvpRounds
<1>3. AloneInv /\ RoundsInv /\ RemindersInv
  BY <1>0, <1>1 DEF AloneInv, RoundsInv, RemindersInv, Announced, U!None
<1> QED
  BY <1>2, <1>3 DEF SignupsInv

\* The fields of a sweep, and what one step of it does to the sweeps.
LEMMA SweepMoved ==
  ASSUME SignupsTyped, NEW s \in SignupSweeps, NEW stage \in RsvpSweeps,
         stage.at # "idle" => stage.occurrence \in 1 .. Occurrences,
         signupSweep' = [signupSweep EXCEPT ![s] = stage]
  PROVE  /\ signupSweep' \in [SignupSweeps -> RsvpSweeps] /\ signupSweep'[s] = stage
         /\ \A r \in SignupSweeps : r # s => signupSweep'[r] = signupSweep[r]
         /\ \A r \in SignupSweeps : signupSweep'[r].at # "idle" => signupSweep'[r].occurrence \in 1 .. Occurrences
BY DEF SignupsTyped

\* The fields of a sweep of the calendar.
LEMMA SweepFields ==
  ASSUME SignupsTyped, NEW s \in SignupSweeps
  PROVE  /\ signupSweep[s].at \in RsvpStages /\ signupSweep[s].second \in Nat
         /\ signupSweep[s].n \in Int /\ signupSweep[s].prev \in RsvpRounds
         /\ signupSweep[s] \in RsvpSweeps
         /\ signupSweep[s].at # "idle" => signupSweep[s].occurrence \in 1 .. Occurrences
BY DEF SignupsTyped, RsvpSweeps, RsvpRounds

\* People, occurrences and the clock go on by themselves.
LEMMA SignupsAround ==
  ASSUME SignupsInv,
         (\E p \in SignupPeople : U!SignUp(p) \/ U!Withdraw(p)) \/ U!Begins \/ U!SecondPasses
  PROVE  SignupsInv'
<1>0. SignupsTyped /\ Occurrences \in Nat \ {0} /\ Thresholds \subseteq Nat \ {0}
  BY Courses DEF U!SignupsAssumption, SignupsInv
<1>1. CASE U!Begins
  <2>1. /\ UNCHANGED <<round, second, signupSweep>> /\ upcoming' = upcoming + 1 /\ upcoming < Occurrences
        /\ sinceLow' = [t \in Thresholds |-> 0]
        /\ ~signupMarred' => ~signupMarred /\ \A s \in SignupSweeps : signupSweep[s].at = "idle"
    BY <1>1 DEF U!Begins
  <2>2. SignupsTyped'
    BY <2>1, <1>0 DEF SignupsTyped
  <2>3. ~signupMarred' => AloneInv' /\ RoundsInv' /\ RemindersInv'
    <3> SUFFICES ASSUME ~signupMarred' PROVE AloneInv' /\ RoundsInv' /\ RemindersInv'
      OBVIOUS
    <3>1. AloneInv'
      BY <2>1 DEF AloneInv
    <3>2. RoundsInv'
      BY <2>1, <1>0 DEF SignupsInv, SignupsTyped, RoundsInv, U!None
    <3>3. round[upcoming'] = U!None /\ upcoming' \in 1 .. Occurrences
      BY <2>1, <1>0 DEF SignupsInv, SignupsTyped, RoundsInv
    <3>4. RemindersInv'
      BY <3>3, <2>1, <1>0 DEF RemindersInv, Announced, U!None
    <3> QED
      BY <3>1, <3>2, <3>4
  <2> QED
    BY <2>2, <2>3 DEF SignupsInv
<1>2. CASE U!SecondPasses \/ \E p \in SignupPeople : U!SignUp(p) \/ U!Withdraw(p)
  <2>1. /\ UNCHANGED <<round, upcoming, signupSweep, sinceLow, signupMarred>>
        /\ second' \in Nat /\ second' >= second
    BY <1>2, <1>0 DEF U!SecondPasses, U!SignUp, U!Withdraw, SignupsTyped
  <2>2. SignupsTyped'
    BY <2>1, <1>0 DEF SignupsTyped
  <2>3. AloneInv => AloneInv'
    <3>1. second \in Nat /\ upcoming \in 1 .. Occurrences /\ round[upcoming].at \in Nat
      BY <1>0 DEF SignupsTyped, RsvpRounds
    <3> QED
      BY <2>1, <3>1 DEF AloneInv
  <2>4. RoundsInv => RoundsInv'
    <3>1. \A o \in 1 .. Occurrences : round[o].at \in Nat
      BY <1>0 DEF SignupsTyped, RsvpRounds
    <3> QED
      BY <2>1, <1>0, <3>1 DEF RoundsInv, U!None, SignupsTyped
  <2>5. RemindersInv => RemindersInv'
    BY <2>1 DEF RemindersInv, Announced, U!Crossed
  <2> QED
    BY <2>1, <2>2, <2>3, <2>4, <2>5 DEF SignupsInv
<1> QED
  BY <1>1, <1>2

\* A sweep begins, counts and looks up the round before.
LEMMA SweepReads ==
  ASSUME SignupsInv, NEW s \in SignupSweeps, U!Start(s) \/ U!Attendees(s) \/ U!Prev(s)
  PROVE  SignupsInv'
<1>0. SignupsTyped /\ Occurrences \in Nat \ {0} /\ Thresholds \subseteq Nat \ {0}
  BY Courses DEF U!SignupsAssumption, SignupsInv
<1>1. PICK stage \in RsvpSweeps :
        /\ signupSweep' = [signupSweep EXCEPT ![s] = stage] /\ stage.occurrence \in 1 .. Occurrences
        /\ stage.at \in {"count", "prev", "record"} /\ signupSweep[s].at \in {"idle", "count", "prev"}
        /\ ~signupMarred' =>
             /\ ~signupMarred
             /\ \/ /\ signupSweep[s].at = "idle" /\ stage.at = "count" /\ stage.occurrence = upcoming
                   /\ stage.second = second /\ \A r \in SignupSweeps \ {s} : signupSweep[r].at = "idle"
                \/ /\ signupSweep[s].at # "idle" /\ stage.at # "count"
                   /\ stage.occurrence = signupSweep[s].occurrence /\ stage.second = signupSweep[s].second
                   /\ stage.at = "record" => stage.prev = round[signupSweep[s].occurrence]
  <2>0. /\ signupSweep[s] \in RsvpSweeps /\ upcoming \in 1 .. Occurrences
        /\ signupSweep[s].at # "idle" => signupSweep[s].occurrence \in 1 .. Occurrences
    BY <1>0 DEF SignupsTyped
  <2>1. CASE U!Start(s)
    <3> DEFINE stage == [U!Idle EXCEPT !.at = "count", !.second = second, !.occurrence = upcoming]
    <3>1. /\ stage \in RsvpSweeps /\ stage.at = "count" /\ stage.second = second
          /\ stage.occurrence = upcoming
      <4>1. U!Idle \in RsvpSweeps /\ second \in Nat /\ upcoming \in 0 .. Occurrences
        BY <1>0, <2>0, RsvpIdle DEF SignupsTyped
      <4> QED
        BY <4>1 DEF RsvpSweeps, RsvpStages
    <3>2. signupSweep' = [signupSweep EXCEPT ![s] = stage]
      BY <2>1 DEF U!Start
    <3>3. /\ signupSweep[s].at = "idle"
          /\ ~signupMarred' => ~signupMarred /\ \A r \in SignupSweeps \ {s} : signupSweep[r].at = "idle"
      BY <2>1 DEF U!Start
    <3> QED
      BY <3>1, <3>2, <3>3, <2>0
  <2>2. CASE U!Attendees(s)
    <3>1. PICK n \in 0 .. U!Cardinality(signed) : signupSweep' = [signupSweep EXCEPT ![s].at = "prev", ![s].n = n]
      BY <2>2 DEF U!Attendees
    <3>1a. n \in Int
      BY <3>1
    <3> DEFINE stage == [signupSweep[s] EXCEPT !.at = "prev", !.n = n]
    <3>2. /\ stage \in RsvpSweeps /\ stage.at = "prev" /\ stage.second = signupSweep[s].second
          /\ stage.occurrence = signupSweep[s].occurrence
      BY <2>0, <3>1a DEF RsvpSweeps, RsvpStages
    <3>3. signupSweep' = [signupSweep EXCEPT ![s] = stage]
      BY <3>1, <1>0 DEF SignupsTyped
    <3>4. signupSweep[s].at = "count" /\ (~signupMarred' => ~signupMarred)
      BY <2>2 DEF U!Attendees, U!Fails, U!Fine
    <3> QED
      BY <3>2, <3>3, <3>4, <2>0
  <2>3. CASE U!Prev(s)
    <3>0. signupSweep[s].at = "prev"
      BY <2>3 DEF U!Prev
    <3>1. CASE signupSweep' = [signupSweep EXCEPT ![s].at = "record"] /\ U!Fails
      <4> DEFINE stage == [signupSweep[s] EXCEPT !.at = "record"]
      <4>1. stage \in RsvpSweeps /\ stage.at = "record" /\ stage.occurrence = signupSweep[s].occurrence
        BY <2>0 DEF RsvpSweeps, RsvpStages
      <4>2. signupSweep' = [signupSweep EXCEPT ![s] = stage] /\ signupMarred'
        BY <3>1, <1>0 DEF SignupsTyped, U!Fails
      <4> QED
        BY <4>1, <4>2, <3>0, <2>0
    <3>2. CASE /\ signupSweep' = [signupSweep EXCEPT ![s].at = "record",
                                                     ![s].prev = round[signupSweep[s].occurrence]]
               /\ U!Fine
      <4> DEFINE stage == [signupSweep[s] EXCEPT !.at = "record",
                                                 !.prev = round[signupSweep[s].occurrence]]
      <4>1. round[signupSweep[s].occurrence] \in RsvpRounds
        BY <2>0, <3>0, <1>0 DEF SignupsTyped
      <4>2. /\ stage \in RsvpSweeps /\ stage.at = "record" /\ stage.second = signupSweep[s].second
            /\ stage.occurrence = signupSweep[s].occurrence
            /\ stage.prev = round[signupSweep[s].occurrence]
        BY <4>1, <2>0 DEF RsvpSweeps, RsvpStages
      <4>3. signupSweep' = [signupSweep EXCEPT ![s] = stage] /\ signupMarred' = signupMarred
        BY <3>2, <1>0 DEF SignupsTyped, U!Fine
      <4> QED
        BY <4>2, <4>3, <3>0, <2>0
    <3> QED
      BY <3>1, <3>2, <2>3 DEF U!Prev
  <2> QED
    BY <2>1, <2>2, <2>3
<1>2. UNCHANGED <<round, upcoming, second, sinceLow>>
  BY DEF U!Start, U!Attendees, U!Prev
<1>3. /\ signupSweep' \in [SignupSweeps -> RsvpSweeps] /\ signupSweep'[s] = stage
      /\ \A r \in SignupSweeps : r # s => signupSweep'[r] = signupSweep[r]
      /\ \A r \in SignupSweeps : signupSweep'[r].at # "idle" => signupSweep'[r].occurrence \in 1 .. Occurrences
  BY <1>0, <1>1, SweepMoved
<1>4. SignupsTyped'
  BY <1>0, <1>2, <1>3 DEF SignupsTyped
<1>5. ~signupMarred' => AloneInv' /\ RoundsInv' /\ RemindersInv'
  <2> SUFFICES ASSUME ~signupMarred' PROVE AloneInv' /\ RoundsInv' /\ RemindersInv'
    OBVIOUS
  <2>1. AloneInv /\ RoundsInv /\ RemindersInv
    BY <1>1 DEF SignupsInv
  <2>2. \A r \in SignupSweeps \ {s} : signupSweep[r].at = "idle" /\ signupSweep'[r].at = "idle"
    BY <1>1, <1>3, <2>1 DEF AloneInv
  <2>3. stage.occurrence = upcoming /\ stage.second \in round[upcoming].at .. second
    <3>1. round[upcoming].at \in Nat /\ upcoming \in 1 .. Occurrences /\ second \in Nat
      BY <1>0 DEF SignupsTyped, RsvpRounds
    <3> QED
      BY <3>1, <1>1, <2>1 DEF AloneInv, RoundsInv
  <2>4. AloneInv'
    BY <1>1, <1>2, <1>3, <2>2, <2>3 DEF AloneInv
  <2>5. stage.at = "record" => stage.prev = round[upcoming]
    BY <1>1, <2>1 DEF AloneInv
  <2>6. RoundsInv'
    BY <1>1, <1>2, <1>3, <2>1, <2>2, <2>5 DEF RoundsInv, U!None
  <2>7. \A r \in SignupSweeps : signupSweep[r].at # "fire" /\ signupSweep'[r].at # "fire"
    BY <1>1, <1>3, <2>2
  <2>8. RemindersInv'
    BY <1>2, <2>1, <2>7 DEF RemindersInv, Announced
  <2> QED
    BY <2>4, <2>6, <2>8
<1> QED
  BY <1>4, <1>5 DEF SignupsInv

\* The round is kept, and what was announced above the count is due again.
LEMMA SweepRecords ==
  ASSUME SignupsInv, NEW s \in SignupSweeps, U!Record(s) PROVE SignupsInv'
<1>0. /\ SignupsTyped /\ Occurrences \in Nat \ {0} /\ Thresholds \subseteq Nat \ {0}
      /\ signupSweep[s] \in RsvpSweeps /\ signupSweep[s].n \in Int /\ signupSweep[s].second \in Nat
      /\ signupSweep[s].at # "idle" => signupSweep[s].occurrence \in 1 .. Occurrences
  BY Courses, SweepFields DEF U!SignupsAssumption, SignupsInv
<1> DEFINE stage == [signupSweep[s] EXCEPT !.at = "fire"]
           kept == [at |-> signupSweep[s].second, n |-> signupSweep[s].n]
<1>1. /\ stage \in RsvpSweeps /\ stage.at = "fire" /\ stage.second = signupSweep[s].second
      /\ stage.occurrence = signupSweep[s].occurrence /\ stage.n = signupSweep[s].n
      /\ stage.prev = signupSweep[s].prev
  BY <1>0 DEF RsvpSweeps, RsvpStages
<1>2. /\ signupSweep' = [signupSweep EXCEPT ![s] = stage] /\ signupSweep[s].at = "record"
      /\ UNCHANGED <<upcoming, second>>
      /\ sinceLow' = [t \in Thresholds |-> IF signupSweep[s].n < t THEN 0 ELSE sinceLow[t]]
  BY <1>0 DEF U!Record, SignupsTyped
<1>3. \/ round' = round
      \/ round' = [round EXCEPT ![signupSweep[s].occurrence] = kept]
  BY DEF U!Record
<1>4. ~signupMarred' =>
        /\ ~signupMarred /\ signupSweep[s].second # round[signupSweep[s].occurrence].at
        /\ round' = IF signupSweep[s].second > round[signupSweep[s].occurrence].at
                      THEN [round EXCEPT ![signupSweep[s].occurrence] = kept] ELSE round
  BY DEF U!Record, U!Fails
<1>5. /\ signupSweep' \in [SignupSweeps -> RsvpSweeps] /\ signupSweep'[s] = stage
      /\ \A r \in SignupSweeps : r # s => signupSweep'[r] = signupSweep[r]
      /\ \A r \in SignupSweeps : signupSweep'[r].at # "idle" => signupSweep'[r].occurrence \in 1 .. Occurrences
  <2>1. stage.occurrence \in 1 .. Occurrences
    BY <1>0, <1>1, <1>2
  <2> QED
    BY <1>0, <1>1, <1>2, <2>1, SweepMoved
<1> HIDE DEF stage
<1>6. SignupsTyped'
  <2>1. kept \in RsvpRounds
    BY <1>0 DEF RsvpRounds
  <2>2. round' \in [1 .. Occurrences -> RsvpRounds]
    BY <2>1, <1>0, <1>3 DEF SignupsTyped
  <2>3. sinceLow' \in [Thresholds -> Nat]
    BY <1>0, <1>2 DEF SignupsTyped
  <2> QED
    BY <2>2, <2>3, <1>0, <1>2, <1>5 DEF SignupsTyped
<1>7. ~signupMarred' => AloneInv' /\ RoundsInv' /\ RemindersInv'
  <2> SUFFICES ASSUME ~signupMarred' PROVE AloneInv' /\ RoundsInv' /\ RemindersInv'
    OBVIOUS
  <2>1. AloneInv /\ RoundsInv /\ RemindersInv
    BY <1>4 DEF SignupsInv
  <2>2. \A r \in SignupSweeps \ {s} : signupSweep[r].at = "idle" /\ signupSweep'[r].at = "idle"
    BY <1>2, <1>5, <2>1 DEF AloneInv
  <2>3. /\ signupSweep[s].occurrence = upcoming
        /\ signupSweep[s].second \in round[upcoming].at .. second
        /\ signupSweep[s].prev = round[upcoming] /\ upcoming \in 1 .. Occurrences
        /\ round[upcoming].at \in Nat /\ round[upcoming].n \in Int
    BY <1>0, <1>2, <2>1 DEF AloneInv, RoundsInv, SignupsTyped, RsvpRounds
  <2>4. round' = [round EXCEPT ![upcoming] = kept]
    BY <1>0, <1>4, <2>3
  <2>5. /\ round'[upcoming] = kept /\ kept.n = signupSweep[s].n /\ kept.at = signupSweep[s].second
        /\ \A o \in 1 .. Occurrences : o # upcoming => round'[o] = round[o]
    BY <2>3, <2>4, <1>0 DEF SignupsTyped
  <2>6. AloneInv'
    BY <1>0, <1>1, <1>2, <1>5, <2>2, <2>3, <2>5 DEF AloneInv
  <2>7. RoundsInv'
    BY <1>0, <1>1, <1>2, <1>5, <2>1, <2>2, <2>3, <2>5 DEF RoundsInv, U!None, SignupsTyped
  <2>9. RemindersInv'
    <3> SUFFICES ASSUME NEW t \in Thresholds
                 PROVE  IF t \in U!Crossed(s)' THEN sinceLow'[t] = 0
                                              ELSE Announced(t, round[upcoming].n)'
      BY <1>1, <1>5, <2>2 DEF RemindersInv
    <3>1. Announced(t, round[upcoming].n)
      BY <1>2, <2>1, <2>2 DEF RemindersInv
    <3>2. /\ t \in Nat \ {0} /\ round'[upcoming'].n = signupSweep[s].n
          /\ sinceLow'[t] = IF signupSweep[s].n < t THEN 0 ELSE sinceLow[t]
      BY <1>0, <1>2, <2>5
    <3>3. t \in U!Crossed(s)' <=>
            /\ (IF round[upcoming] = U!None THEN 0 ELSE round[upcoming].n) < t
            /\ signupSweep[s].n >= t
      BY <1>1, <1>5, <2>3 DEF U!Crossed, U!None
    <3>4. round[upcoming] = U!None => round[upcoming].n = -1
      BY DEF U!None
    <3>5. CASE signupSweep[s].n < t
      BY <3>2, <3>3, <3>5, <1>0 DEF Announced
    <3>6. CASE signupSweep[s].n >= t
      BY <3>1, <3>2, <3>3, <3>4, <3>6, <2>3, <1>0 DEF Announced
    <3> QED
      BY <3>5, <3>6, <1>0, <3>2
  <2> QED
    BY <2>6, <2>7, <2>9
<1> QED
  BY <1>6, <1>7 DEF SignupsInv

\* The reminder, for all the thresholds that were crossed.
LEMMA SweepFires ==
  ASSUME SignupsInv, NEW s \in SignupSweeps, U!Fire(s) PROVE SignupsInv'
<1>0. SignupsTyped /\ Occurrences \in Nat \ {0} /\ Thresholds \subseteq Nat \ {0}
  BY Courses DEF U!SignupsAssumption, SignupsInv
<1> DEFINE stage == [U!Idle EXCEPT !.second = second]
<1>1. stage \in RsvpSweeps /\ stage.at = "idle"
  BY <1>0, RsvpIdle DEF SignupsTyped
<1>2. /\ signupSweep' = [signupSweep EXCEPT ![s] = stage] /\ signupSweep[s].at = "fire"
      /\ UNCHANGED <<upcoming, second, round, signupMarred>>
      /\ sinceLow' = [t \in Thresholds |-> IF t \in U!Crossed(s) THEN U!More(sinceLow[t]) ELSE sinceLow[t]]
  BY DEF U!Fire
<1>3. /\ signupSweep' \in [SignupSweeps -> RsvpSweeps] /\ signupSweep'[s].at = "idle"
      /\ \A r \in SignupSweeps : r # s => signupSweep'[r] = signupSweep[r]
      /\ \A r \in SignupSweeps : signupSweep'[r].at # "idle" => signupSweep'[r].occurrence \in 1 .. Occurrences
  BY <1>0, <1>1, <1>2, SweepMoved
<1> HIDE DEF stage
<1>4. SignupsTyped'
  BY <1>0, <1>2, <1>3 DEF SignupsTyped, U!More
<1>5. ~signupMarred' => AloneInv' /\ RoundsInv' /\ RemindersInv'
  <2> SUFFICES ASSUME ~signupMarred' PROVE AloneInv' /\ RoundsInv' /\ RemindersInv'
    OBVIOUS
  <2>1. AloneInv /\ RoundsInv /\ RemindersInv
    BY <1>2 DEF SignupsInv
  <2>2. \A r \in SignupSweeps : signupSweep'[r].at = "idle"
    BY <1>2, <1>3, <2>1 DEF AloneInv
  <2>3. AloneInv' /\ RoundsInv'
    BY <1>2, <2>1, <2>2 DEF AloneInv, RoundsInv, U!None
  <2>4. ASSUME NEW t \in Thresholds PROVE Announced(t, round[upcoming].n)'
    <3>1. IF t \in U!Crossed(s) THEN sinceLow[t] = 0 ELSE Announced(t, round[upcoming].n)
      BY <1>2, <2>1 DEF RemindersInv
    <3>2. t \in U!Crossed(s) => round[upcoming].n >= t
      BY <1>2, <2>1 DEF RoundsInv, U!Crossed
    <3> QED
      BY <1>2, <3>1, <3>2 DEF Announced, U!More
  <2> QED
    BY <2>2, <2>3, <2>4 DEF RemindersInv
<1> QED
  BY <1>4, <1>5 DEF SignupsInv

\* Every step of the calendar, the people and the sweeps.
LEMMA SignupsStep == SignupsInv /\ [U!Next]_U!signupVars => SignupsInv'
<1> SUFFICES ASSUME SignupsInv, [U!Next]_U!signupVars PROVE SignupsInv'
  OBVIOUS
<1>1. CASE UNCHANGED U!signupVars
  <2> USE <1>1 DEF U!signupVars
  <2>1. SignupsTyped'
    BY DEF SignupsInv, SignupsTyped
  <2>2. (AloneInv => AloneInv') /\ (RoundsInv => RoundsInv')
    BY DEF AloneInv, RoundsInv, U!None
  <2>3. RemindersInv => RemindersInv'
    BY DEF RemindersInv, Announced, U!Crossed
  <2> QED
    BY <2>1, <2>2, <2>3 DEF SignupsInv
<1>2. CASE U!WorkerDies
  <2>1. /\ signupSweep' = [s \in SignupSweeps |-> [U!Idle EXCEPT !.second = second]] /\ signupMarred'
        /\ UNCHANGED <<upcoming, second, round, sinceLow>>
    BY <1>2 DEF U!WorkerDies, U!Fails
  <2>2. SignupsTyped
    BY DEF SignupsInv
  <2>3. [U!Idle EXCEPT !.second = second] \in RsvpSweeps /\ [U!Idle EXCEPT !.second = second].at = "idle"
    BY <2>2, RsvpIdle DEF SignupsTyped
  <2> QED
    BY <2>1, <2>2, <2>3 DEF SignupsInv, SignupsTyped
<1> QED
  BY <1>1, <1>2, SignupsAround, SweepReads, SweepRecords, SweepFires DEF U!Next

\* "a 'limited slots' reminder fires once" (feishu-user.ts:500) when a threshold is
\* crossed between two rounds, and what the first round had reached brings no more than
\* one: for any thresholds, any people, sweeps and occurrences, as long as no sweep
\* fails or overlaps another.
THEOREM RemindersFireOnce == U!Spec => []ReminderFiresOncePerCrossing
<1>1. SignupsInv => ReminderFiresOncePerCrossing
  <2> SUFFICES ASSUME SignupsInv, ~signupMarred, NEW t \in Thresholds
               PROVE  IF t \in already THEN sinceLow[t] <= 1
                      ELSE \/ sinceLow[t] = IF round[upcoming].n >= t THEN 1 ELSE 0
                           \/ \E s \in SignupSweeps : /\ signupSweep[s].at = "fire" /\ t \in U!Crossed(s)
                                                      /\ sinceLow[t] = 0
    BY DEF ReminderFiresOncePerCrossing, U!ReminderFiresOncePerCrossing
  <2>1. \/ sinceLow[t] = IF round[upcoming].n >= t THEN 1 ELSE 0
        \/ \E s \in SignupSweeps : signupSweep[s].at = "fire" /\ t \in U!Crossed(s) /\ sinceLow[t] = 0
    BY DEF SignupsInv, RemindersInv, Announced
  <2>2. sinceLow[t] \in {0, 1}
    BY <2>1
  <2> QED
    BY <2>1, <2>2
<1> QED
  BY <1>1, SignupsInit, SignupsStep, PTL DEF U!Spec

-----------------------------------------------------------------------------
(***************************************************************************)
(* Reactions: a like-maniac is announced and rewarded once a week.         *)
(***************************************************************************)

LikeStages == {"idle", "insert", "seed", "check", "record"}
LikeSweepRecords ==
  [at : LikeStages, seeded : BOOLEAN, listed : SUBSET J!Likes, todo : SUBSET Likers,
   award : J!Awards \cup {<<>>}]

ReactionsTyped ==
  /\ week \in 1 .. Weeks /\ given \in [J!Likes -> Nat]
  /\ likes \subseteq J!Likes /\ boxed \subseteq J!Likes /\ seeded \in BOOLEAN
  /\ likeSweep \in [LikeSweeps -> LikeSweepRecords]
  /\ firing \in [J!Awards -> {"none", "begun", "sending", "sent", "failed", "reward"}]
  /\ likeAnnounced \in [J!Awards -> Nat] /\ rewarded \in [J!Awards -> Nat]

\* What a sweep listed or the tables hold was given, in this week or before.
GivenInv ==
  /\ \A l \in J!Likes : given[l] <= week /\ (l \in likes \cup boxed => given[l] # 0)
  /\ \A s \in LikeSweeps : \A l \in likeSweep[s].listed : given[l] # 0

\* A sweep that has not asked the table has nobody to check, and one that is about
\* to record somebody has looked.
SweepsInv ==
  \A s \in LikeSweeps :
    /\ likeSweep[s].at \in {"idle", "insert"} => likeSweep[s].todo = {}
    /\ likeSweep[s].at = "record" => likeSweep[s].award \in J!Awards

\* The stages of the event, what it has sent and paid, and the record it follows.
FiringInv ==
  \A a \in J!Awards :
    /\ firing[a] \in {"begun", "sending"} => likeAnnounced[a] = 0 /\ rewarded[a] = 0
    /\ firing[a] \in {"sent", "reward"} => likeAnnounced[a] = 1 /\ rewarded[a] = 0
    /\ firing[a] = "failed" => rewarded[a] = 0 /\ a \in unnoticed
    /\ rewarded[a] <= likeAnnounced[a] /\ likeAnnounced[a] <= 1
    /\ a \notin recorded => firing[a] = "none" /\ likeAnnounced[a] = 0
    /\ a \in recorded \ unnoticed => rewarded[a] = 1 \/ firing[a] # "none"

\* Who has reached the threshold is on record, or about to be looked at.
NoticedInv ==
  \A a \in J!Awards \ (recorded \cup unnoticed) :
    /\ a[2] >= week
    /\ J!Reached(a) => \E s \in LikeSweeps : a \in J!InHand(s)

ReactionsInv == ReactionsTyped /\ GivenInv /\ SweepsInv /\ FiringInv /\ NoticedInv

\* What an award stands for: its member, its week.
LEMMA AwardPair == \A a \in J!Awards : a = <<a[1], a[2]>> /\ a[1] \in Likers /\ a[2] \in 1 .. Weeks
BY DEF J!Awards

\* Nobody has been liked at first.
LEMMA ReactionsInit == J!Init => ReactionsInv
<1> SUFFICES ASSUME J!Init PROVE ReactionsInv
  OBVIOUS
<1>0. Weeks \in Nat \ {0} /\ Threshold \in Nat \ {0}
  BY Maniacs DEF J!ReactionsAssumption
<1>1. J!Idle \in LikeSweepRecords /\ J!Idle.at = "idle" /\ J!Idle.todo = {} /\ J!Idle.listed = {}
  BY DEF J!Idle, LikeSweepRecords, LikeStages
<1>2. ReactionsTyped
  <2>1. seeded \in BOOLEAN
    BY Zenon DEF J!Init
  <2> QED
    BY <1>0, <1>1, <2>1 DEF J!Init, ReactionsTyped
<1>3. GivenInv /\ SweepsInv
  BY <1>1 DEF J!Init, GivenInv, SweepsInv
<1>4. FiringInv
  BY DEF J!Init, FiringInv
<1>5. NoticedInv
  <2> SUFFICES ASSUME NEW a \in J!Awards PROVE a[2] >= week /\ ~J!Reached(a)
    BY DEF NoticedInv
  <2>1. a[2] >= week
    BY AwardPair DEF J!Init
  <2>2. J!Count(likes, a) = 0
    <3>1. {l \in likes : l[1] = a[1] /\ given[l] = a[2]} = {}
      BY DEF J!Init
    <3>2. J!Cardinality({}) = 0
      BY FS_EmptySet DEF J!Cardinality, Cardinality
    <3> QED
      BY <3>1, <3>2 DEF J!Count
  <2> QED
    BY <2>1, <2>2, <1>0 DEF J!Reached
<1> QED
  BY <1>2, <1>3, <1>4, <1>5 DEF ReactionsInv

\* The fields of a sweep, and one that is at rest.
LEMMA LikeIdle == /\ J!Idle \in LikeSweepRecords /\ J!Idle.at = "idle" /\ J!Idle.todo = {}
                  /\ J!Idle.listed = {}
BY DEF J!Idle, LikeSweepRecords, LikeStages

\* A sweep moves on, and the others stay.
LEMMA LikeSweepMoved ==
  ASSUME ReactionsTyped, NEW s \in LikeSweeps, NEW stage \in LikeSweepRecords,
         likeSweep' = [likeSweep EXCEPT ![s] = stage]
  PROVE  /\ likeSweep' \in [LikeSweeps -> LikeSweepRecords] /\ likeSweep'[s] = stage
         /\ \A r \in LikeSweeps : r # s => likeSweep'[r] = likeSweep[r]
BY DEF ReactionsTyped

\* An award is in a sweep's hand with its member, or by itself.
LEMMA AwardHeld ==
  ASSUME NEW s \in LikeSweeps, NEW a \in J!Awards
  PROVE  /\ a \in J!InHand(s) <=> \/ a[1] \in likeSweep[s].todo
                                  \/ likeSweep[s].at = "record" /\ likeSweep[s].award = a
         /\ a \in J!InHand(s)' <=> \/ a[1] \in likeSweep'[s].todo
                                   \/ likeSweep'[s].at = "record" /\ likeSweep'[s].award = a
<1>1. a = <<a[1], a[2]>> /\ a[2] \in 1 .. Weeks
  BY AwardPair
<1>2. \A todo : a \in {<<m, w>> : m \in todo, w \in 1 .. Weeks} <=> a[1] \in todo
  BY <1>1
<1>3. a \in J!InHand(s) <=> \/ a[1] \in likeSweep[s].todo
                            \/ likeSweep[s].at = "record" /\ likeSweep[s].award = a
  BY <1>2 DEF J!InHand
<1>4. a \in J!InHand(s)' <=> \/ a[1] \in likeSweep'[s].todo
                             \/ likeSweep'[s].at = "record" /\ likeSweep'[s].award = a
  BY <1>2 DEF J!InHand
<1> QED
  BY <1>3, <1>4

\* A threshold is reached by likes that arrive in the table, and by nothing else.
LEMMA ReachedByArrivals ==
  ASSUME NEW a \in J!Awards, J!Reached(a)', likes \subseteq likes',
         \A l \in likes : given'[l] = given[l],
         \A l \in likes' \ likes : a # <<l[1], given'[l]>>
  PROVE  J!Reached(a)
<1>1. a = <<a[1], a[2]>>
  BY AwardPair
<1>2. {l \in likes' : l[1] = a[1] /\ given'[l] = a[2]} = {l \in likes : l[1] = a[1] /\ given[l] = a[2]}
  BY <1>1
<1> QED
  BY <1>2 DEF J!Reached, J!Count

\* Weeks to come have no likes.
LEMMA NotYetReached ==
  ASSUME ReactionsInv, NEW a \in J!Awards, J!Reached(a) PROVE a[2] <= week
<1>1. CASE a[2] > week
  <2>1. {l \in likes : l[1] = a[1] /\ given[l] = a[2]} = {}
    <3>1. \A l \in likes : given[l] <= week /\ given[l] \in Nat
      BY DEF ReactionsInv, GivenInv, ReactionsTyped
    <3>2. a[2] \in Int /\ week \in Int
      BY AwardPair DEF ReactionsInv, ReactionsTyped
    <3> QED
      BY <3>1, <3>2, <1>1
  <2>2. J!Cardinality({}) = 0
    BY FS_EmptySet DEF J!Cardinality, Cardinality
  <2>3. J!Count(likes, a) = 0
    BY <2>1, <2>2 DEF J!Count
  <2> QED
    BY <2>3, Maniacs DEF J!Reached, J!ReactionsAssumption
<1> QED
  BY <1>1, AwardPair DEF ReactionsInv, ReactionsTyped

\* Steps that send and pay nothing.
LEMMA FiringKept ==
  ASSUME FiringInv, UNCHANGED <<firing, likeAnnounced, rewarded, recorded>>, unnoticed \subseteq unnoticed'
  PROVE  FiringInv'
BY DEF FiringInv, J!Awards

\* Steps under which nobody arrives or is let go unnoticed.
LEMMA NoticedKept ==
  ASSUME NoticedInv, UNCHANGED <<week, given, likes>>, recorded \subseteq recorded', unnoticed \subseteq unnoticed',
         \A a \in J!Awards \ (recorded' \cup unnoticed'), s \in LikeSweeps :
           J!Reached(a) /\ a \in J!InHand(s) => \E r \in LikeSweeps : a \in J!InHand(r)'
  PROVE  NoticedInv'
<1>1. \A a \in J!Awards : J!Reached(a)' <=> J!Reached(a)
  BY DEF J!Reached, J!Count
<1>2. \A a \in J!Awards \ (recorded' \cup unnoticed') :
        a[2] >= week' /\ (J!Reached(a)' => \E s \in LikeSweeps : a \in J!InHand(s)')
  BY <1>1 DEF NoticedInv
<1> QED
  BY <1>2 DEF NoticedInv, J!Awards

\* Members, weeks and the database go on by themselves.
LEMMA ReactionsAround ==
  ASSUME ReactionsInv, (\E l \in J!Likes : J!Like(l)) \/ J!Monday \/ J!Outage \/ J!Recovery
  PROVE  ReactionsInv'
<1>0. ReactionsTyped /\ Weeks \in Nat \ {0}
  BY Maniacs DEF ReactionsInv, J!ReactionsAssumption
<1>1. /\ UNCHANGED <<likes, boxed, seeded, likeSweep, recorded, firing, likeAnnounced, rewarded>>
      /\ unnoticed \subseteq unnoticed'
  BY DEF J!Like, J!Monday, J!Outage, J!Recovery, J!table, J!event, J!feishu
<1>2. FiringInv' /\ SweepsInv'
  <2>1. FiringInv'
    BY <1>1, FiringKept DEF ReactionsInv
  <2> QED
    BY <2>1, <1>1 DEF ReactionsInv, SweepsInv, J!Awards
<1>3. \A s \in LikeSweeps : J!InHand(s)' = J!InHand(s)
  BY <1>1 DEF J!InHand
<1>4. CASE \E l \in J!Likes : J!Like(l)
  <2>1. PICK l \in J!Likes : J!Like(l)
    BY <1>4
  <2>2. /\ given[l] = 0 /\ given' = [given EXCEPT ![l] = week] /\ week' = week /\ unnoticed' = unnoticed
        /\ week \in Nat \ {0}
    BY <2>1, <1>0 DEF J!Like, ReactionsTyped
  <2>3. l \notin likes \cup boxed /\ \A s \in LikeSweeps : l \notin likeSweep[s].listed
    BY <2>2 DEF ReactionsInv, GivenInv
  <2>4. ReactionsTyped'
    BY <1>0, <1>1, <2>2 DEF ReactionsTyped, J!Likes, J!Awards, LikeSweepRecords
  <2>5. GivenInv'
    BY <1>0, <1>1, <2>2, <2>3 DEF ReactionsInv, GivenInv, ReactionsTyped, J!Likes
  <2>6. NoticedInv'
    <3>1. \A k \in likes : given'[k] = given[k]
      BY <2>2, <2>3, <1>0 DEF ReactionsTyped
    <3>2. \A a \in J!Awards : J!Reached(a)' => J!Reached(a)
      BY <3>1, <1>1, ReachedByArrivals
    <3> QED
      BY <3>2, <1>1, <1>3, <2>2 DEF ReactionsInv, NoticedInv, J!Awards
  <2> QED
    BY <1>2, <2>4, <2>5, <2>6 DEF ReactionsInv
<1>5. CASE J!Monday
  <2>1. /\ week' = week + 1 /\ week' \in 1 .. Weeks /\ given' = given
        /\ \A a \in J!Awards \ (recorded \cup unnoticed') : a[2] # week
    BY <1>5, <1>0 DEF J!Monday, ReactionsTyped
  <2>2. ReactionsTyped'
    BY <1>0, <1>1, <2>1 DEF ReactionsTyped, J!Likes, J!Awards, LikeSweepRecords
  <2>3. GivenInv'
    BY <1>0, <1>1, <2>1 DEF ReactionsInv, GivenInv, ReactionsTyped, J!Likes
  <2>4. NoticedInv'
    <3>1. \A a \in J!Awards : J!Reached(a)' => J!Reached(a)
      BY <2>1, <1>1, ReachedByArrivals
    <3>2. ASSUME NEW a \in J!Awards \ (recorded' \cup unnoticed') PROVE a[2] >= week'
      <4>1. a \notin recorded \cup unnoticed /\ a[2] # week
        BY <1>1, <2>1
      <4>2. a[2] >= week
        BY <4>1 DEF ReactionsInv, NoticedInv
      <4>3. a[2] \in Int /\ week \in Int
        BY <1>0, AwardPair DEF ReactionsTyped
      <4> QED
        BY <2>1, <4>1, <4>2, <4>3
    <3> QED
      BY <3>1, <3>2, <1>1, <1>3 DEF ReactionsInv, NoticedInv, J!Awards
  <2> QED
    BY <1>2, <2>2, <2>3, <2>4 DEF ReactionsInv
<1>6. CASE J!Outage \/ J!Recovery
  <2>1. UNCHANGED <<week, given, unnoticed>>
    BY <1>6 DEF J!Outage, J!Recovery, J!feishu
  <2>2. ReactionsTyped' /\ GivenInv'
    BY <1>0, <1>1, <2>1 DEF ReactionsInv, GivenInv, ReactionsTyped, J!Likes, J!Awards,
       LikeSweepRecords
  <2>3. NoticedInv'
    BY <1>1, <1>3, <2>1, NoticedKept DEF ReactionsInv
  <2> QED
    BY <1>2, <2>2, <2>3 DEF ReactionsInv
<1> QED
  BY <1>4, <1>5, <1>6

\* A row lands from the outbox.
LEMMA RowReplayed == ASSUME ReactionsInv, NEW l \in J!Likes, J!Replay(l) PROVE ReactionsInv'
<1>0. ReactionsTyped
  BY DEF ReactionsInv
<1>1. /\ UNCHANGED <<week, given, seeded, likeSweep, recorded, firing, likeAnnounced, rewarded>>
      /\ l \in boxed /\ boxed' = boxed \ {l} /\ likes' = likes \cup {l}
      /\ unnoticed' = unnoticed \cup {<<l[1], given[l]>>}
  BY DEF J!Replay, J!event, J!feishu
<1>2. ReactionsTyped' /\ GivenInv' /\ SweepsInv'
  BY <1>0, <1>1 DEF ReactionsInv, GivenInv, SweepsInv, ReactionsTyped, J!Likes, J!Awards,
     LikeSweepRecords
<1>3. FiringInv'
  BY <1>1, FiringKept DEF ReactionsInv
<1>4. \A s \in LikeSweeps : J!InHand(s)' = J!InHand(s)
  BY <1>1 DEF J!InHand
<1>5. \A a \in J!Awards \ unnoticed' : J!Reached(a)' => J!Reached(a)
  BY <1>1, ReachedByArrivals
<1>6. NoticedInv'
  BY <1>1, <1>4, <1>5 DEF ReactionsInv, NoticedInv, J!Awards
<1> QED
  BY <1>2, <1>3, <1>6 DEF ReactionsInv

\* A sweep that keeps whoever it had in hand, or puts them on record or down as
\* unnoticed.
LEMMA SweepNotices ==
  ASSUME ReactionsInv, NEW s \in LikeSweeps, NEW stage \in LikeSweepRecords,
         likeSweep' = [likeSweep EXCEPT ![s] = stage],
         UNCHANGED <<week, given, likes>>, recorded \subseteq recorded', unnoticed \subseteq unnoticed',
         \A a \in J!Awards \ (recorded' \cup unnoticed') :
           J!Reached(a) /\ a \in J!InHand(s) =>
             a[1] \in stage.todo \/ (stage.at = "record" /\ stage.award = a)
  PROVE  NoticedInv'
<1>1. /\ likeSweep'[s] = stage
      /\ \A r \in LikeSweeps : r # s => likeSweep'[r] = likeSweep[r]
  BY LikeSweepMoved DEF ReactionsInv
<1>2. ASSUME NEW a \in J!Awards \ (recorded' \cup unnoticed'), NEW r \in LikeSweeps,
             J!Reached(a), a \in J!InHand(r)
      PROVE  a \in J!InHand(r)'
  <2>1. CASE r = s
    BY <2>1, <1>1, <1>2, AwardHeld
  <2>2. CASE r # s
    BY <2>2, <1>1, <1>2, AwardHeld
  <2> QED
    BY <2>1, <2>2
<1>3. \A a \in J!Awards \ (recorded' \cup unnoticed'), r \in LikeSweeps :
        J!Reached(a) /\ a \in J!InHand(r) => \E q \in LikeSweeps : a \in J!InHand(q)'
  BY <1>2
<1> QED
  BY <1>3, NoticedKept DEF ReactionsInv

\* The types, and what was listed, under a move of a sweep.
LEMMA SweepTyped ==
  ASSUME ReactionsInv, NEW s \in LikeSweeps, NEW stage \in LikeSweepRecords,
         likeSweep' = [likeSweep EXCEPT ![s] = stage],
         UNCHANGED <<week, given>>, seeded' \in BOOLEAN,
         likes' \subseteq J!Likes, boxed' \subseteq J!Likes,
         \A l \in likes' \cup boxed' : given[l] # 0,
         \A l \in stage.listed : given[l] # 0,
         stage.at \in {"idle", "insert"} => stage.todo = {},
         stage.at = "record" => stage.award \in J!Awards,
         firing' \in [J!Awards -> {"none", "begun", "sending", "sent", "failed", "reward"}],
         UNCHANGED <<likeAnnounced, rewarded>>
  PROVE  ReactionsTyped' /\ GivenInv' /\ SweepsInv'
<1>1. /\ likeSweep' \in [LikeSweeps -> LikeSweepRecords] /\ likeSweep'[s] = stage
      /\ \A r \in LikeSweeps : r # s => likeSweep'[r] = likeSweep[r]
  BY LikeSweepMoved DEF ReactionsInv
<1>2. ReactionsTyped'
  BY <1>1 DEF ReactionsInv, ReactionsTyped, J!Likes, J!Awards, LikeSweepRecords
<1>3. GivenInv'
  <2>1. \A l \in J!Likes : given'[l] <= week' /\ (l \in likes' \cup boxed' => given'[l] # 0)
    BY DEF ReactionsInv, GivenInv
  <2>2. ASSUME NEW r \in LikeSweeps PROVE \A l \in likeSweep'[r].listed : given'[l] # 0
    BY <1>1 DEF ReactionsInv, GivenInv
  <2> QED
    BY <2>1, <2>2 DEF GivenInv, J!Likes
<1>4. SweepsInv'
  <2>1. ASSUME NEW r \in LikeSweeps
        PROVE  /\ likeSweep'[r].at \in {"idle", "insert"} => likeSweep'[r].todo = {}
               /\ likeSweep'[r].at = "record" => likeSweep'[r].award \in J!Awards
    BY <1>1 DEF ReactionsInv, SweepsInv
  <2> QED
    BY <2>1 DEF SweepsInv, J!Awards
<1> QED
  BY <1>2, <1>3, <1>4

\* A sweep begins, and ends.
LEMMA LikeSweepRests ==
  ASSUME ReactionsInv, NEW s \in LikeSweeps, J!Start(s) \/ J!Seed(s) \/ J!End(s) PROVE ReactionsInv'
<1>0. ReactionsTyped
  BY DEF ReactionsInv
<1>1. /\ UNCHANGED <<week, given, likes, boxed, recorded, firing, likeAnnounced, rewarded>>
      /\ unnoticed \subseteq unnoticed' /\ (seeded' = seeded \/ seeded' = TRUE)
  BY DEF J!Start, J!Seed, J!End, J!feishu, J!table, J!event
<1>2. PICK stage \in LikeSweepRecords :
        /\ likeSweep' = [likeSweep EXCEPT ![s] = stage] /\ stage.at \in {"idle", "insert"}
        /\ stage.todo = {} /\ \A l \in stage.listed : given[l] # 0
  <2>1. CASE J!Start(s)
    <3>1. PICK stage : /\ stage = [J!Idle EXCEPT !.at = "insert", !.seeded = seeded,
                                     !.listed = {l \in J!Likes : given[l] # 0}]
                       /\ likeSweep' = [likeSweep EXCEPT ![s] = stage]
      BY <2>1 DEF J!Start
    <3>2. /\ stage \in LikeSweepRecords /\ stage.at = "insert" /\ stage.todo = {}
          /\ stage.listed = {l \in J!Likes : given[l] # 0}
      BY <3>1, <1>0 DEF J!Idle, LikeSweepRecords, LikeStages, ReactionsTyped
    <3> QED
      BY <3>1, <3>2
  <2>2. CASE J!Seed(s) \/ J!End(s)
    BY <2>2, LikeIdle DEF J!Seed, J!End
  <2> QED
    BY <2>1, <2>2
<1>3. ReactionsTyped' /\ GivenInv' /\ SweepsInv'
  <2>1. \A l \in likes' \cup boxed' : given[l] # 0
    BY <1>0, <1>1 DEF ReactionsInv, GivenInv, ReactionsTyped
  <2>2. /\ likes' \subseteq J!Likes /\ boxed' \subseteq J!Likes
        /\ firing' \in [J!Awards -> {"none", "begun", "sending", "sent", "failed", "reward"}]
        /\ seeded' \in BOOLEAN
    BY <1>0, <1>1 DEF ReactionsTyped
  <2>3. stage.at # "record"
    BY <1>2
  <2> QED
    BY <1>1, <1>2, <2>1, <2>2, <2>3, SweepTyped
<1>4. FiringInv'
  BY <1>1, FiringKept DEF ReactionsInv
<1>5. ASSUME NEW a \in J!Awards \ (recorded' \cup unnoticed'), J!Reached(a), a \in J!InHand(s)
      PROVE  FALSE
  <2>1. a[1] \in likeSweep[s].todo \/ likeSweep[s].at = "record"
    BY <1>5, AwardHeld
  <2>2. CASE J!Start(s) \/ J!End(s)
    BY <2>1, <2>2 DEF J!Start, J!End, ReactionsInv, SweepsInv
  <2>3. CASE J!Seed(s)
    <3>1. a[1] \in likeSweep[s].todo
      BY <2>1, <2>3 DEF J!Seed
    <3>2. a \in {<<m, w>> : m \in likeSweep[s].todo, w \in 1 .. Weeks}
      BY <3>1, AwardPair
    <3> QED
      BY <3>2, <2>3, <1>5 DEF J!Seed
  <2> QED
    BY <2>2, <2>3
<1>6. NoticedInv'
  BY <1>1, <1>2, <1>5, SweepNotices
<1> QED
  BY <1>3, <1>4, <1>6 DEF ReactionsInv

\* The likes of a list that were not in the table arrive there, or in the outbox.
LEMMA LikesInserted == ASSUME ReactionsInv, NEW s \in LikeSweeps, J!Insert(s) PROVE ReactionsInv'
<1>0. ReactionsTyped
  BY DEF ReactionsInv
<1>1. /\ UNCHANGED <<week, given, seeded, recorded, firing, likeAnnounced, rewarded>>
      /\ unnoticed \subseteq unnoticed' /\ likeSweep[s].at = "insert"
      /\ likes \subseteq likes' /\ boxed \subseteq boxed'
      /\ likes' \subseteq likes \cup likeSweep[s].listed
      /\ boxed' \subseteq boxed \cup likeSweep[s].listed
  BY DEF J!Insert, J!feishu, J!event, J!Fails
<1>2. PICK fresh \in SUBSET likeSweep[s].listed :
        /\ likeSweep' = [likeSweep EXCEPT ![s].at = IF likeSweep[s].seeded THEN "check" ELSE "seed",
                                          ![s].todo = {l[1] : l \in fresh}]
        /\ \A l \in likes' \ likes : l \in fresh \/ <<l[1], given[l]>> \in unnoticed'
  <2>1. CASE diverting /\ likes' = likes
    BY <1>1, <2>1 DEF J!Insert
  <2>2. CASE /\ likes' = likes \cup likeSweep[s].listed
             /\ likeSweep' = [likeSweep EXCEPT
                                ![s].at = IF likeSweep[s].seeded THEN "check" ELSE "seed",
                                ![s].todo = {l[1] : l \in likeSweep[s].listed \ likes}]
    <3>1. likeSweep[s].listed \ likes \in SUBSET likeSweep[s].listed
      OBVIOUS
    <3>2. \A l \in likes' \ likes : l \in likeSweep[s].listed \ likes
      BY <2>2
    <3> QED
      BY <2>2, <3>1, <3>2
  <2>3. CASE /\ unnoticed' = unnoticed \cup J!AwardsOf(likes' \ likes)
             /\ likeSweep' = [likeSweep EXCEPT
                                ![s].at = IF likeSweep[s].seeded THEN "check" ELSE "seed",
                                ![s].todo = {l[1] : l \in {}}]
    <3>1. \A l \in likes' \ likes : <<l[1], given[l]>> \in unnoticed'
      BY <2>3 DEF J!AwardsOf
    <3>2. {} \in SUBSET likeSweep[s].listed
      OBVIOUS
    <3> QED
      BY <2>3, <3>1, <3>2
  <2> QED
    BY <2>1, <2>2, <2>3 DEF J!Insert
<1>3. PICK stage : /\ stage = [likeSweep[s] EXCEPT
                                 !.at = IF likeSweep[s].seeded THEN "check" ELSE "seed",
                                 !.todo = {l[1] : l \in fresh}]
                   /\ likeSweep' = [likeSweep EXCEPT ![s] = stage]
  BY <1>2, <1>0 DEF ReactionsTyped
<1>4. likeSweep[s] \in LikeSweepRecords /\ likeSweep[s].listed \subseteq J!Likes
  BY <1>0 DEF ReactionsTyped, LikeSweepRecords
<1>5. {l[1] : l \in fresh} \subseteq Likers
  BY <1>4 DEF J!Likes
<1>6. /\ stage \in LikeSweepRecords /\ stage.at \in {"check", "seed"}
      /\ stage.todo = {l[1] : l \in fresh} /\ stage.listed = likeSweep[s].listed
  BY <1>3, <1>4, <1>5 DEF LikeSweepRecords, LikeStages
<1>7. \A l \in likeSweep[s].listed : given[l] # 0
  BY DEF ReactionsInv, GivenInv
<1>8. ReactionsTyped' /\ GivenInv' /\ SweepsInv'
  <2>1. \A l \in likes' \cup boxed' : given[l] # 0
    BY <1>0, <1>1, <1>7 DEF ReactionsInv, GivenInv, ReactionsTyped
  <2>2. /\ likes' \subseteq J!Likes /\ boxed' \subseteq J!Likes
        /\ firing' \in [J!Awards -> {"none", "begun", "sending", "sent", "failed", "reward"}]
        /\ seeded' \in BOOLEAN
    BY <1>0, <1>1, <1>4 DEF ReactionsTyped
  <2>3. stage.at # "record" /\ stage.at \notin {"idle", "insert"}
    BY <1>6
  <2>4. \A l \in stage.listed : given[l] # 0
    BY <1>6, <1>7
  <2> QED
    BY <1>1, <1>3, <1>6, <2>1, <2>2, <2>3, <2>4, SweepTyped
<1>9. FiringInv'
  BY <1>1, FiringKept DEF ReactionsInv
<1>10. NoticedInv'
  <2>1. /\ likeSweep'[s] = stage
        /\ \A r \in LikeSweeps : r # s => likeSweep'[r] = likeSweep[r]
    BY <1>0, <1>3, <1>6, LikeSweepMoved
  <2>2. ASSUME NEW a \in J!Awards \ (recorded' \cup unnoticed'), J!Reached(a)'
        PROVE  \E r \in LikeSweeps : a \in J!InHand(r)'
    <3>1. CASE \E l \in likes' \ likes : a = <<l[1], given'[l]>>
      <4>1. PICK l \in likes' \ likes : a = <<l[1], given'[l]>>
        BY <3>1
      <4>2. a[1] = l[1] /\ l \in fresh
        BY <4>1, <1>1, <1>2, <2>2
      <4>3. a[1] \in likeSweep'[s].todo
        BY <4>2, <2>1, <1>6
      <4> QED
        BY <4>3, AwardHeld
    <3>2. CASE \A l \in likes' \ likes : a # <<l[1], given'[l]>>
      <4>1. J!Reached(a)
        BY <1>1, <2>2, <3>2, ReachedByArrivals
      <4>2. a \notin recorded \cup unnoticed
        BY <1>1
      <4>3. PICK r \in LikeSweeps : a \in J!InHand(r)
        BY <4>1, <4>2 DEF ReactionsInv, NoticedInv
      <4>4. r # s
        BY <4>3, <1>1, AwardHeld DEF ReactionsInv, SweepsInv
      <4>5. a \in J!InHand(r)'
        BY <4>3, <4>4, <2>1, AwardHeld
      <4> QED
        BY <4>5
    <3> QED
      BY <3>1, <3>2
  <2>3. \A a \in J!Awards \ (recorded' \cup unnoticed') : a[2] >= week'
    BY <1>1 DEF ReactionsInv, NoticedInv
  <2>4. \A a \in J!Awards \ (recorded' \cup unnoticed') :
          a[2] >= week' /\ (J!Reached(a)' => \E r \in LikeSweeps : a \in J!InHand(r)')
    BY <2>2, <2>3
  <2> QED
    BY <2>4 DEF NoticedInv, J!Awards
<1> QED
  BY <1>8, <1>9, <1>10 DEF ReactionsInv

\* A member is looked at: recorded next, on record already, or short of the threshold.
LEMMA MemberChecked ==
  ASSUME ReactionsInv, NEW s \in LikeSweeps, NEW m \in Likers, J!Check(s, m) PROVE ReactionsInv'
<1> DEFINE a == <<m, week>>
<1>0. ReactionsTyped
  BY DEF ReactionsInv
<1>1. a \in J!Awards /\ a[1] = m /\ a[2] = week
  BY <1>0 DEF J!Awards, ReactionsTyped
<1> HIDE DEF a
<1>2. /\ likeSweep[s].at = "check" /\ m \in likeSweep[s].todo
      /\ UNCHANGED <<week, given, likes, boxed, seeded, recorded, firing, likeAnnounced, rewarded>>
      /\ unnoticed \subseteq unnoticed'
  BY DEF J!Check, J!feishu, J!table, J!event
<1>3. PICK at \in {"check", "record"} :
        /\ likeSweep' = [likeSweep EXCEPT ![s].todo = @ \ {m}, ![s].at = at, ![s].award = a]
        /\ J!Reached(a) /\ a \notin recorded /\ a \notin unnoticed' => at = "record"
  BY DEF J!Check, a
<1>4. likeSweep[s] \in LikeSweepRecords
  BY <1>0 DEF ReactionsTyped
<1>5. PICK stage :
         /\ stage = [likeSweep[s] EXCEPT !.todo = likeSweep[s].todo \ {m}, !.at = at, !.award = a]
         /\ likeSweep' = [likeSweep EXCEPT ![s] = stage]
  BY <1>0, <1>3 DEF ReactionsTyped
<1>6. /\ stage \in LikeSweepRecords /\ stage.todo = likeSweep[s].todo \ {m} /\ stage.award = a
      /\ stage.listed = likeSweep[s].listed /\ stage.at = at
  BY <1>1, <1>3, <1>4, <1>5 DEF LikeSweepRecords, LikeStages
<1>7. ReactionsTyped' /\ GivenInv' /\ SweepsInv'
  <2>1. \A l \in likes' \cup boxed' : given[l] # 0
    BY <1>0, <1>2 DEF ReactionsInv, GivenInv, ReactionsTyped
  <2>2. /\ likes' \subseteq J!Likes /\ boxed' \subseteq J!Likes
        /\ firing' \in [J!Awards -> {"none", "begun", "sending", "sent", "failed", "reward"}]
        /\ seeded' \in BOOLEAN
    BY <1>0, <1>2 DEF ReactionsTyped
  <2>3. stage.at \notin {"idle", "insert"} /\ stage.award \in J!Awards
    BY <1>1, <1>3, <1>6
  <2>4. \A l \in stage.listed : given[l] # 0
    BY <1>6 DEF ReactionsInv, GivenInv
  <2> QED
    BY <1>2, <1>5, <1>6, <2>1, <2>2, <2>3, <2>4, SweepTyped
<1>8. FiringInv'
  BY <1>2, FiringKept DEF ReactionsInv
<1>9. ASSUME NEW b \in J!Awards \ (recorded' \cup unnoticed'), J!Reached(b), b \in J!InHand(s)
      PROVE  b[1] \in stage.todo \/ (stage.at = "record" /\ stage.award = b)
  <2>1. b[1] \in likeSweep[s].todo
    BY <1>2, <1>9, AwardHeld
  <2>2. CASE b[1] = m
    <3>1. b \notin recorded \cup unnoticed /\ b \notin unnoticed'
      BY <1>2, <1>9
    <3>2. b[2] >= week
      BY <3>1 DEF ReactionsInv, NoticedInv
    <3>3. b[2] <= week
      BY <1>9, NotYetReached
    <3>4. b[2] = week
      <4>1. b[2] \in Int /\ week \in Int
        BY <1>0, AwardPair DEF ReactionsTyped
      <4> QED
        BY <3>2, <3>3, <4>1
    <3>5. b = a
      BY <2>2, <3>4, <1>1, AwardPair
    <3> QED
      BY <3>1, <3>5, <1>3, <1>6, <1>9
  <2>3. CASE b[1] # m
    BY <2>1, <2>3, <1>6
  <2> QED
    BY <2>2, <2>3
<1>10. NoticedInv'
  BY <1>2, <1>5, <1>6, <1>9, SweepNotices
<1> QED
  BY <1>7, <1>8, <1>10 DEF ReactionsInv

\* The week's row is inserted, by this sweep or by another.
LEMMA AwardRecorded == ASSUME ReactionsInv, NEW s \in LikeSweeps, J!Record(s) PROVE ReactionsInv'
<1>0. ReactionsTyped
  BY DEF ReactionsInv
<1>1. /\ UNCHANGED <<week, given, likes, boxed, seeded, likeAnnounced, rewarded>>
      /\ unnoticed \subseteq unnoticed' /\ recorded \subseteq recorded'
      /\ likeSweep[s].at = "record"
  BY DEF J!Record, J!feishu, J!table
<1>2. PICK a \in J!Awards : a = likeSweep[s].award
  BY <1>1 DEF ReactionsInv, SweepsInv
<1>3. \/ /\ a \notin recorded /\ recorded' = recorded \cup {a} /\ unnoticed' = unnoticed
         /\ firing' = [firing EXCEPT ![a] = "begun"]
      \/ a \in recorded' /\ UNCHANGED <<recorded, firing, unnoticed>>
      \/ /\ recorded' \in {recorded, recorded \cup {a}} /\ firing' = firing
         /\ unnoticed' = unnoticed \cup {a}
  BY <1>2 DEF J!Record
<1>4. PICK stage : /\ stage = [likeSweep[s] EXCEPT !.at = "check"]
                   /\ likeSweep' = [likeSweep EXCEPT ![s] = stage]
  BY <1>0 DEF J!Record, ReactionsTyped
<1>5. /\ stage \in LikeSweepRecords /\ stage.at = "check" /\ stage.todo = likeSweep[s].todo
      /\ stage.listed = likeSweep[s].listed
  BY <1>0, <1>4 DEF ReactionsTyped, LikeSweepRecords, LikeStages
<1>6. ReactionsTyped' /\ GivenInv' /\ SweepsInv'
  <2>1. \A l \in likes' \cup boxed' : given[l] # 0
    BY <1>0, <1>1 DEF ReactionsInv, GivenInv, ReactionsTyped
  <2>2. /\ likes' \subseteq J!Likes /\ boxed' \subseteq J!Likes /\ seeded' \in BOOLEAN
    BY <1>0, <1>1 DEF ReactionsTyped
  <2>3. firing' \in [J!Awards -> {"none", "begun", "sending", "sent", "failed", "reward"}]
    BY <1>0, <1>3 DEF ReactionsTyped
  <2>4. \A l \in stage.listed : given[l] # 0
    BY <1>5 DEF ReactionsInv, GivenInv
  <2>5. stage.at \notin {"idle", "insert"} /\ stage.at # "record"
    BY <1>5
  <2> QED
    BY <1>1, <1>4, <1>5, <2>1, <2>2, <2>3, <2>4, <2>5, SweepTyped
<1>7. FiringInv'
  <2>1. FiringInv /\ firing \in [J!Awards -> {"none", "begun", "sending", "sent", "failed", "reward"}]
    BY <1>0 DEF ReactionsInv, ReactionsTyped
  <2>2. likeAnnounced[a] = 0 \/ a \in recorded
    BY <2>1 DEF FiringInv
  <2>3. \A b \in J!Awards : likeAnnounced[b] \in Nat /\ rewarded[b] \in Nat
    BY <1>0 DEF ReactionsTyped
  <2>4. CASE a \notin recorded /\ recorded' = recorded \cup {a} /\ unnoticed' = unnoticed
                /\ firing' = [firing EXCEPT ![a] = "begun"]
    <3>1. ASSUME NEW b \in J!Awards, b # a
          PROVE  firing'[b] = firing[b] /\ (b \in recorded' <=> b \in recorded)
      BY <2>1, <2>4, <3>1
    <3>2. firing'[a] = "begun" /\ a \in recorded' /\ likeAnnounced[a] = 0 /\ rewarded[a] = 0
      BY <2>1, <2>2, <2>3, <2>4 DEF FiringInv
    <3>3. ASSUME NEW b \in J!Awards
          PROVE  /\ firing'[b] \in {"begun", "sending"} => likeAnnounced'[b] = 0 /\ rewarded'[b] = 0
                 /\ firing'[b] \in {"sent", "reward"} => likeAnnounced'[b] = 1 /\ rewarded'[b] = 0
                 /\ firing'[b] = "failed" => rewarded'[b] = 0 /\ b \in unnoticed'
                 /\ rewarded'[b] <= likeAnnounced'[b] /\ likeAnnounced'[b] <= 1
                 /\ b \notin recorded' => firing'[b] = "none" /\ likeAnnounced'[b] = 0
                 /\ b \in recorded' \ unnoticed' => rewarded'[b] = 1 \/ firing'[b] # "none"
      <4>1. CASE b = a
        BY <4>1, <3>2, <1>1
      <4>2. CASE b # a
        BY <4>2, <3>1, <2>1, <2>4, <1>1 DEF FiringInv
      <4> QED
        BY <4>1, <4>2
    <3> QED
      BY <3>3 DEF FiringInv, J!Awards
  <2>5. CASE firing' = firing /\ (recorded' \ recorded \subseteq unnoticed')
    BY <2>5, <2>1, <1>1 DEF FiringInv, J!Awards
  <2> QED
    BY <1>3, <2>4, <2>5
<1>8. a \in recorded' \cup unnoticed'
  BY <1>3
<1>9. ASSUME NEW b \in J!Awards \ (recorded' \cup unnoticed'), J!Reached(b), b \in J!InHand(s)
      PROVE  b[1] \in stage.todo
  BY <1>2, <1>5, <1>8, <1>9, AwardHeld
<1>10. NoticedInv'
  BY <1>1, <1>4, <1>5, <1>9, SweepNotices
<1> QED
  BY <1>6, <1>7, <1>10 DEF ReactionsInv

\* The event goes out and pays: one award, one stage further.
LEMMA EventRuns ==
  ASSUME ReactionsInv, NEW a \in J!Awards,
         J!Dispatch(a) \/ J!Send(a) \/ J!WriteBack(a) \/ J!Reward(a)
  PROVE  ReactionsInv'
<1> DEFINE Stages == {"none", "begun", "sending", "sent", "failed", "reward"}
<1>0. ReactionsTyped /\ FiringInv
  BY DEF ReactionsInv
<1>1. /\ UNCHANGED <<week, given, likes, boxed, seeded, likeSweep, recorded>>
      /\ unnoticed \subseteq unnoticed'
  BY DEF J!Dispatch, J!Send, J!WriteBack, J!Reward, J!feishu, J!table
<1>2. /\ likeAnnounced \in [J!Awards -> Nat] /\ rewarded \in [J!Awards -> Nat]
      /\ firing \in [J!Awards -> Stages]
  BY <1>0 DEF ReactionsTyped
<1>3. PICK says \in 0 .. 1, gets \in 0 .. 1, stage \in Stages :
        /\ likeAnnounced' = [likeAnnounced EXCEPT ![a] = says]
        /\ rewarded' = [rewarded EXCEPT ![a] = gets]
        /\ firing' = [firing EXCEPT ![a] = stage]
        /\ stage = "sending" => says = 0 /\ gets = 0
        /\ stage \in {"sent", "reward"} => says = 1 /\ gets = 0
        /\ stage = "failed" => gets = 0 /\ a \in unnoticed'
        /\ stage # "begun" /\ gets <= says
        /\ stage = "none" => gets = 1 \/ a \in unnoticed'
        /\ a \in recorded
  <2>0. /\ likeAnnounced = [likeAnnounced EXCEPT ![a] = likeAnnounced[a]]
        /\ rewarded = [rewarded EXCEPT ![a] = rewarded[a]]
        /\ likeAnnounced[a] \in Nat /\ rewarded[a] \in Nat
        /\ rewarded[a] <= likeAnnounced[a] /\ likeAnnounced[a] <= 1
    BY <1>0, <1>2 DEF FiringInv
  <2>1. CASE J!Dispatch(a)
    <3>1. /\ firing' = [firing EXCEPT ![a] = "sending"] /\ firing[a] = "begun"
          /\ UNCHANGED <<likeAnnounced, rewarded>>
      BY <2>1 DEF J!Dispatch
    <3>2. likeAnnounced[a] = 0 /\ rewarded[a] = 0 /\ a \in recorded
      BY <3>1, <1>0 DEF FiringInv
    <3> QED
      BY <3>1, <3>2, <2>0
  <2>2. CASE J!Send(a)
    <3>1. firing[a] = "sending" /\ rewarded' = rewarded
      BY <2>2 DEF J!Send
    <3>2. likeAnnounced[a] = 0 /\ rewarded[a] = 0 /\ a \in recorded
      BY <3>1, <1>0 DEF FiringInv
    <3>3. \/ /\ likeAnnounced' = [likeAnnounced EXCEPT ![a] = 1]
             /\ firing' = [firing EXCEPT ![a] = "sent"]
          \/ /\ likeAnnounced' \in {likeAnnounced, [likeAnnounced EXCEPT ![a] = 1]}
             /\ firing' = [firing EXCEPT ![a] = "failed"] /\ a \in unnoticed'
      BY <2>2, <3>2, <1>2 DEF J!Send
    <3>4. PICK says \in 0 .. 1, stage \in {"sent", "failed"} :
            /\ likeAnnounced' = [likeAnnounced EXCEPT ![a] = says]
            /\ firing' = [firing EXCEPT ![a] = stage]
            /\ (stage = "sent" => says = 1) /\ (stage = "failed" => a \in unnoticed')
      BY <2>0, <3>2, <3>3
    <3>5. rewarded' = [rewarded EXCEPT ![a] = 0]
      BY <2>0, <3>1, <3>2
    <3>6. stage # "none" /\ stage \in Stages /\ 0 \in 0 .. 1 /\ 0 <= says
      BY <3>4
    <3> QED
      BY <3>2, <3>4, <3>5, <3>6
  <2>3. CASE J!WriteBack(a)
    <3>1. /\ firing[a] \in {"sent", "failed"} /\ UNCHANGED <<likeAnnounced, rewarded, unnoticed>>
          /\ firing' = [firing EXCEPT ![a] = IF firing[a] = "sent" THEN "reward" ELSE "none"]
      BY <2>3, <1>2 DEF J!WriteBack
    <3>2. a \in recorded /\ rewarded[a] = 0
      BY <3>1, <1>0 DEF FiringInv
    <3>3. CASE firing[a] = "sent"
      <4>1. likeAnnounced[a] = 1 /\ firing' = [firing EXCEPT ![a] = "reward"]
        BY <3>1, <3>3, <1>0 DEF FiringInv
      <4> QED
        BY <4>1, <3>1, <3>2, <2>0
    <3>4. CASE firing[a] = "failed"
      <4>1. a \in unnoticed' /\ firing' = [firing EXCEPT ![a] = "none"] /\ likeAnnounced[a] \in 0 .. 1
        BY <3>1, <3>4, <1>0, <2>0 DEF FiringInv
      <4> QED
        BY <4>1, <3>1, <3>2, <2>0
    <3> QED
      BY <3>1, <3>3, <3>4
  <2>4. CASE J!Reward(a)
    <3>1. firing[a] = "reward" /\ likeAnnounced' = likeAnnounced /\ firing' = [firing EXCEPT ![a] = "none"]
      BY <2>4 DEF J!Reward
    <3>2. likeAnnounced[a] = 1 /\ rewarded[a] = 0 /\ a \in recorded
      BY <3>1, <1>0 DEF FiringInv
    <3>3. \/ rewarded' = rewarded /\ a \in unnoticed'
          \/ rewarded' = [rewarded EXCEPT ![a] = 1]
      BY <2>4, <3>2, <1>2 DEF J!Reward
    <3>4. PICK gets \in 0 .. 1 : /\ rewarded' = [rewarded EXCEPT ![a] = gets]
                                 /\ gets = 1 \/ a \in unnoticed'
      BY <3>2, <3>3, <2>0
    <3>5. likeAnnounced' = [likeAnnounced EXCEPT ![a] = 1]
      BY <3>1, <3>2, <2>0
    <3>6. 1 \in 0 .. 1 /\ "none" \in Stages /\ gets <= 1
      BY <3>4
    <3> QED
      BY <3>1, <3>2, <3>4, <3>5, <3>6
  <2> QED
    BY <2>1, <2>2, <2>3, <2>4
<1>4. /\ likeAnnounced'[a] = says /\ rewarded'[a] = gets /\ firing'[a] = stage
      /\ \A b \in J!Awards : b # a => /\ likeAnnounced'[b] = likeAnnounced[b]
                                      /\ rewarded'[b] = rewarded[b] /\ firing'[b] = firing[b]
  BY <1>2, <1>3
<1>5. FiringInv'
  <2>1. ASSUME NEW b \in J!Awards
        PROVE  /\ firing'[b] \in {"begun", "sending"} => likeAnnounced'[b] = 0 /\ rewarded'[b] = 0
               /\ firing'[b] \in {"sent", "reward"} => likeAnnounced'[b] = 1 /\ rewarded'[b] = 0
               /\ firing'[b] = "failed" => rewarded'[b] = 0 /\ b \in unnoticed'
               /\ rewarded'[b] <= likeAnnounced'[b] /\ likeAnnounced'[b] <= 1
               /\ b \notin recorded' => firing'[b] = "none" /\ likeAnnounced'[b] = 0
               /\ b \in recorded' \ unnoticed' => rewarded'[b] = 1 \/ firing'[b] # "none"
    <3>1. CASE b = a
      BY <3>1, <1>1, <1>3, <1>4
    <3>2. CASE b # a
      BY <3>2, <1>0, <1>1, <1>4 DEF FiringInv
    <3> QED
      BY <3>1, <3>2
  <2> QED
    BY <2>1 DEF FiringInv, J!Awards
<1>6. ReactionsTyped'
  <2>1. /\ likeAnnounced' \in [J!Awards -> Nat] /\ rewarded' \in [J!Awards -> Nat]
        /\ firing' \in [J!Awards -> Stages]
    BY <1>2, <1>3
  <2> QED
    BY <2>1, <1>0, <1>1 DEF ReactionsTyped, J!Likes, J!Awards, LikeSweepRecords
<1>7. GivenInv' /\ SweepsInv'
  BY <1>1 DEF ReactionsInv, GivenInv, SweepsInv, J!Likes, J!Awards
<1>8. \A s \in LikeSweeps : J!InHand(s)' = J!InHand(s)
  BY <1>1 DEF J!InHand
<1>9. NoticedInv'
  BY <1>1, <1>8, NoticedKept DEF ReactionsInv
<1> QED
  BY <1>5, <1>6, <1>7, <1>9 DEF ReactionsInv

\* The worker dies: what it had in hand goes unnoticed, what was says stays says.
LEMMA ReactionsLost == ASSUME ReactionsInv, J!WorkerDies PROVE ReactionsInv'
<1>0. ReactionsTyped
  BY DEF ReactionsInv
<1>1. /\ UNCHANGED <<week, given, likes, boxed, seeded, recorded, likeAnnounced, rewarded>>
      /\ likeSweep' = [s \in LikeSweeps |-> J!Idle] /\ firing' = [a \in J!Awards |-> "none"]
      /\ unnoticed \subseteq unnoticed'
      /\ \A a \in J!Awards : firing[a] # "none" => a \in unnoticed'
      /\ \A s \in LikeSweeps : J!InHand(s) \subseteq unnoticed'
  BY DEF J!WorkerDies, J!feishu, J!table
<1>2. \A s \in LikeSweeps : likeSweep'[s] = J!Idle
  BY <1>1
<1>3. ReactionsTyped'
  <2>1. /\ likeSweep' \in [LikeSweeps -> LikeSweepRecords]
        /\ firing' \in [J!Awards -> {"none", "begun", "sending", "sent", "failed", "reward"}]
    BY <1>1, LikeIdle
  <2> QED
    BY <2>1, <1>0, <1>1 DEF ReactionsTyped, J!Likes, J!Awards, LikeSweepRecords
<1>4. GivenInv' /\ SweepsInv'
  BY <1>1, <1>2, LikeIdle DEF ReactionsInv, GivenInv, SweepsInv, J!Likes, J!Awards
<1>5. FiringInv'
  <2>1. ASSUME NEW a \in J!Awards
        PROVE  /\ firing'[a] = "none"
               /\ rewarded'[a] <= likeAnnounced'[a] /\ likeAnnounced'[a] <= 1
               /\ a \notin recorded' => likeAnnounced'[a] = 0
               /\ a \in recorded' \ unnoticed' => rewarded'[a] = 1
    BY <1>1 DEF ReactionsInv, FiringInv
  <2> QED
    BY <2>1 DEF FiringInv, J!Awards
<1>6. NoticedInv'
  <2>1. \A a \in J!Awards \ (recorded' \cup unnoticed'), s \in LikeSweeps : ~(a \in J!InHand(s))
    BY <1>1
  <2> QED
    BY <2>1, <1>1, NoticedKept DEF ReactionsInv
<1> QED
  BY <1>3, <1>4, <1>5, <1>6 DEF ReactionsInv

\* Every step of the sweeps and the events.
LEMMA ReactionsStep == ReactionsInv /\ [J!Next]_(J!reactionVars) => ReactionsInv'
<1> SUFFICES ASSUME ReactionsInv, [J!Next]_(J!reactionVars) PROVE ReactionsInv'
  OBVIOUS
<1>1. CASE UNCHANGED J!reactionVars
  <2>1. UNCHANGED <<week, given, likes, boxed, seeded, likeSweep, recorded, firing, likeAnnounced,
                    rewarded, unnoticed>>
    BY <1>1 DEF J!reactionVars
  <2>2. ReactionsTyped' /\ GivenInv' /\ SweepsInv'
    BY <2>1 DEF ReactionsInv, ReactionsTyped, GivenInv, SweepsInv, J!Likes, J!Awards,
       LikeSweepRecords
  <2>3. FiringInv'
    BY <2>1, FiringKept DEF ReactionsInv
  <2>4. \A s \in LikeSweeps : J!InHand(s)' = J!InHand(s)
    BY <2>1 DEF J!InHand
  <2>5. NoticedInv'
    BY <2>1, <2>4, NoticedKept DEF ReactionsInv
  <2> QED
    BY <2>2, <2>3, <2>5 DEF ReactionsInv
<1>2. CASE \E l \in J!Likes : J!Like(l) \/ J!Replay(l)
  BY <1>2, ReactionsAround, RowReplayed
<1>3. CASE J!Monday \/ J!Outage \/ J!Recovery
  BY <1>3, ReactionsAround
<1>4. CASE J!WorkerDies
  BY <1>4, ReactionsLost
<1>5. CASE \E s \in LikeSweeps : \/ J!Start(s) \/ J!Insert(s) \/ J!Seed(s) \/ J!Record(s) \/ J!End(s)
                                 \/ \E m \in Likers : J!Check(s, m)
  BY <1>5, LikeSweepRests, LikesInserted, AwardRecorded, MemberChecked
<1>6. CASE \E a \in J!Awards : J!Dispatch(a) \/ J!Send(a) \/ J!WriteBack(a) \/ J!Reward(a)
  BY <1>6, EventRuns
<1> QED
  BY <1>1, <1>2, <1>3, <1>4, <1>5, <1>6 DEF J!Next

\* A like-maniac is announced at most once a week and rewarded only with the post,
\* however the sweeps overlap, the worker dies and calls fail; and whoever reached
\* the threshold is announced and rewarded or about to be, unless in the cases the
\* code lets go unnoticed.
THEOREM LikeManiacsAreNoticedOnce == J!Spec => []LikeManiacOncePerWeek
<1>1. ReactionsInv => LikeManiacOncePerWeek
  <2> SUFFICES ASSUME ReactionsInv, NEW a \in J!Awards
               PROVE  /\ rewarded[a] <= likeAnnounced[a] /\ likeAnnounced[a] <= 1
                      /\ J!Reached(a) /\ a \notin unnoticed =>
                           \/ rewarded[a] = 1 \/ firing[a] # "none"
                           \/ \E s \in LikeSweeps : a \in J!InHand(s)
    BY DEF LikeManiacOncePerWeek, J!LikeManiacOncePerWeek
  <2>1. CASE a \in recorded
    BY <2>1 DEF ReactionsInv, FiringInv
  <2>2. CASE a \notin recorded
    BY <2>2 DEF ReactionsInv, FiringInv, NoticedInv
  <2> QED
    BY <2>1, <2>2
<1>2. J!Spec => []ReactionsInv
  BY ReactionsInit, ReactionsStep, PTL DEF J!Spec
<1> QED
  BY <1>1, <1>2, PTL

-----------------------------------------------------------------------------
(***************************************************************************)
(* LogSink: the chat shows the whole log, in order, or tells of the rest.  *)
(***************************************************************************)

LogEntries == SUBSET Nat
LogFlights == [batch : Seq(LogEntries), rest : Seq(LogEntries)]
Before(low, high) == \A x \in low, y \in high : x < y
Ordered(entries) ==
  \A i, j \in 1 .. Len(entries) : i < j => Before(entries[i], entries[j])

SinkTyped ==
  /\ emitted \in Nat /\ buffer \in Seq(LogEntries) /\ shown \in Seq(LogEntries)
  /\ flight \in [LogTimers -> LogFlights]

\* A timer starts no flush while another's is under way.
OneFlight ==
  \A t, r \in LogTimers : flight[t] # O!Rested /\ flight[r] # O!Rested => t = r

\* Nothing is told before it was pushed; what is left of a batch is part of it.
ToldInv ==
  /\ O!Told(buffer) \cup O!Told(shown) \subseteq 1 .. emitted
  /\ \A t \in LogTimers : /\ O!Told(flight[t].rest) \subseteq O!Told(flight[t].batch)
                          /\ O!Told(flight[t].batch) \subseteq 1 .. emitted

\* The chat, the batch and what came meanwhile follow on one another.
OrderInv ==
  /\ Ordered(shown) /\ Ordered(buffer) /\ Before(O!Told(shown), O!Told(buffer))
  /\ \A t \in LogTimers :
       /\ Ordered(flight[t].batch) /\ Ordered(flight[t].rest)
       /\ Before(O!Told(shown), O!Told(flight[t].rest))
       /\ Before(O!Told(flight[t].batch), O!Told(buffer))

AccountInv ==
  /\ severed => ~sinkUp
  /\ ~severed => 1 .. emitted = seen \cup O!Told(buffer)
                                     \cup UNION {O!Told(flight[t].rest) : t \in LogTimers}

SinkInv == SinkTyped /\ OneFlight /\ ToldInv /\ OrderInv /\ AccountInv

\* What the entries of a sequence tell of.
LEMMA ToldIn ==
  ASSUME NEW s \in Seq(LogEntries), NEW x
  PROVE  x \in O!Told(s) <=> \E i \in 1 .. Len(s) : x \in s[i]
<1>1. DOMAIN s = 1 .. Len(s)
  OBVIOUS
<1> QED
  BY <1>1 DEF O!Told, O!Range

\* A stretch of a sequence, in its order.
LEMMA Stretch ==
  ASSUME NEW s \in Seq(LogEntries), NEW a \in Nat \ {0}, NEW b \in Nat, a <= b + 1, b <= Len(s)
  PROVE  /\ SubSeq(s, a, b) \in Seq(LogEntries) /\ Len(SubSeq(s, a, b)) = b - a + 1
         /\ \A x : x \in O!Told(SubSeq(s, a, b)) <=> \E i \in a .. b : x \in s[i]
         /\ Ordered(s) => Ordered(SubSeq(s, a, b))
<1> DEFINE u == SubSeq(s, a, b)
<1>1. u \in Seq(LogEntries) /\ Len(u) = b - a + 1
  OBVIOUS
<1>2. \A i \in 1 .. Len(u) : u[i] = s[a + i - 1] /\ a + i - 1 \in a .. b
  BY <1>1
<1>3. \A i \in a .. b : i - a + 1 \in 1 .. Len(u) /\ u[i - a + 1] = s[i]
  BY <1>1, <1>2
<1> HIDE DEF u
<1>4. ASSUME NEW x PROVE x \in O!Told(u) <=> \E i \in a .. b : x \in s[i]
  <2>1. x \in O!Told(u) <=> \E i \in 1 .. Len(u) : x \in u[i]
    BY <1>1, ToldIn
  <2>2. (\E i \in 1 .. Len(u) : x \in u[i]) => \E i \in a .. b : x \in s[i]
    BY <1>2
  <2>3. (\E i \in a .. b : x \in s[i]) => \E i \in 1 .. Len(u) : x \in u[i]
    BY <1>3
  <2> QED
    BY <2>1, <2>2, <2>3
<1>5. ASSUME Ordered(s) PROVE Ordered(u)
  <2>1. \A i \in 1 .. Len(u) : a + i - 1 \in 1 .. Len(s)
    BY <1>1, <1>2
  <2>2. ASSUME NEW i \in 1 .. Len(u), NEW j \in 1 .. Len(u), i < j PROVE Before(u[i], u[j])
    <3>1. a + i - 1 < a + j - 1
      BY <1>1, <2>2
    <3>2. Before(s[a + i - 1], s[a + j - 1])
      BY <1>5, <2>1, <3>1 DEF Ordered
    <3> QED
      BY <3>2, <1>2
  <2> QED
    BY <2>2 DEF Ordered
<1> QED
  BY <1>1, <1>4, <1>5 DEF u

\* A sequence after another.
LEMMA Joined ==
  ASSUME NEW s \in Seq(LogEntries), NEW u \in Seq(LogEntries)
  PROVE  /\ s \o u \in Seq(LogEntries)
         /\ O!Told(s \o u) = O!Told(s) \cup O!Told(u)
         /\ Ordered(s) /\ Ordered(u) /\ Before(O!Told(s), O!Told(u)) => Ordered(s \o u)
<1> DEFINE w == s \o u
<1>1. w \in Seq(LogEntries) /\ Len(w) = Len(s) + Len(u) /\ Len(s) \in Nat /\ Len(u) \in Nat
  OBVIOUS
<1>2. \A i \in 1 .. Len(w) : IF i <= Len(s) THEN i \in 1 .. Len(s) /\ w[i] = s[i]
                             ELSE i - Len(s) \in 1 .. Len(u) /\ w[i] = u[i - Len(s)]
  BY <1>1
<1>3. /\ \A i \in 1 .. Len(s) : i \in 1 .. Len(w) /\ w[i] = s[i]
      /\ \A i \in 1 .. Len(u) : i + Len(s) \in 1 .. Len(w) /\ w[i + Len(s)] = u[i]
  BY <1>1
<1> HIDE DEF w
<1>4. ASSUME NEW x PROVE x \in O!Told(w) <=> x \in O!Told(s) \/ x \in O!Told(u)
  <2>1. /\ x \in O!Told(w) <=> \E i \in 1 .. Len(w) : x \in w[i]
        /\ x \in O!Told(s) <=> \E i \in 1 .. Len(s) : x \in s[i]
        /\ x \in O!Told(u) <=> \E i \in 1 .. Len(u) : x \in u[i]
    BY <1>1, ToldIn
  <2>2. ASSUME NEW i \in 1 .. Len(w), x \in w[i]
        PROVE  (\E j \in 1 .. Len(s) : x \in s[j]) \/ (\E j \in 1 .. Len(u) : x \in u[j])
    BY <1>2, <2>2
  <2> QED
    BY <2>1, <2>2, <1>3
<1>5. ASSUME Ordered(s), Ordered(u), Before(O!Told(s), O!Told(u)) PROVE Ordered(w)
  <2> SUFFICES ASSUME NEW i \in 1 .. Len(w), NEW j \in 1 .. Len(w), i < j,
                      NEW x \in w[i], NEW y \in w[j]
               PROVE  x < y
    BY DEF Ordered, Before
  <2>1. CASE j <= Len(s)
    <3>1. x \in s[i] /\ i \in 1 .. Len(s) /\ y \in s[j] /\ j \in 1 .. Len(s)
      BY <2>1, <1>1, <1>2
    <3> QED
      BY <3>1, <1>5 DEF Ordered, Before
  <2>2. CASE i <= Len(s) /\ ~(j <= Len(s))
    <3>1. x \in s[i] /\ i \in 1 .. Len(s) /\ y \in u[j - Len(s)] /\ j - Len(s) \in 1 .. Len(u)
      BY <2>2, <1>2
    <3>2. x \in O!Told(s) /\ y \in O!Told(u)
      BY <3>1, ToldIn
    <3> QED
      BY <3>2, <1>5 DEF Before
  <2>3. CASE ~(i <= Len(s))
    <3>1. /\ x \in u[i - Len(s)] /\ i - Len(s) \in 1 .. Len(u)
          /\ y \in u[j - Len(s)] /\ j - Len(s) \in 1 .. Len(u) /\ i - Len(s) < j - Len(s)
      BY <2>3, <1>1, <1>2
    <3> QED
      BY <3>1, <1>5 DEF Ordered, Before
  <2> QED
    BY <2>1, <2>2, <2>3, <1>1
<1> QED
  BY <1>1, <1>4, <1>5 DEF w

\* A sequence taken apart.
LEMMA Parted ==
  ASSUME NEW s \in Seq(LogEntries), Ordered(s), NEW n \in 0 .. Len(s)
  PROVE  /\ SubSeq(s, 1, n) \in Seq(LogEntries) /\ SubSeq(s, n + 1, Len(s)) \in Seq(LogEntries)
         /\ Ordered(SubSeq(s, 1, n)) /\ Ordered(SubSeq(s, n + 1, Len(s)))
         /\ O!Told(s) = O!Told(SubSeq(s, 1, n)) \cup O!Told(SubSeq(s, n + 1, Len(s)))
         /\ Before(O!Told(SubSeq(s, 1, n)), O!Told(SubSeq(s, n + 1, Len(s))))
         /\ Len(SubSeq(s, 1, n)) = n
<1> DEFINE h == SubSeq(s, 1, n)  r == SubSeq(s, n + 1, Len(s))
<1>0. Len(s) \in Nat /\ n \in Nat /\ n <= Len(s)
  OBVIOUS
<1>1. /\ h \in Seq(LogEntries) /\ Ordered(h) /\ Len(h) = n
      /\ \A x : x \in O!Told(h) <=> \E i \in 1 .. n : x \in s[i]
  <2>1. 1 \in Nat \ {0} /\ 1 <= n + 1 /\ n - 1 + 1 = n
    BY <1>0
  <2> HIDE DEF h
  <2> QED
    BY <2>1, <1>0, Stretch DEF h
<1>2. /\ r \in Seq(LogEntries) /\ Ordered(r)
      /\ \A x : x \in O!Told(r) <=> \E i \in n + 1 .. Len(s) : x \in s[i]
  <2>1. n + 1 \in Nat \ {0} /\ n + 1 <= Len(s) + 1 /\ Len(s) <= Len(s)
    BY <1>0
  <2> QED
    BY <2>1, <1>0, Stretch
<1> HIDE DEF h, r
<1>3. O!Told(s) = O!Told(h) \cup O!Told(r)
  <2>1. \A i \in 1 .. Len(s) : i \in 1 .. n \/ i \in n + 1 .. Len(s)
    BY <1>0
  <2>2. (\A i \in 1 .. n : i \in 1 .. Len(s)) /\ \A i \in n + 1 .. Len(s) : i \in 1 .. Len(s)
    BY <1>0
  <2> QED
    BY <1>1, <1>2, <2>1, <2>2, ToldIn
<1>4. Before(O!Told(h), O!Told(r))
  <2> SUFFICES ASSUME NEW x \in O!Told(h), NEW y \in O!Told(r) PROVE x < y
    BY DEF Before
  <2>1. PICK i \in 1 .. n : x \in s[i]
    BY <1>1
  <2>2. PICK j \in n + 1 .. Len(s) : y \in s[j]
    BY <1>2
  <2>3. i \in 1 .. Len(s) /\ j \in 1 .. Len(s) /\ i < j
    BY <1>0
  <2> QED
    BY <2>1, <2>2, <2>3 DEF Ordered, Before
<1> QED
  BY <1>1, <1>2, <1>3, <1>4 DEF h, r

\* One entry.
LEMMA OneEntry ==
  ASSUME NEW e \in LogEntries
  PROVE  <<e>> \in Seq(LogEntries) /\ Ordered(<<e>>) /\ O!Told(<<e>>) = e
<1>1. <<e>> \in Seq(LogEntries) /\ Len(<<e>>) = 1 /\ <<e>>[1] = e
  OBVIOUS
<1>2. Ordered(<<e>>)
  BY <1>1 DEF Ordered
<1>3. ASSUME NEW x PROVE x \in O!Told(<<e>>) <=> x \in e
  <2>1. x \in O!Told(<<e>>) <=> \E i \in 1 .. Len(<<e>>) : x \in <<e>>[i]
    BY <1>1, ToldIn
  <2>2. 1 .. Len(<<e>>) = {1}
    BY <1>1
  <2> QED
    BY <2>1, <2>2, <1>1
<1> QED
  BY <1>1, <1>2, <1>3

\* Coalescing leaves no line out and keeps the order.
LEMMA Coalesced ==
  ASSUME NEW s \in Seq(LogEntries), Ordered(s)
  PROVE  /\ O!Coalesce(s) \in Seq(LogEntries) /\ Ordered(O!Coalesce(s))
         /\ O!Told(O!Coalesce(s)) = O!Told(s)
<1>0. /\ MaxBuffer \in Nat /\ KeepHead \in Nat /\ KeepTail \in Nat /\ KeepHead + KeepTail < MaxBuffer
      /\ Len(s) \in Nat
  BY Mirror DEF O!SinkAssumption
<1>1. CASE Len(s) <= MaxBuffer
  BY <1>1 DEF O!Coalesce
<1>2. CASE ~(Len(s) <= MaxBuffer)
  <2>0. /\ KeepHead \in 0 .. Len(s) /\ Len(s) - KeepTail \in Nat
        /\ KeepHead <= Len(s) - KeepTail /\ Len(s) - KeepTail <= Len(s)
    BY <1>0, <1>2
  <2> DEFINE e == Len(s) - KeepTail
             head == SubSeq(s, 1, KeepHead)
             mid == SubSeq(s, KeepHead + 1, e)
             tail == SubSeq(s, e + 1, Len(s))
  <2>1. /\ head \in Seq(LogEntries) /\ Ordered(head)
        /\ \A x : x \in O!Told(head) <=> \E i \in 1 .. KeepHead : x \in s[i]
    BY <1>0, <2>0, Stretch, 1 \in Nat \ {0}, 1 <= KeepHead + 1
  <2>2. /\ mid \in Seq(LogEntries)
        /\ \A x : x \in O!Told(mid) <=> \E i \in KeepHead + 1 .. e : x \in s[i]
    BY <1>0, <2>0, Stretch, KeepHead + 1 \in Nat \ {0}, KeepHead + 1 <= e + 1
  <2>3. /\ tail \in Seq(LogEntries) /\ Ordered(tail)
        /\ \A x : x \in O!Told(tail) <=> \E i \in e + 1 .. Len(s) : x \in s[i]
    BY <1>0, <2>0, Stretch, e + 1 \in Nat \ {0}, e + 1 <= Len(s) + 1
  <2> HIDE DEF head, mid, tail
  <2>4. \A i, j \in 1 .. Len(s) : i < j => \A x \in s[i], y \in s[j] : x < y
    BY DEF Ordered, Before
  <2>5. Before(O!Told(head), O!Told(mid))
    <3>1. \A i \in 1 .. KeepHead, j \in KeepHead + 1 .. e :
            i \in 1 .. Len(s) /\ j \in 1 .. Len(s) /\ i < j
      BY <1>0, <2>0
    <3> QED
      BY <2>1, <2>2, <2>4, <3>1 DEF Before
  <2>6. Before(O!Told(head) \cup O!Told(mid), O!Told(tail))
    <3>1. \A i \in 1 .. KeepHead, j \in e + 1 .. Len(s) :
            i \in 1 .. Len(s) /\ j \in 1 .. Len(s) /\ i < j
      BY <1>0, <2>0
    <3>2. \A i \in KeepHead + 1 .. e, j \in e + 1 .. Len(s) :
            i \in 1 .. Len(s) /\ j \in 1 .. Len(s) /\ i < j
      BY <1>0, <2>0
    <3> QED
      BY <2>1, <2>2, <2>3, <2>4, <3>1, <3>2, SMTT(40) DEF Before
  <2>7. O!Told(s) = O!Told(head) \cup O!Told(mid) \cup O!Told(tail)
    <3>1. \A i \in 1 .. Len(s) :
            i \in 1 .. KeepHead \/ i \in KeepHead + 1 .. e \/ i \in e + 1 .. Len(s)
      BY <1>0, <2>0
    <3>2. \A i : i \in 1 .. KeepHead \/ i \in KeepHead + 1 .. e \/ i \in e + 1 .. Len(s) =>
                   i \in 1 .. Len(s)
      BY <1>0, <2>0
    <3> QED
      BY <2>1, <2>2, <2>3, <3>1, <3>2, ToldIn
  <2>8. O!Told(mid) \in LogEntries
    <3>1. \A i \in KeepHead + 1 .. e : i \in 1 .. Len(s)
      BY <1>0, <2>0
    <3> QED
      BY <2>2, <3>1 DEF LogEntries
  <2> DEFINE note == <<O!Told(mid)>>
  <2>9. note \in Seq(LogEntries) /\ Ordered(note) /\ O!Told(note) = O!Told(mid)
    BY <2>8, OneEntry
  <2> HIDE DEF note
  <2>10. /\ head \o note \in Seq(LogEntries) /\ Ordered(head \o note)
         /\ O!Told(head \o note) = O!Told(head) \cup O!Told(mid)
    BY <2>1, <2>5, <2>9, Joined
  <2>11. /\ (head \o note) \o tail \in Seq(LogEntries) /\ Ordered((head \o note) \o tail)
         /\ O!Told((head \o note) \o tail) = O!Told(s)
    BY <2>3, <2>6, <2>7, <2>10, Joined
  <2>12. O!Coalesce(s) = (head \o note) \o tail
    BY <1>2 DEF O!Coalesce, head, mid, tail, note
  <2> QED
    BY <2>11, <2>12
<1> QED
  BY <1>1, <1>2

\* A flight that is at rest, and a sink with nothing to tell.
LEMMA AtRest ==
  /\ O!Rested \in LogFlights /\ O!Rested.batch = << >> /\ O!Rested.rest = << >>
  /\ << >> \in Seq(LogEntries) /\ Ordered(<< >>) /\ O!Told(<< >>) = {}
<1>1. << >> \in Seq(LogEntries) /\ Len(<< >>) = 0
  OBVIOUS
<1>2. Ordered(<< >>)
  BY <1>1 DEF Ordered
<1>3. ASSUME NEW x PROVE x \notin O!Told(<< >>)
  <2>1. x \in O!Told(<< >>) <=> \E i \in 1 .. Len(<< >>) : x \in << >>[i]
    BY <1>1, ToldIn
  <2> QED
    BY <2>1, <1>1
<1> QED
  BY <1>1, <1>2, <1>3 DEF O!Rested, LogFlights

\* Nothing is in the log at first.
LEMMA SinkInit == O!Init => SinkInv
<1> SUFFICES ASSUME O!Init PROVE SinkInv
  OBVIOUS
<1>1. /\ emitted = 0 /\ buffer = << >> /\ shown = << >> /\ seen = {} /\ severed = FALSE
      /\ \A t \in LogTimers : flight[t] = O!Rested
      /\ flight \in [LogTimers -> LogFlights]
  BY AtRest DEF O!Init
<1>2. SinkTyped /\ OneFlight /\ ToldInv
  BY <1>1, AtRest DEF SinkTyped, OneFlight, ToldInv
<1>3. OrderInv
  BY <1>1, AtRest DEF OrderInv, Before
<1>4. AccountInv
  <2>1. UNION {O!Told(flight[t].rest) : t \in LogTimers} = {} /\ 1 .. emitted = {}
    BY <1>1, AtRest
  <2> QED
    BY <1>1, <2>1, AtRest DEF AccountInv
<1> QED
  BY <1>2, <1>3, <1>4 DEF SinkInv

\* The fields of a flight, and the order of what it holds.
LEMMA FlightOf ==
  ASSUME SinkInv, NEW t \in LogTimers
  PROVE  /\ flight[t] \in LogFlights
         /\ flight[t].batch \in Seq(LogEntries) /\ flight[t].rest \in Seq(LogEntries)
         /\ Ordered(flight[t].batch) /\ Ordered(flight[t].rest)
         /\ Before(O!Told(shown), O!Told(flight[t].rest))
         /\ Before(O!Told(flight[t].batch), O!Told(buffer))
         /\ O!Told(flight[t].rest) \subseteq O!Told(flight[t].batch)
         /\ O!Told(flight[t].batch) \subseteq 1 .. emitted
<1>1. flight[t] \in LogFlights
  BY DEF SinkInv, SinkTyped
<1> QED
  BY <1>1 DEF SinkInv, OrderInv, ToldInv, LogFlights

\* A flight changes, and the others stay.
LEMMA FlightMoved ==
  ASSUME SinkTyped, NEW t \in LogTimers, NEW stage \in LogFlights,
         flight' = [flight EXCEPT ![t] = stage]
  PROVE  /\ flight' \in [LogTimers -> LogFlights] /\ flight'[t] = stage
         /\ \A r \in LogTimers : r # t => flight'[r] = flight[r]
BY DEF SinkTyped

\* Who flies alone holds all that is in flight.
LEMMA Alone ==
  ASSUME SinkInv, NEW t \in LogTimers, flight[t] # O!Rested
  PROVE  /\ \A r \in LogTimers : r # t => flight[r] = O!Rested
         /\ UNION {O!Told(flight[r].rest) : r \in LogTimers} = O!Told(flight[t].rest)
<1>1. \A r \in LogTimers : r # t => flight[r] = O!Rested
  BY DEF SinkInv, OneFlight
<1>2. \A r \in LogTimers : r # t => O!Told(flight[r].rest) = {}
  BY <1>1, AtRest
<1> QED
  BY <1>1, <1>2

\* What is appended comes last.
LEMMA AppendIsJoin ==
  ASSUME NEW s \in Seq(LogEntries), NEW e \in LogEntries PROVE Append(s, e) = s \o <<e>>
OBVIOUS

\* pushLogLine().
LEMMA SinkPushes == ASSUME SinkInv, O!Push PROVE SinkInv'
<1> DEFINE line == {emitted + 1}
<1>0. SinkTyped /\ emitted \in Nat
  BY DEF SinkInv, SinkTyped
<1>1. line \in LogEntries
  BY <1>0 DEF LogEntries
<1>2. /\ emitted' = emitted + 1 /\ UNCHANGED <<flight, shown, seen, sinkUp, severed>>
      /\ buffer' = O!Coalesce(buffer \o <<line>>)
  <2>1. Append(buffer, line) = buffer \o <<line>>
    BY <1>0, <1>1, AppendIsJoin DEF SinkTyped
  <2> QED
    BY <2>1 DEF O!Push
<1>3. <<line>> \in Seq(LogEntries) /\ Ordered(<<line>>) /\ O!Told(<<line>>) = line
  BY <1>1, OneEntry
<1>4. Before(O!Told(buffer), line)
  BY <1>0 DEF SinkInv, ToldInv, Before
<1>5. /\ buffer \o <<line>> \in Seq(LogEntries) /\ Ordered(buffer \o <<line>>)
      /\ O!Told(buffer \o <<line>>) = O!Told(buffer) \cup line
  BY <1>0, <1>3, <1>4, Joined DEF SinkInv, SinkTyped, OrderInv
<1>6. buffer' \in Seq(LogEntries) /\ Ordered(buffer') /\ O!Told(buffer') = O!Told(buffer) \cup line
  BY <1>2, <1>5, Coalesced
<1>7. SinkTyped' /\ OneFlight'
  BY <1>0, <1>2, <1>6 DEF SinkInv, SinkTyped, OneFlight
<1>8. 1 .. emitted' = (1 .. emitted) \cup line
  BY <1>0, <1>2
<1>9. ToldInv'
  <2>1. O!Told(buffer') \cup O!Told(shown') \subseteq 1 .. emitted'
    BY <1>2, <1>6, <1>8 DEF SinkInv, ToldInv
  <2>2. ASSUME NEW t \in LogTimers
        PROVE  /\ O!Told(flight'[t].rest) \subseteq O!Told(flight'[t].batch)
               /\ O!Told(flight'[t].batch) \subseteq 1 .. emitted'
    BY <1>2, <1>8, FlightOf
  <2> QED
    BY <2>1, <2>2 DEF ToldInv
<1>10. OrderInv'
  <2>1. Ordered(shown') /\ Before(O!Told(shown'), O!Told(buffer'))
    <3>1. Before(O!Told(shown), line)
      BY <1>0 DEF SinkInv, ToldInv, Before
    <3> QED
      BY <3>1, <1>2, <1>6 DEF SinkInv, OrderInv, Before
  <2>2. ASSUME NEW t \in LogTimers
        PROVE  /\ Ordered(flight'[t].batch) /\ Ordered(flight'[t].rest)
               /\ Before(O!Told(shown'), O!Told(flight'[t].rest))
               /\ Before(O!Told(flight'[t].batch), O!Told(buffer'))
    <3>1. Before(O!Told(flight[t].batch), line)
      <4>1. O!Told(flight[t].batch) \subseteq 1 .. emitted
        BY FlightOf
      <4> QED
        BY <4>1, <1>0 DEF Before
    <3>2. Before(O!Told(flight[t].batch), O!Told(buffer) \cup line)
      BY <3>1, FlightOf DEF Before
    <3> QED
      BY <3>2, <1>2, <1>6, FlightOf
  <2> QED
    BY <2>1, <2>2, <1>6 DEF OrderInv
<1>11. AccountInv'
  <2>1. \A t \in LogTimers : flight'[t] = flight[t]
    BY <1>2
  <2>2. UNION {O!Told(flight'[t].rest) : t \in LogTimers} = UNION {O!Told(flight[t].rest) : t \in LogTimers}
    BY <2>1
  <2>3. ~severed => 1 .. emitted' = seen \cup O!Told(buffer')
                                     \cup UNION {O!Told(flight[t].rest) : t \in LogTimers}
    BY <1>6, <1>8 DEF SinkInv, AccountInv
  <2> QED
    BY <2>2, <2>3, <1>2 DEF SinkInv, AccountInv
<1> QED
  BY <1>7, <1>9, <1>10, <1>11 DEF SinkInv

\* flushAsync() takes the buffer when nothing is in flight.
LEMMA SinkFlushes == ASSUME SinkInv, NEW t \in LogTimers, O!Flush(t) PROVE SinkInv'
<1>0. SinkTyped
  BY DEF SinkInv
<1>1. /\ \A r \in LogTimers : flight[r] = O!Rested
      /\ buffer' = << >> /\ UNCHANGED <<emitted, shown, seen, sinkUp, severed>>
  BY DEF O!Flush, O!MayFlush, O!Sending
<1>2. PICK stage \in LogFlights : /\ flight' = [flight EXCEPT ![t] = stage]
                                  /\ stage.batch = buffer /\ stage.rest = buffer
  <2>1. [batch |-> buffer, rest |-> buffer] \in LogFlights
    BY <1>0 DEF SinkTyped, LogFlights
  <2> QED
    BY <2>1 DEF O!Flush
<1>3. /\ flight' \in [LogTimers -> LogFlights] /\ flight'[t] = stage
      /\ \A r \in LogTimers : r # t => flight'[r] = O!Rested
  BY <1>0, <1>1, <1>2, FlightMoved
<1>4. SinkTyped' /\ OneFlight'
  BY <1>0, <1>1, <1>3, AtRest DEF SinkTyped, OneFlight
<1>5. /\ Ordered(buffer) /\ Before(O!Told(shown), O!Told(buffer)) /\ Ordered(shown)
      /\ O!Told(buffer) \subseteq 1 .. emitted /\ O!Told(shown) \subseteq 1 .. emitted
  BY DEF SinkInv, OrderInv, ToldInv
<1>6. ASSUME NEW r \in LogTimers
      PROVE  /\ O!Told(flight'[r].rest) \subseteq O!Told(flight'[r].batch)
             /\ O!Told(flight'[r].batch) \subseteq 1 .. emitted'
             /\ Ordered(flight'[r].batch) /\ Ordered(flight'[r].rest)
             /\ Before(O!Told(shown'), O!Told(flight'[r].rest))
             /\ Before(O!Told(flight'[r].batch), O!Told(buffer'))
  <2>1. CASE r = t
    BY <2>1, <1>1, <1>2, <1>3, <1>5, AtRest DEF Before
  <2>2. CASE r # t
    BY <2>2, <1>1, <1>3, AtRest DEF Before
  <2> QED
    BY <2>1, <2>2
<1>7. ToldInv' /\ OrderInv'
  <2>1. ToldInv'
    BY <1>1, <1>5, <1>6, AtRest DEF ToldInv
  <2>2. OrderInv'
    BY <1>1, <1>5, <1>6, AtRest DEF OrderInv, Before
  <2> QED
    BY <2>1, <2>2
<1>8. AccountInv'
  <2>1. UNION {O!Told(flight[r].rest) : r \in LogTimers} = {}
    BY <1>1, AtRest
  <2>2. UNION {O!Told(flight'[r].rest) : r \in LogTimers} = O!Told(buffer)
    BY <1>2, <1>3, AtRest
  <2> QED
    BY <2>1, <2>2, <1>1, AtRest DEF SinkInv, AccountInv
<1> QED
  BY <1>4, <1>7, <1>8 DEF SinkInv

\* postMessage(): the next entries of the batch appear.
LEMMA SinkPosts == ASSUME SinkInv, NEW t \in LogTimers, O!PostChunk(t) PROVE SinkInv'
<1> DEFINE rest == flight[t].rest
<1>0. SinkTyped
  BY DEF SinkInv
<1>1. /\ flight[t] \in LogFlights /\ rest \in Seq(LogEntries) /\ Ordered(rest)
      /\ flight[t].batch \in Seq(LogEntries)
  BY FlightOf
<1>2. rest # << >> /\ UNCHANGED <<emitted, buffer, sinkUp, severed>>
  BY DEF O!PostChunk
<1>3. PICK n \in 1 .. Len(rest) :
        /\ \/ shown' = shown \o SubSeq(rest, 1, n)
           \/ shown' = SubSeq(rest, 1, n)
        /\ seen' = seen \cup O!Told(SubSeq(rest, 1, n))
        /\ flight' = [flight EXCEPT ![t].rest = SubSeq(@, Len(SubSeq(rest, 1, n)) + 1, Len(@))]
  BY DEF O!PostChunk, O!Chunks
<1> DEFINE chunk == SubSeq(rest, 1, n)
           after == SubSeq(rest, n + 1, Len(rest))
<1>4. /\ chunk \in Seq(LogEntries) /\ after \in Seq(LogEntries) /\ Ordered(chunk) /\ Ordered(after)
      /\ O!Told(rest) = O!Told(chunk) \cup O!Told(after)
      /\ Before(O!Told(chunk), O!Told(after)) /\ Len(chunk) = n
  BY <1>1, Parted, n \in 0 .. Len(rest)
<1>5. PICK stage \in LogFlights : /\ flight' = [flight EXCEPT ![t] = stage]
                                  /\ stage.batch = flight[t].batch /\ stage.rest = after
  <2>1. PICK stage : /\ stage = [flight[t] EXCEPT !.rest = after]
                     /\ flight' = [flight EXCEPT ![t] = stage]
    BY <1>0, <1>3, <1>4 DEF SinkTyped
  <2>2. stage \in LogFlights /\ stage.batch = flight[t].batch /\ stage.rest = after
    BY <2>1, <1>1, <1>4 DEF LogFlights
  <2> QED
    BY <2>1, <2>2
<1>6. /\ flight' \in [LogTimers -> LogFlights] /\ flight'[t] = stage
      /\ \A r \in LogTimers : r # t => flight'[r] = flight[r]
  BY <1>0, <1>5, FlightMoved
<1>7. flight[t] # O!Rested
  BY <1>2, AtRest
<1>8. /\ \A r \in LogTimers : r # t => flight[r] = O!Rested
      /\ UNION {O!Told(flight[r].rest) : r \in LogTimers} = O!Told(rest)
  BY <1>7, Alone
<1> HIDE DEF chunk, after, rest
<1>9. /\ Before(O!Told(shown), O!Told(rest)) /\ Ordered(shown) /\ shown \in Seq(LogEntries)
      /\ O!Told(shown) \subseteq 1 .. emitted /\ O!Told(rest) \subseteq O!Told(flight[t].batch)
      /\ O!Told(flight[t].batch) \subseteq 1 .. emitted
      /\ Before(O!Told(flight[t].batch), O!Told(buffer)) /\ Before(O!Told(shown), O!Told(buffer))
  BY FlightOf DEF SinkInv, OrderInv, ToldInv, SinkTyped, rest
<1>10. /\ shown' \in Seq(LogEntries) /\ Ordered(shown')
       /\ O!Told(shown') \subseteq O!Told(shown) \cup O!Told(chunk)
  <2>1. Before(O!Told(shown), O!Told(chunk))
    BY <1>4, <1>9 DEF Before
  <2>2. /\ shown \o chunk \in Seq(LogEntries) /\ Ordered(shown \o chunk)
        /\ O!Told(shown \o chunk) = O!Told(shown) \cup O!Told(chunk)
    BY <1>4, <1>9, <2>1, Joined
  <2>3. shown' = shown \o chunk \/ shown' = chunk
    BY <1>3 DEF chunk
  <2> QED
    BY <2>2, <2>3, <1>4
<1>11. SinkTyped' /\ OneFlight'
  BY <1>0, <1>2, <1>6, <1>8, <1>10 DEF SinkTyped, OneFlight
<1>12. Before(O!Told(shown'), O!Told(after)) /\ Before(O!Told(shown'), O!Told(buffer'))
  <2>1. Before(O!Told(shown) \cup O!Told(chunk), O!Told(after))
    BY <1>4, <1>9 DEF Before
  <2>2. Before(O!Told(shown) \cup O!Told(chunk), O!Told(buffer))
    BY <1>4, <1>9 DEF Before
  <2> QED
    BY <2>1, <2>2, <1>2, <1>10 DEF Before
<1>13. ASSUME NEW r \in LogTimers
       PROVE  /\ O!Told(flight'[r].rest) \subseteq O!Told(flight'[r].batch)
              /\ O!Told(flight'[r].batch) \subseteq 1 .. emitted'
              /\ Ordered(flight'[r].batch) /\ Ordered(flight'[r].rest)
              /\ Before(O!Told(shown'), O!Told(flight'[r].rest))
              /\ Before(O!Told(flight'[r].batch), O!Told(buffer'))
  <2>1. CASE r = t
    BY <2>1, <1>2, <1>4, <1>5, <1>6, <1>9, <1>12, FlightOf
  <2>2. CASE r # t
    BY <2>2, <1>6, <1>8, AtRest DEF Before
  <2> QED
    BY <2>1, <2>2
<1>14. ToldInv'
  <2>1. O!Told(buffer') \cup O!Told(shown') \subseteq 1 .. emitted'
    BY <1>2, <1>4, <1>9, <1>10 DEF SinkInv, ToldInv
  <2> QED
    BY <2>1, <1>13 DEF ToldInv
<1>15. OrderInv'
  <2>1. Ordered(buffer')
    BY <1>2 DEF SinkInv, OrderInv
  <2> QED
    BY <2>1, <1>10, <1>12, <1>13 DEF OrderInv
<1>16. AccountInv'
  <2>1. UNION {O!Told(flight'[r].rest) : r \in LogTimers} = O!Told(after)
    BY <1>5, <1>6, <1>8, AtRest
  <2>2. seen' = seen \cup O!Told(chunk)
    BY <1>3 DEF chunk
  <2> QED
    BY <2>1, <2>2, <1>2, <1>4, <1>8 DEF SinkInv, AccountInv
<1> QED
  BY <1>11, <1>14, <1>15, <1>16 DEF SinkInv

\* A flush that is through, and one whose post fails: the whole batch goes back.
LEMMA SinkLands ==
  ASSUME SinkInv, NEW t \in LogTimers, O!Shipped(t) \/ O!PostFails(t) PROVE SinkInv'
<1>0. SinkTyped /\ Ordered(buffer) /\ Ordered(shown) /\ emitted \in Nat
  BY DEF SinkInv, SinkTyped, OrderInv
<1>1. flight[t] # O!Rested /\ UNCHANGED <<emitted, sinkUp, severed>>
  BY AtRest DEF O!Shipped, O!PostFails
<1>2. flight' = [flight EXCEPT ![t] = O!Rested]
  BY DEF O!Shipped, O!PostFails
<1>3. /\ flight' \in [LogTimers -> LogFlights]
      /\ \A r \in LogTimers : flight'[r] = O!Rested
      /\ UNION {O!Told(flight[r].rest) : r \in LogTimers} = O!Told(flight[t].rest)
  BY <1>0, <1>1, <1>2, AtRest, Alone, FlightMoved
<1>4. UNION {O!Told(flight'[r].rest) : r \in LogTimers} = {}
  BY <1>3, AtRest
<1>5. ASSUME NEW r \in LogTimers
      PROVE  /\ O!Told(flight'[r].rest) = {} /\ O!Told(flight'[r].batch) = {}
             /\ Ordered(flight'[r].batch) /\ Ordered(flight'[r].rest)
  BY <1>3, AtRest
<1>6. CASE O!Shipped(t)
  <2>1. UNCHANGED <<buffer, shown, seen>> /\ flight[t].rest = << >>
    BY <1>6 DEF O!Shipped
  <2>2. SinkTyped' /\ OneFlight'
    BY <1>0, <1>1, <1>3, <2>1 DEF SinkTyped, OneFlight
  <2>3. ToldInv'
    BY <1>1, <1>5, <2>1 DEF SinkInv, ToldInv
  <2>4. OrderInv'
    BY <1>5, <2>1 DEF SinkInv, OrderInv, Before
  <2>5. AccountInv'
    BY <1>1, <1>3, <1>4, <2>1, AtRest DEF SinkInv, AccountInv
  <2> QED
    BY <2>2, <2>3, <2>4, <2>5 DEF SinkInv
<1>7. CASE O!PostFails(t)
  <2>1. /\ buffer' = O!Coalesce(flight[t].batch \o buffer) /\ shown' = << >>
        /\ seen' \in {seen} \cup {seen \cup O!Told(chunk) : chunk \in O!Chunks(t)}
    BY <1>7 DEF O!PostFails, O!Requeued
  <2>2. /\ flight[t].batch \in Seq(LogEntries) /\ Ordered(flight[t].batch)
        /\ Before(O!Told(flight[t].batch), O!Told(buffer)) /\ buffer \in Seq(LogEntries)
    BY <1>0, FlightOf DEF SinkTyped
  <2>3. /\ flight[t].batch \o buffer \in Seq(LogEntries) /\ Ordered(flight[t].batch \o buffer)
        /\ O!Told(flight[t].batch \o buffer) = O!Told(flight[t].batch) \cup O!Told(buffer)
    BY <1>0, <2>2, Joined
  <2>4. /\ buffer' \in Seq(LogEntries) /\ Ordered(buffer')
        /\ O!Told(buffer') = O!Told(flight[t].batch) \cup O!Told(buffer)
    BY <2>1, <2>3, Coalesced
  <2>5. seen \subseteq seen' /\ seen' \subseteq seen \cup O!Told(flight[t].rest)
    <3>1. \A chunk \in O!Chunks(t) : O!Told(chunk) \subseteq O!Told(flight[t].rest)
      <4>1. ASSUME NEW n \in 1 .. Len(flight[t].rest)
            PROVE  O!Told(SubSeq(flight[t].rest, 1, n)) \subseteq O!Told(flight[t].rest)
        BY FlightOf, Parted, n \in 0 .. Len(flight[t].rest)
      <4> QED
        BY <4>1 DEF O!Chunks
    <3> QED
      BY <2>1, <3>1
  <2>6. SinkTyped' /\ OneFlight'
    BY <1>0, <1>1, <1>3, <2>1, <2>4, AtRest DEF SinkTyped, OneFlight
  <2>7. ToldInv'
    <3>1. O!Told(buffer') \cup O!Told(shown') \subseteq 1 .. emitted'
      BY <1>1, <2>1, <2>4, AtRest, FlightOf DEF SinkInv, ToldInv
    <3> QED
      BY <3>1, <1>5 DEF ToldInv
  <2>8. OrderInv'
    BY <1>5, <2>1, <2>4, AtRest DEF OrderInv, Before
  <2>9. AccountInv'
    <3>1. /\ O!Told(flight[t].rest) \subseteq O!Told(flight[t].batch)
          /\ O!Told(flight[t].batch) \subseteq 1 .. emitted
      BY FlightOf
    <3>2. ~severed => 1 .. emitted = seen \cup O!Told(buffer) \cup O!Told(flight[t].rest)
      BY <1>3 DEF SinkInv, AccountInv
    <3>3. ~severed' => 1 .. emitted' = seen' \cup O!Told(buffer') \cup {}
      BY <3>1, <3>2, <1>1, <2>4, <2>5
    <3> QED
      BY <3>3, <1>1, <1>4 DEF SinkInv, AccountInv
  <2> QED
    BY <2>6, <2>7, <2>8, <2>9 DEF SinkInv
<1> QED
  BY <1>6, <1>7

\* The process ends, with what curl can send.
LEMMA SinkEnds == ASSUME SinkInv, O!Exit PROVE SinkInv'
<1>0. /\ SinkTyped /\ Ordered(buffer) /\ Ordered(shown) /\ emitted \in Nat
      /\ buffer \in Seq(LogEntries) /\ shown \in Seq(LogEntries)
      /\ Before(O!Told(shown), O!Told(buffer))
      /\ O!Told(buffer) \cup O!Told(shown) \subseteq 1 .. emitted
  BY DEF SinkInv, SinkTyped, OrderInv, ToldInv
<1>1. PICK n \in 0 .. Len(buffer) :
        /\ shown' = shown \o SubSeq(buffer, 1, n)
        /\ seen' = seen \cup O!Told(SubSeq(buffer, 1, n))
        /\ severed' = (O!Sending \/ n < Len(buffer))
  BY DEF O!Exit
<1>2. /\ sinkUp /\ sinkUp' = FALSE /\ emitted' = emitted /\ buffer' = << >>
      /\ flight' = [t \in LogTimers |-> O!Rested]
  BY DEF O!Exit
<1>3. /\ flight' \in [LogTimers -> LogFlights]
      /\ \A t \in LogTimers : flight'[t] = O!Rested
  BY <1>2, AtRest
<1> DEFINE outgoing == SubSeq(buffer, 1, n)
<1>4. /\ outgoing \in Seq(LogEntries) /\ Ordered(outgoing)
      /\ O!Told(outgoing) \subseteq O!Told(buffer) /\ (n = Len(buffer) => O!Told(outgoing) = O!Told(buffer))
  <2>1. /\ outgoing \in Seq(LogEntries) /\ Ordered(outgoing)
        /\ O!Told(buffer) = O!Told(outgoing) \cup O!Told(SubSeq(buffer, n + 1, Len(buffer)))
    BY <1>0, Parted
  <2>2. n = Len(buffer) => outgoing = buffer
    BY <1>0
  <2> QED
    BY <2>1, <2>2
<1> HIDE DEF outgoing
<1>5. /\ shown' \in Seq(LogEntries) /\ Ordered(shown')
      /\ O!Told(shown') = O!Told(shown) \cup O!Told(outgoing)
  <2>1. Before(O!Told(shown), O!Told(outgoing)) /\ shown' = shown \o outgoing
    BY <1>0, <1>1, <1>4 DEF Before, outgoing
  <2> QED
    BY <2>1, <1>0, <1>4, Joined
<1>6. SinkTyped' /\ OneFlight'
  BY <1>0, <1>2, <1>3, <1>5, AtRest DEF SinkTyped, OneFlight
<1>7. ToldInv' /\ OrderInv'
  <2>1. ASSUME NEW t \in LogTimers
        PROVE  /\ O!Told(flight'[t].rest) = {} /\ O!Told(flight'[t].batch) = {}
               /\ Ordered(flight'[t].batch) /\ Ordered(flight'[t].rest)
    BY <1>3, AtRest
  <2>2. ToldInv'
    BY <1>0, <1>2, <1>4, <1>5, <2>1, AtRest DEF ToldInv
  <2>3. OrderInv'
    BY <1>2, <1>5, <2>1, AtRest DEF OrderInv, Before
  <2> QED
    BY <2>2, <2>3
<1>8. AccountInv'
  <2>1. UNION {O!Told(flight'[t].rest) : t \in LogTimers} = {}
    BY <1>3, AtRest
  <2>2. ASSUME ~severed'
        PROVE  1 .. emitted' = seen' \cup O!Told(buffer')
                                     \cup UNION {O!Told(flight'[t].rest) : t \in LogTimers}
    <3>1. n = Len(buffer) /\ \A t \in LogTimers : flight[t] = O!Rested
      <4>1. ~O!Sending /\ ~(n < Len(buffer))
        BY <1>1, <2>2
      <4>2. n = Len(buffer)
        BY <4>1, <1>0
      <4> QED
        BY <4>1, <4>2 DEF O!Sending
    <3>2. UNION {O!Told(flight[t].rest) : t \in LogTimers} = {}
      BY <3>1, AtRest
    <3>3. 1 .. emitted = seen \cup O!Told(buffer)
      BY <3>2, <1>2 DEF SinkInv, AccountInv
    <3>4. seen' = seen \cup O!Told(outgoing)
      BY <1>1 DEF outgoing
    <3> QED
      BY <2>1, <3>1, <3>3, <3>4, <1>2, <1>4, AtRest
  <2> QED
    BY <2>2, <1>2 DEF AccountInv
<1> QED
  BY <1>6, <1>7, <1>8 DEF SinkInv

\* Every step of the sink.
LEMMA SinkStep == SinkInv /\ [O!Next]_(O!sinkVars) => SinkInv'
<1> SUFFICES ASSUME SinkInv, [O!Next]_(O!sinkVars) PROVE SinkInv'
  OBVIOUS
<1>1. CASE UNCHANGED O!sinkVars \/ O!Cooled
  <2>1. UNCHANGED <<emitted, buffer, flight, shown, seen, sinkUp, severed>>
    BY <1>1 DEF O!sinkVars, O!Cooled
  <2> QED
    BY <2>1 DEF SinkInv, SinkTyped, OneFlight, ToldInv, OrderInv, AccountInv
<1>2. CASE O!Push
  BY <1>2, SinkPushes
<1>3. CASE O!Exit
  BY <1>3, SinkEnds
<1>4. CASE \E t \in LogTimers : O!Flush(t) \/ O!PostChunk(t) \/ O!Shipped(t) \/ O!PostFails(t)
  BY <1>4, SinkFlushes, SinkPosts, SinkLands
<1> QED
  BY <1>1, <1>2, <1>3, <1>4 DEF O!Next

\* "requeue the unsent lines so the backlog ships on recovery instead of being
\* dropped" (telegram.ts:188), in order: for any buffer, ends to keep, timers, lines
\* and failures.
THEOREM TheLogIsMirrored == O!Spec => []LogIsMirrored
<1>1. SinkInv => LogIsMirrored
  <2> SUFFICES ASSUME SinkInv PROVE O!LinesAreAccountedFor /\ O!ChatReadsInOrder
    BY DEF LogIsMirrored
  <2>1. O!LinesAreAccountedFor
    BY DEF SinkInv, AccountInv, O!LinesAreAccountedFor
  <2>2. O!ChatReadsInOrder
    BY DEF SinkInv, OrderInv, Ordered, Before, O!ChatReadsInOrder
  <2> QED
    BY <2>1, <2>2
<1>2. O!Spec => []SinkInv
  BY SinkInit, SinkStep, PTL DEF O!Spec
<1> QED
  BY <1>1, <1>2, PTL

-----------------------------------------------------------------------------
(***************************************************************************)
(* Payout: who wins and what a winning bet is paid, for any table of bets. *)
(***************************************************************************)

\* A table of bets: finitely many, each of a whole number of tenths.
Table(B) ==
  /\ IsFiniteSet(DOMAIN B) /\ DOMAIN B # {}
  /\ \A b \in DOMAIN B : B[b].lp \in Nat \ {0}

\* What MCPayout takes from the library is what the theorems are about.
LEMMA PayoutLibrary ==
  /\ \A S : W!Cardinality(S) = Cardinality(S)
  /\ \A f, T : W!SumFunctionOnSet(f, T) = SumFunctionOnSet(f, T)
<1>1. \A S : W!Cardinality(S) = Cardinality(S)
  BY DEF Cardinality, W!Cardinality
<1>2. \A f, T : W!SumFunctionOnSet(f, T) = SumFunctionOnSet(f, T)
  BY DEF SumFunctionOnSet, FoldFunctionOnSet, MapThenFoldSet,
         W!SumFunctionOnSet, W!FoldFunctionOnSet, W!MapThenFoldSet
<1> QED
  BY <1>1, <1>2

\* The stakes of the table as one function, and what a set of rows adds up to.
Lp(B) == [b \in DOMAIN B |-> B[b].lp]

LEMMA StakesAddUp ==
  ASSUME NEW B, Table(B)
  PROVE  /\ \A Own \in SUBSET DOMAIN B : W!LpOf(B, Own) = SumFunctionOnSet(Lp(B), Own)
         /\ \A Own \in SUBSET DOMAIN B : W!LpOf(B, Own) \in Nat
         /\ \A Own \in SUBSET DOMAIN B : \A Q \in SUBSET Own : W!LpOf(B, Q) <= W!LpOf(B, Own)
         /\ \A Own \in SUBSET DOMAIN B : Own # {} => W!LpOf(B, Own) > 0
<1> DEFINE S == DOMAIN B
           Sum(Own) == SumFunctionOnSet(Lp(B), Own)
<1>0. IsFiniteSet(S) /\ \A b \in S : Lp(B)[b] = B[b].lp /\ Lp(B)[b] \in Nat \ {0}
  BY DEF Table, Lp
<1>1. ASSUME NEW Own \in SUBSET S PROVE W!LpOf(B, Own) = Sum(Own)
  <2> DEFINE f == [b \in Own |-> B[b].lp]
  <2>1. W!LpOf(B, Own) = SumFunctionOnSet(f, Own)
    BY PayoutLibrary DEF W!LpOf
  <2>2. IsFiniteSet(Own) /\ Own \in SUBSET Own /\ \A b \in Own : f[b] = Lp(B)[b]
    BY <1>0, FS_Subset
  <2> HIDE DEF f
  <2>3. SumFunctionOnSet(f, Own) = SumFunctionOnSet(Lp(B), Own)
    BY <2>2, SumSame
  <2> QED
    BY <2>1, <2>3
<1>2. \A Own \in SUBSET S : Sum(Own) \in Int
  <2>1. \A b \in S : Lp(B)[b] \in Int
    BY <1>0
  <2> QED
    BY <1>0, <2>1, SumType
<1>3. \A Own \in SUBSET S : \A Q \in SUBSET Own : Sum(Q) <= Sum(Own)
  <2>1. \A b \in S : Lp(B)[b] \in Nat
    BY <1>0
  <2> QED
    BY <1>0, <2>1, SumMonotone
<1>4. Sum({}) = 0
  BY SumEmpty
<1>5. \A Own \in SUBSET S : Sum(Own) \in Nat
  <2> TAKE Own \in SUBSET S
  <2>1. Sum({}) <= Sum(Own) /\ Sum(Own) \in Int
    BY <1>2, <1>3
  <2> HIDE DEF Sum
  <2> QED
    BY <1>4, <2>1
<1>6. ASSUME NEW Own \in SUBSET S, NEW b \in Own PROVE Sum(Own) > 0
  <2>1. Sum(Own) = Lp(B)[b] + Sum(Own \ {b})
    <3>1. \A x \in S : Lp(B)[x] \in Int
      BY <1>0
    <3> QED
      BY <1>0, <3>1, SumRemove
  <2>2. Lp(B)[b] \in Nat \ {0} /\ Sum(Own \ {b}) \in Nat
    BY <1>0, <1>5
  <2> HIDE DEF Sum
  <2> QED
    BY <2>1, <2>2
<1>7. \A Own \in SUBSET S : Own # {} => Sum(Own) > 0
  BY <1>6
<1>8. \A Own \in SUBSET S : \A Q \in SUBSET Own : Q \in SUBSET S
  OBVIOUS
<1>9. \A Own \in SUBSET S : W!LpOf(B, Own) = SumFunctionOnSet(Lp(B), Own)
  BY <1>1
<1>10. \A Own \in SUBSET S : W!LpOf(B, Own) \in Nat
  BY <1>1, <1>5
<1>11. \A Own \in SUBSET S : \A Q \in SUBSET Own : W!LpOf(B, Q) <= W!LpOf(B, Own)
  <2> TAKE Own \in SUBSET S
  <2> TAKE Q \in SUBSET Own
  <2>1. W!LpOf(B, Q) = Sum(Q) /\ W!LpOf(B, Own) = Sum(Own)
    BY <1>1, <1>8
  <2> QED
    BY <2>1, <1>3
<1>12. \A Own \in SUBSET S : Own # {} => W!LpOf(B, Own) > 0
  BY <1>1, <1>7
<1> QED
  BY <1>9, <1>10, <1>11, <1>12

\* The options that were bet on, the bets on one, and the stakes on it.
LEMMA OptionsBacked ==
  ASSUME NEW B, Table(B)
  PROVE  /\ IsFiniteSet(W!Backed(B)) /\ W!Backed(B) # {}
         /\ \A os : W!On(B, os) \in SUBSET DOMAIN B /\ IsFiniteSet(W!On(B, os))
         /\ \A os : W!LpOn(B, os) \in Nat
         /\ \A o \in W!Backed(B) : W!On(B, {o}) # {} /\ W!LpOn(B, {o}) \in Nat \ {0}
         /\ W!Total(B) \in Nat \ {0}
<1>1. IsFiniteSet(W!Backed(B)) /\ W!Backed(B) # {}
  <2> DEFINE f == [b \in DOMAIN B |-> B[b].option]
  <2>1. f \in Surjection(DOMAIN B, W!Backed(B))
    BY DEF Surjection, W!Backed
  <2> HIDE DEF f
  <2> QED
    BY <2>1, FS_Surjection DEF Table, W!Backed
<1>2. \A os : W!On(B, os) \in SUBSET DOMAIN B /\ IsFiniteSet(W!On(B, os))
  BY FS_Subset DEF Table, W!On
<1>3. \A os : W!LpOn(B, os) \in Nat
  BY <1>2, StakesAddUp DEF W!LpOn
<1>4. \A o \in W!Backed(B) : W!On(B, {o}) # {}
  BY DEF W!Backed, W!On
<1>5. \A o \in W!Backed(B) : W!LpOn(B, {o}) \in Nat \ {0}
  <2> TAKE o \in W!Backed(B)
  <2>1. W!On(B, {o}) # {} /\ W!On(B, {o}) \in SUBSET DOMAIN B
    BY <1>2, <1>4
  <2>2. W!LpOn(B, {o}) > 0 /\ W!LpOn(B, {o}) \in Nat
    BY <2>1, StakesAddUp DEF W!LpOn
  <2> QED
    BY <2>2
<1>6. W!Total(B) \in Nat \ {0}
  <2>1. W!Total(B) > 0 /\ W!Total(B) \in Nat
    BY StakesAddUp DEF W!Total, Table
  <2> QED
    BY <2>1
<1> QED
  BY <1>1, <1>2, <1>3, <1>4, <1>5, <1>6

\* The average of whole values is a whole number of ten-thousandths.
LEMMA AverageIsWhole ==
  ASSUME NEW B, Table(B), \A o \in W!Backed(B) : o[1] \in Int
  PROVE  W!WeightedSum(B) \in Int /\ W!Average(B) \in Int
<1> DEFINE f == [b \in DOMAIN B |-> B[b].option[1] * B[b].lp]
<1>1. \A b \in DOMAIN B : f[b] \in Int
  <2> TAKE b \in DOMAIN B
  <2>1. B[b].option[1] \in Int /\ B[b].lp \in Int
    BY DEF Table, W!Backed
  <2> QED
    BY <2>1
<1>2. DOMAIN B \in SUBSET DOMAIN B /\ IsFiniteSet(DOMAIN B) /\ DOMAIN f = DOMAIN B
  BY DEF Table
<1>3. SumFunctionOnSet(f, DOMAIN B) \in Int
  <2> HIDE DEF f
  <2> QED
    BY <1>1, <1>2, SumType
<1>4. W!WeightedSum(B) = SumFunctionOnSet(f, DOMAIN B)
  <2>1. W!WeightedSum(B) = W!SumFunctionOnSet(f, DOMAIN f)
    BY DEF W!WeightedSum, W!SumFunction
  <2> HIDE DEF f
  <2> QED
    BY <1>2, <2>1, PayoutLibrary
<1>5. W!Average(B) \in Int
  <2>1. W!Total(B) \in Nat \ {0}
    BY OptionsBacked
  <2>2. \A w \in Int, t \in Nat \ {0} : (20000 * w + t) \div (2 * t) \in Int
    OBVIOUS
  <2> QED
    BY <1>3, <1>4, <2>1, <2>2 DEF W!Average
<1> QED
  BY <1>3, <1>4, <1>5

\* Somebody wins.
LEMMA SomebodyWins ==
  ASSUME NEW B, Table(B), NEW type,
         type = "continuous" => \A o \in W!Backed(B) : o[1] \in Int
  PROVE  /\ W!Winners(type, B) \in SUBSET W!Backed(B) /\ W!Winners(type, B) # {}
         /\ IsFiniteSet(W!Winners(type, B))
<1>0. IsFiniteSet(W!Backed(B)) /\ W!Backed(B) # {}
  BY OptionsBacked
<1>1. W!TopOptions(B) # {}
  <2> DEFINE f == [o \in W!Backed(B) |-> W!LpOn(B, {o})]
  <2>1. \A o \in W!Backed(B) : f[o] \in Int
    <3>1. \A o \in W!Backed(B) : W!LpOn(B, {o}) \in Nat
      BY OptionsBacked
    <3> QED
      BY <3>1
  <2>2. PICK o \in W!Backed(B) : \A q \in W!Backed(B) : f[q] <= f[o]
    <3> HIDE DEF f
    <3> QED
      BY <1>0, <2>1, GreatestValue
  <2>3. \A q \in W!Backed(B) : W!LpOn(B, {o}) >= W!LpOn(B, {q})
    BY <2>2
  <2> QED
    BY <2>3 DEF W!TopOptions
<1>2. ASSUME type = "continuous" PROVE W!Nearest(B) # {}
  <2> DEFINE d(o) == W!Distance(10000 * o[1], W!Average(B))
             f == [o \in W!Backed(B) |-> 0 - d(o)]
  <2>1. \A o \in W!Backed(B) : d(o) \in Int
    <3>1. W!Average(B) \in Int
      BY <1>2, AverageIsWhole
    <3>2. \A o \in W!Backed(B) : 10000 * o[1] \in Int
      BY <1>2
    <3> QED
      BY <3>1, <3>2 DEF W!Distance
  <2>2. \A o \in W!Backed(B) : f[o] \in Int
    BY <2>1
  <2>3. PICK o \in W!Backed(B) : \A q \in W!Backed(B) : f[q] <= f[o]
    <3> HIDE DEF f
    <3> QED
      BY <1>0, <2>2, GreatestValue
  <2>4. \A q \in W!Backed(B) : d(o) <= d(q)
    <3> TAKE q \in W!Backed(B)
    <3>1. 0 - d(q) <= 0 - d(o) /\ d(q) \in Int /\ d(o) \in Int
      BY <2>1, <2>3
    <3> HIDE DEF d
    <3> QED
      BY <3>1
  <2> QED
    BY <2>4 DEF W!Nearest
<1>3. W!Winners(type, B) \in SUBSET W!Backed(B)
  BY DEF W!Winners, W!Nearest, W!TopOptions
<1>4. W!Winners(type, B) # {}
  BY <1>1, <1>2 DEF W!Winners
<1> QED
  BY <1>0, <1>3, <1>4, FS_Subset

\* Division takes the whole part, and products with a positive factor compare
\* as what is multiplied.
LEMMA WholePart ==
  \A n \in Int, d \in Nat \ {0} :
    /\ n \div d \in Int /\ d * (n \div d) <= n /\ n < d * (n \div d) + d
    /\ n % d = 0 => n = d * (n \div d)
<1> SUFFICES ASSUME NEW n \in Int, NEW d \in Nat \ {0}
             PROVE  /\ n \div d \in Int /\ d * (n \div d) <= n /\ n < d * (n \div d) + d
                    /\ n % d = 0 => n = d * (n \div d)
  OBVIOUS
<1> QED
  OBVIOUS

LEMMA Cancel ==
  \A c \in Nat \ {0}, u, v \in Int : (c * u <= c * v => u <= v) /\ (c * u < c * v => u < v)
<1> SUFFICES ASSUME NEW c \in Nat \ {0}, NEW u \in Int, NEW v \in Int
             PROVE  (c * u <= c * v => u <= v) /\ (c * u < c * v => u < v)
  OBVIOUS
<1>1. v < u => c * v < c * u
  OBVIOUS
<1>2. v <= u => c * v <= c * u
  OBVIOUS
<1>3. c * u \in Int /\ c * v \in Int
  OBVIOUS
<1> QED
  BY <1>1, <1>2, <1>3

LEMMA Increasing ==
  \A c \in Nat \ {0}, u, v \in Int : u <= v => c * u <= c * v
<1> SUFFICES ASSUME NEW c \in Nat \ {0}, NEW u \in Int, NEW v \in Int, u <= v
             PROVE  c * u <= c * v
  OBVIOUS
<1> QED
  OBVIOUS

\* What a winning bet is divided by.
LEMMA Divisor ==
  ASSUME NEW B, Table(B), NEW ws \in SUBSET W!Backed(B), ws # {},
         NEW b \in W!On(B, ws)
  PROVE  /\ b \in DOMAIN B /\ B[b].option \in ws /\ B[b].lp \in Nat \ {0}
         /\ Cardinality(ws) \in Nat \ {0}
         /\ W!Denominator(B, ws, b) = 20 * Cardinality(ws) * W!LpOn(B, {B[b].option})
         /\ W!Denominator(B, ws, b) \in Nat \ {0}
<1>1. b \in DOMAIN B /\ B[b].option \in ws /\ B[b].lp \in Nat \ {0}
  BY DEF W!On, Table
<1>2. Cardinality(ws) \in Nat \ {0}
  <2>1. IsFiniteSet(ws)
    BY OptionsBacked, FS_Subset
  <2>2. Cardinality(ws) \in Nat
    BY <2>1, FS_CardinalityType
  <2>3. Cardinality(ws) # 0
    BY <2>1, FS_EmptySet
  <2> QED
    BY <2>2, <2>3
<1>3. W!Denominator(B, ws, b) = 20 * Cardinality(ws) * W!LpOn(B, {B[b].option})
  BY PayoutLibrary DEF W!Denominator
<1>4. W!LpOn(B, {B[b].option}) \in Nat \ {0}
  BY <1>1, OptionsBacked
<1>5. \A k, g \in Nat \ {0} : 20 * k * g \in Nat \ {0}
  OBVIOUS
<1>6. W!Denominator(B, ws, b) \in Nat \ {0}
  BY <1>2, <1>3, <1>4, <1>5
<1> QED
  BY <1>1, <1>2, <1>3, <1>6

\* A winning bet is paid its share of the pool, less a tenth at most.
LEMMA PaidTheShare ==
  ASSUME NEW B, Table(B), NEW ws \in SUBSET W!Backed(B), ws # {}, NEW pot \in Nat,
         NEW p \in W!Distributions(B, ws, pot)
  PROVE  /\ DOMAIN p = W!On(B, ws)
         /\ \A b \in W!On(B, ws) :
              /\ p[b] \in Int
              /\ W!Denominator(B, ws, b) * p[b] <= pot * B[b].lp
              /\ pot * B[b].lp <= W!Denominator(B, ws, b) * p[b] + W!Denominator(B, ws, b)
<1>1. PICK s \in SUBSET W!Whole(B, ws, pot) :
        p = [b \in W!On(B, ws) |-> W!Share(B, ws, pot, b) - IF b \in s THEN 1 ELSE 0]
  BY DEF W!Distributions
<1>2. DOMAIN p = W!On(B, ws)
  BY <1>1
<1>3. ASSUME NEW b \in W!On(B, ws)
      PROVE  /\ p[b] \in Int
             /\ W!Denominator(B, ws, b) * p[b] <= pot * B[b].lp
             /\ pot * B[b].lp <= W!Denominator(B, ws, b) * p[b] + W!Denominator(B, ws, b)
  <2> DEFINE d == W!Denominator(B, ws, b)
             n == pot * B[b].lp
             q == n \div d
  <2>1. d \in Nat \ {0} /\ B[b].lp \in Nat
    BY Divisor
  <2>2. n \in Nat
    BY <2>1
  <2>3. W!Share(B, ws, pot, b) = q
    BY DEF W!Share, W!Numerator
  <2>4. /\ q \in Int /\ d * q <= n /\ n < d * q + d
        /\ n % d = 0 => n = d * q
    <3> HIDE DEF n, d
    <3> QED
      BY <2>1, <2>2, WholePart
  <2>5. p[b] = q \/ (p[b] = q - 1 /\ n % d = 0)
    <3>1. b \in s => n % d = 0
      BY <1>1 DEF W!Whole, W!Numerator
    <3>2. p[b] = q - (IF b \in s THEN 1 ELSE 0)
      BY <1>1, <2>3
    <3>3. q \in Int
      BY <2>4
    <3> HIDE DEF q, n, d
    <3> QED
      BY <3>1, <3>2, <3>3
  <2> HIDE DEF q, n, d
  <2>6. d * (q - 1) = d * q - d /\ d * q \in Int
    BY <2>1, <2>4
  <2>7. p[b] \in Int /\ d * p[b] <= n /\ n <= d * p[b] + d
    BY <2>1, <2>2, <2>4, <2>5, <2>6
  <2> QED
    BY <2>7 DEF d, n
<1> QED
  BY <1>2, <1>3

\* The bets on one winning option together get a winners' part of the pool, less
\* a tenth for each at most.
LEMMA OptionIsPaid ==
  ASSUME NEW B, Table(B), NEW ws \in SUBSET W!Backed(B), ws # {}, NEW pot \in Nat,
         NEW p \in W!Distributions(B, ws, pot), NEW o \in ws
  PROVE  LET k == Cardinality(ws)
             got == SumFunctionOnSet(p, W!On(B, {o}))
             bs == Cardinality(W!On(B, {o}))
         IN  /\ k \in Nat \ {0} /\ got \in Int /\ bs \in Nat
             /\ 20 * k * got <= pot
             /\ pot <= 20 * k * (got + bs)
<1> DEFINE k == Cardinality(ws)
           Own == W!On(B, {o})
           g == W!LpOn(B, {o})
           got == SumFunctionOnSet(p, Own)
           bs == Cardinality(Own)
           d == 20 * k * g
           one == [b \in Own |-> 1]
           zero == [b \in Own |-> 0]
<1>1. IsFiniteSet(Own) /\ Own \in SUBSET DOMAIN B /\ Own # {} /\ g \in Nat \ {0}
  BY OptionsBacked
<1>2. \A b \in Own : b \in W!On(B, ws) /\ B[b].option = o /\ b \in DOMAIN B
  BY DEF W!On
<1>3. k \in Nat \ {0}
  <2>1. PICK b \in Own : TRUE
    BY <1>1
  <2> QED
    BY <1>2, <2>1, Divisor
<1>4. d \in Nat \ {0}
  <2>1. \A i, j \in Nat \ {0} : 20 * i * j \in Nat \ {0}
    OBVIOUS
  <2> HIDE DEF k, g
  <2> QED
    BY <1>1, <1>3, <2>1
<1>5. \A b \in Own : p[b] \in Int /\ Lp(B)[b] \in Int /\ d * p[b] <= pot * Lp(B)[b] /\ pot * Lp(B)[b] <= d * p[b] + d
  <2> TAKE b \in Own
  <2>1. W!Denominator(B, ws, b) = d /\ B[b].lp \in Nat
    <3>1. b \in W!On(B, ws) /\ B[b].option = o
      BY <1>2
    <3>2. /\ W!Denominator(B, ws, b) = 20 * Cardinality(ws) * W!LpOn(B, {B[b].option})
          /\ B[b].lp \in Nat \ {0}
      BY <3>1, Divisor
    <3> QED
      BY <3>1, <3>2
  <2>2. Lp(B)[b] = B[b].lp
    BY <1>2 DEF Lp
  <2>3. /\ p[b] \in Int /\ W!Denominator(B, ws, b) * p[b] <= pot * B[b].lp
        /\ pot * B[b].lp <= W!Denominator(B, ws, b) * p[b] + W!Denominator(B, ws, b)
    BY <1>2, PaidTheShare
  <2> HIDE DEF d
  <2> QED
    BY <2>1, <2>2, <2>3
<1>6. g = SumFunctionOnSet(Lp(B), Own)
  BY <1>1, StakesAddUp DEF W!LpOn
<1>7. bs \in Nat /\ SumFunctionOnSet(one, Own) = bs
  <2>1. bs \in Nat
    BY <1>1, FS_CardinalityType
  <2>2. /\ Own \in SUBSET Own /\ 1 \in Int /\ \A b \in Own : one[b] = 1
        /\ \A b \in Own : b \notin Own => one[b] = 0
    OBVIOUS
  <2>3. SumFunctionOnSet(one, Own) = 1 * Cardinality(Own)
    <3> HIDE DEF Own, one
    <3> QED
      BY <1>1, <2>2, SumCount
  <2> QED
    BY <2>1, <2>3
<1>8. \A b \in Own : one[b] = 1 /\ zero[b] = 0
  OBVIOUS
<1>9. got \in Int
  <2>1. Own \in SUBSET Own /\ \A b \in Own : p[b] \in Int
    BY <1>5
  <2> HIDE DEF Own
  <2> QED
    BY <1>1, <2>1, SumType
<1> HIDE DEF k, Own, g, d, one, zero
<1>10. d * got <= pot * g
  <2>1. \A b \in Own : p[b] \in Int /\ Lp(B)[b] \in Int /\ zero[b] \in Int
    BY <1>5, <1>8
  <2>2. \A b \in Own : d * p[b] <= pot * Lp(B)[b] + 0 * zero[b]
    <3> TAKE b \in Own
    <3>1. pot * Lp(B)[b] \in Int /\ 0 * zero[b] = 0
      BY <1>5, <1>8
    <3> QED
      BY <1>5, <3>1
  <2>3. d \in Int /\ pot \in Int /\ 0 \in Int
    BY <1>4
  <2>4. d * SumFunctionOnSet(p, Own) <= pot * SumFunctionOnSet(Lp(B), Own) + 0 * SumFunctionOnSet(zero, Own)
    BY <1>1, <2>1, <2>2, <2>3, SumWeighed
  <2>5. 0 * SumFunctionOnSet(zero, Own) = 0
    BY <1>1, <1>8, SumZero
  <2>6. pot * g \in Int
    BY <1>1
  <2> QED
    BY <1>6, <2>4, <2>5, <2>6
<1>11. pot * g <= d * got + d * bs
  <2>1. \A b \in Own : p[b] \in Int /\ Lp(B)[b] \in Int /\ one[b] \in Int
    BY <1>5, <1>8
  <2>2. \A b \in Own : pot * Lp(B)[b] <= d * p[b] + d * one[b]
    <3> TAKE b \in Own
    <3>1. d * one[b] = d
      BY <1>4, <1>8
    <3> QED
      BY <1>5, <3>1
  <2>3. d \in Int /\ pot \in Int
    BY <1>4
  <2>4. pot * SumFunctionOnSet(Lp(B), Own) <= d * SumFunctionOnSet(p, Own) + d * SumFunctionOnSet(one, Own)
    BY <1>1, <2>1, <2>2, <2>3, SumWeighed
  <2> QED
    BY <1>6, <1>7, <2>4
<1>12. 20 * k * got <= pot /\ pot <= 20 * k * (got + bs)
  <2> HIDE DEF got, bs
  <2>1. \A i, j, m, n \in Int : 20 * i * j * m = j * (20 * i * m) /\ 20 * i * j * n = j * (20 * i * n)
    OBVIOUS
  <2>2. d * got = g * (20 * k * got)
    BY <1>1, <1>3, <1>9, <2>1 DEF d
  <2>3. d * got + d * bs = g * (20 * k * (got + bs))
    <3>1. \A i, m, n \in Int : i * m + i * n = i * (m + n)
      OBVIOUS
    <3>2. d * got + d * bs = d * (got + bs) /\ got + bs \in Int
      BY <1>4, <1>7, <1>9, <3>1
    <3>3. d * (got + bs) = g * (20 * k * (got + bs))
      BY <1>1, <1>3, <3>2, <2>1 DEF d
    <3> QED
      BY <3>2, <3>3
  <2>4. pot * g = g * pot
    BY <1>1
  <2>5. 20 * k * got \in Int /\ 20 * k * (got + bs) \in Int
    BY <1>3, <1>7, <1>9
  <2>6. 20 * k * got <= pot
    BY <1>1, <1>10, <2>2, <2>4, <2>5, Cancel
  <2>7. pot <= 20 * k * (got + bs)
    BY <1>1, <1>11, <2>3, <2>4, <2>5, Cancel
  <2> QED
    BY <2>6, <2>7
<1> QED
  BY <1>3, <1>7, <1>9, <1>12 DEF k, Own

\* The payouts make up the pool, less a tenth for each at most.
LEMMA PoolIsPaidOut ==
  ASSUME NEW B, Table(B), NEW ws \in SUBSET W!Backed(B), ws # {}, NEW pot \in Nat,
         NEW p \in W!Distributions(B, ws, pot)
  PROVE  pot - 20 * W!SumFunction(p) \in 0 .. 20 * Cardinality(DOMAIN p)
<1> DEFINE S == W!On(B, ws)
           k == Cardinality(ws)
           Own(o) == W!On(B, {o})
           part == [o \in ws |-> Own(o)]
           each == [b \in S |-> 1]
           got == [o \in ws |-> SumFunctionOnSet(p, Own(o))]
           bs == [o \in ws |-> Cardinality(Own(o))]
           one == [o \in ws |-> 1]
           zero == [o \in ws |-> 0]
           P == SumFunctionOnSet(p, S)
           n == Cardinality(S)
<1>1. IsFiniteSet(S) /\ IsFiniteSet(ws) /\ n \in Nat
  BY OptionsBacked, FS_Subset, FS_CardinalityType
<1>2. \A o \in ws : /\ got[o] \in Int /\ bs[o] \in Nat /\ k \in Nat \ {0}
                    /\ 20 * k * got[o] <= pot /\ pot <= 20 * k * (got[o] + bs[o])
  <2> TAKE o \in ws
  <2> QED
    BY OptionIsPaid
<1>3. \A o \in ws : part[o] = Own(o) /\ Own(o) \in SUBSET S /\ IsFiniteSet(Own(o))
  <2> TAKE o \in ws
  <2>1. Own(o) \in SUBSET S
    BY DEF W!On
  <2> QED
    BY <1>1, <2>1, FS_Subset
<1>4. /\ \A b \in S : p[b] \in Int /\ each[b] = 1
      /\ \A b \in S : \E o \in ws : b \in part[o]
      /\ \A o, q \in ws : o # q => part[o] \cap part[q] = {}
      /\ \A o \in ws : part[o] \in SUBSET S
  <2>1. \A b \in S : p[b] \in Int /\ each[b] = 1
    BY PaidTheShare
  <2>2. \A b \in S : \E o \in ws : b \in part[o]
    BY DEF W!On
  <2>3. \A o, q \in ws : o # q => part[o] \cap part[q] = {}
    BY DEF W!On
  <2> QED
    BY <1>3, <2>1, <2>2, <2>3
<1>5. \A o \in ws : got[o] = SumFunctionOnSet(p, part[o])
  BY <1>3
<1>6. \A o \in ws : bs[o] = SumFunctionOnSet(each, part[o])
  <2> TAKE o \in ws
  <2>1. Own(o) \in SUBSET Own(o) /\ 1 \in Int /\ (\A b \in Own(o) : each[b] = 1)
        /\ \A b \in Own(o) : b \notin Own(o) => each[b] = 0
    BY <1>3, <1>4
  <2>2. SumFunctionOnSet(each, Own(o)) = 1 * Cardinality(Own(o))
    <3> HIDE DEF Own, each
    <3> QED
      BY <1>3, <2>1, SumCount
  <2>3. bs[o] = Cardinality(Own(o)) /\ bs[o] \in Nat
    BY <1>2
  <2>4. part[o] = Own(o)
    OBVIOUS
  <2> HIDE DEF Own, each, part, bs
  <2> QED
    BY <2>2, <2>3, <2>4
<1>7. /\ \A o \in ws : one[o] = 1 /\ zero[o] = 0
      /\ ws \in SUBSET ws /\ 1 \in Int /\ \A o \in ws : o \notin ws => one[o] = 0
  OBVIOUS
<1>8. /\ S \in SUBSET S /\ \A b \in S : b \notin S => each[b] = 0
  OBVIOUS
<1>9. k \in Nat \ {0}
  BY <1>2
<1> HIDE DEF S, part, each, got, bs, one, zero, k, n
<1>10. P = SumFunctionOnSet(got, ws)
  BY <1>1, <1>4, <1>5, SumByPart
<1>11. SumFunctionOnSet(each, S) = SumFunctionOnSet(bs, ws)
  <2>1. \A b \in S : each[b] \in Int
    BY <1>4
  <2> QED
    BY <1>1, <1>4, <1>6, <2>1, SumByPart
<1>12. n = SumFunctionOnSet(bs, ws)
  <2>1. SumFunctionOnSet(each, S) = 1 * Cardinality(S)
    BY <1>1, <1>4, <1>7, <1>8, SumCount
  <2> QED
    BY <1>1, <1>11, <2>1 DEF n
<1>13. SumFunctionOnSet(one, ws) = k
  <2>1. SumFunctionOnSet(one, ws) = 1 * Cardinality(ws)
    BY <1>1, <1>7, SumCount
  <2> QED
    BY <1>9, <2>1 DEF k
<1>14. P \in Int
  BY <1>1, <1>4, <1>8, SumType
<1> HIDE DEF P
<1>15. 20 * k \in Nat \ {0}
  BY <1>9
<1>16. 20 * k * P <= pot * k
  <2>1. \A o \in ws : 20 * k * got[o] <= pot * one[o] + 0 * zero[o]
    <3> TAKE o \in ws
    <3>1. pot * one[o] = pot /\ 0 * zero[o] = 0
      BY <1>7
    <3> QED
      BY <1>2, <3>1
  <2>2. \A o \in ws : got[o] \in Int /\ one[o] \in Int /\ zero[o] \in Int
    BY <1>2, <1>7
  <2>3. 20 * k \in Int /\ pot \in Int /\ 0 \in Int
    BY <1>15
  <2>4. 20 * k * SumFunctionOnSet(got, ws)
          <= pot * SumFunctionOnSet(one, ws) + 0 * SumFunctionOnSet(zero, ws)
    <3> DEFINE a == 20 * k
    <3> HIDE DEF a
    <3>1. \A o \in ws : a * got[o] <= pot * one[o] + 0 * zero[o]
      BY <2>1 DEF a
    <3>2. a \in Int
      BY <2>3 DEF a
    <3>3. a * SumFunctionOnSet(got, ws)
            <= pot * SumFunctionOnSet(one, ws) + 0 * SumFunctionOnSet(zero, ws)
      BY <1>1, <2>2, <2>3, <3>1, <3>2, SumWeighed
    <3> QED
      BY <3>3 DEF a
  <2>5. 0 * SumFunctionOnSet(zero, ws) = 0
    BY <1>1, <1>7, SumZero
  <2>6. pot * k \in Int
    BY <1>9
  <2> QED
    BY <1>10, <1>13, <2>4, <2>5, <2>6
<1>17. pot * k <= 20 * k * P + 20 * k * n
  <2> DEFINE a == 20 * k
  <2>1. \A o \in ws : pot * one[o] <= a * got[o] + a * bs[o]
    <3> TAKE o \in ws
    <3>1. pot * one[o] = pot
      BY <1>7
    <3>2. \A u, v \in Int : 20 * k * (u + v) = 20 * k * u + 20 * k * v
      BY <1>15
    <3>3. got[o] \in Int /\ bs[o] \in Int /\ pot <= 20 * k * (got[o] + bs[o])
      BY <1>2
    <3>4. pot <= 20 * k * got[o] + 20 * k * bs[o]
      BY <3>2, <3>3
    <3> QED
      BY <3>1, <3>4
  <2>2. \A o \in ws : got[o] \in Int /\ one[o] \in Int /\ bs[o] \in Int
    BY <1>2, <1>7
  <2>3. a \in Int /\ pot \in Int
    BY <1>15
  <2> HIDE DEF a
  <2>4. pot * SumFunctionOnSet(one, ws)
          <= a * SumFunctionOnSet(got, ws) + a * SumFunctionOnSet(bs, ws)
    BY <1>1, <2>1, <2>2, <2>3, SumWeighed
  <2> QED
    BY <1>10, <1>12, <1>13, <2>4 DEF a
<1>18. 20 * P <= pot /\ pot <= 20 * P + 20 * n
  <2>1. /\ 20 * k * P = k * (20 * P) /\ 20 * k * n = k * (20 * n) /\ pot * k = k * pot
        /\ k * (20 * P) + k * (20 * n) = k * (20 * P + 20 * n)
    BY <1>1, <1>9, <1>14
  <2>2. 20 * P \in Int /\ 20 * P + 20 * n \in Int
    BY <1>1, <1>14
  <2>3. k * (20 * P) <= k * pot
    BY <1>16, <2>1
  <2>4. k * pot <= k * (20 * P + 20 * n)
    BY <1>17, <2>1
  <2> QED
    BY <1>9, <2>2, <2>3, <2>4, Cancel
<1>19. W!SumFunction(p) = P /\ DOMAIN p = S
  <2>1. DOMAIN p = S
    BY PaidTheShare DEF S
  <2> QED
    BY <2>1, PayoutLibrary DEF W!SumFunction, P
<1> QED
  BY <1>1, <1>14, <1>18, <1>19 DEF n

\* A multiple of twice t next to 20000 w + t is on the side of 10000 times a
\* number that w is of its half.
LEMMA SideOfTheMiddle ==
  ASSUME NEW t \in Nat, t < 10000, NEW w \in Int, NEW mid \in Int, NEW x \in Int,
         x <= 20000 * w + t, 20000 * w + t < x + 2 * t
  PROVE  /\ x <= 10000 * mid => 2 * w <= mid
         /\ x >= 10000 * mid + 2 * t => 2 * w > mid
         /\ x >= 10000 * mid => 2 * w >= mid
         /\ x <= 10000 * mid - 2 * t => 2 * w < mid
<1>1. ASSUME x <= 10000 * mid, 2 * w > mid PROVE FALSE
  <2>1. 20000 * w >= 10000 * mid + 10000
    BY <1>1
  <2> QED
    BY <1>1, <2>1
<1>2. ASSUME x >= 10000 * mid + 2 * t, 2 * w <= mid PROVE FALSE
  <2>1. 20000 * w <= 10000 * mid
    BY <1>2
  <2> QED
    BY <1>2, <2>1
<1>3. ASSUME x >= 10000 * mid, 2 * w < mid PROVE FALSE
  <2>1. 20000 * w <= 10000 * mid - 10000
    BY <1>3
  <2> QED
    BY <1>3, <2>1
<1>4. ASSUME x <= 10000 * mid - 2 * t, 2 * w >= mid PROVE FALSE
  <2>1. 20000 * w >= 10000 * mid
    BY <1>4
  <2> QED
    BY <1>4, <2>1
<1> QED
  BY <1>1, <1>2, <1>3, <1>4

\* The middle of two whole values is on the same side of the rounded average as
\* of the exact one: r is w / t rounded to four places, and less than 1000 LP are
\* at stake.
LEMMA MiddleIsKept ==
  ASSUME NEW t \in Nat \ {0}, t < 10000, NEW w \in Int, NEW m \in Int, NEW r \in Int,
         NEW d \in Nat \ {0}, d = 2 * t, d * r <= 20000 * w + t, 20000 * w + t < d * r + d
  PROVE  /\ r <= 5000 * m <=> 2 * w <= t * m
         /\ r >= 5000 * m <=> 2 * w >= t * m
<1> DEFINE mid == t * m
           half == 5000 * m
           x == d * r
<1>1. mid \in Int /\ half \in Int /\ x \in Int
  OBVIOUS
<1>2. d * half = 10000 * mid
  OBVIOUS
<1>3. /\ x <= 10000 * mid => 2 * w <= mid
      /\ x >= 10000 * mid + 2 * t => 2 * w > mid
      /\ x >= 10000 * mid => 2 * w >= mid
      /\ x <= 10000 * mid - 2 * t => 2 * w < mid
  <2>1. x <= 20000 * w + t /\ 20000 * w + t < x + 2 * t
    OBVIOUS
  <2> HIDE DEF x, mid
  <2> QED
    BY <1>1, <2>1, SideOfTheMiddle
<1> HIDE DEF mid, half, x
<1>4. d * (half + 1) = d * half + d /\ d * (half - 1) = d * half - d
  BY <1>1
<1>5. /\ r <= half => x <= d * half
      /\ half + 1 <= r => d * (half + 1) <= x
      /\ half <= r => d * half <= x
      /\ r <= half - 1 => x <= d * (half - 1)
  <2>1. half + 1 \in Int /\ half - 1 \in Int
    BY <1>1
  <2> QED
    BY <1>1, <2>1, Increasing DEF x
<1>6. /\ r <= half => 2 * w <= mid
      /\ r > half => 2 * w > mid
      /\ r >= half => 2 * w >= mid
      /\ r < half => 2 * w < mid
  <2>1. r <= half => 2 * w <= mid
    BY <1>2, <1>3, <1>5
  <2>2. r > half => 2 * w > mid
    <3>1. r > half => half + 1 <= r
      BY <1>1
    <3>2. r > half => 10000 * mid + 2 * t <= x
      BY <1>2, <1>4, <1>5, <3>1
    <3> QED
      BY <1>1, <1>3, <3>2
  <2>3. r >= half => 2 * w >= mid
    <3>1. r >= half => half <= r
      BY <1>1
    <3> QED
      BY <1>1, <1>2, <1>3, <1>5, <3>1
  <2>4. r < half => 2 * w < mid
    <3>1. r < half => r <= half - 1
      BY <1>1
    <3>2. r < half => x <= 10000 * mid - 2 * t
      BY <1>2, <1>4, <1>5, <3>1
    <3> QED
      BY <1>3, <3>2
  <2> QED
    BY <2>1, <2>2, <2>3, <2>4
<1>7. /\ r <= half <=> 2 * w <= mid
      /\ r >= half <=> 2 * w >= mid
  BY <1>1, <1>6
<1> QED
  BY <1>7 DEF half, mid

\* Of two numbers, the one on the near side of their middle is nearer.
LEMMA NearerByMiddle ==
  ASSUME NEW u \in Int, NEW v \in Int, NEW x \in Int
  PROVE  /\ u < v => (W!Distance(u, x) <= W!Distance(v, x) <=> 2 * x <= u + v)
         /\ u > v => (W!Distance(u, x) <= W!Distance(v, x) <=> 2 * x >= u + v)
  BY DEF W!Distance

\* The option nearest to the rounded average is nearest to the exact one.
LEMMA RoundingPicksTheNearest ==
  ASSUME NEW B, Table(B), \A o \in W!Backed(B) : o[1] \in Int, W!Total(B) < 10000
  PROVE  LET d(o) == W!Distance(o[1] * W!Total(B), W!WeightedSum(B))
         IN  W!Nearest(B) = {o \in W!Backed(B) : \A q \in W!Backed(B) : d(o) <= d(q)}
<1> DEFINE t == W!Total(B)
           w == W!WeightedSum(B)
           r == W!Average(B)
           d(o) == W!Distance(o[1] * t, w)
           near(o) == W!Distance(10000 * o[1], r)
<1>1. t \in 1 .. 9999 /\ w \in Int
  <2>1. t \in Nat \ {0} /\ t < 10000
    BY OptionsBacked
  <2>2. w \in Int
    BY AverageIsWhole
  <2> HIDE DEF t
  <2> QED
    BY <2>1, <2>2
<1>2. r = (20000 * w + t) \div (2 * t)
  BY DEF W!Average
<1>3. ASSUME NEW o \in W!Backed(B), NEW q \in W!Backed(B)
      PROVE  near(o) <= near(q) <=> d(o) <= d(q)
  <2> DEFINE a == o[1]
             c == q[1]
             m == a + c
  <2>1. a \in Int /\ c \in Int /\ m \in Int
    OBVIOUS
  <2> HIDE DEF a, c, t, w, r
  <2>2. r \in Int /\ (r <= 5000 * m <=> 2 * w <= t * m) /\ (r >= 5000 * m <=> 2 * w >= t * m)
    <3> DEFINE n == 20000 * w + t
               e == 2 * t
    <3>1. t \in Nat \ {0} /\ t < 10000 /\ w \in Int /\ n \in Int /\ e \in Nat \ {0} /\ r = n \div e
      BY <1>1, <1>2
    <3>2. r \in Int /\ e * r <= n /\ n < e * r + e
      <4> HIDE DEF n, e
      <4> QED
        BY <3>1, WholePart
    <3> HIDE DEF m
    <3>3. /\ r <= 5000 * m <=> 2 * w <= t * m
          /\ r >= 5000 * m <=> 2 * w >= t * m
      <4>1. e = 2 * t /\ e * r <= 20000 * w + t /\ 20000 * w + t < e * r + e
        BY <3>2
      <4> HIDE DEF e
      <4> QED
        BY <2>1, <3>1, <3>2, <4>1, MiddleIsKept
    <3> QED
      BY <3>2, <3>3
  <2>3. /\ 10000 * a \in Int /\ 10000 * c \in Int /\ a * t \in Int /\ c * t \in Int
        /\ 10000 * a + 10000 * c = 10000 * m /\ a * t + c * t = t * m
    BY <1>1, <2>1
  <2>4. (a < c => 10000 * a < 10000 * c /\ a * t < c * t) /\ (a > c => 10000 * a > 10000 * c /\ a * t > c * t)
    BY <1>1, <2>1
  <2>5. 5000 * m \in Int /\ 10000 * m = 2 * (5000 * m)
    BY <2>1
  <2> HIDE DEF m
  <2> DEFINE nearer == W!Distance(10000 * a, r) <= W!Distance(10000 * c, r)
             closer == W!Distance(a * t, w) <= W!Distance(c * t, w)
  <2>6. CASE a < c
    <3>1. nearer <=> 2 * r <= 10000 * m
      <4>1. 10000 * a < 10000 * c
        BY <2>4, <2>6
      <4> QED
        BY <2>2, <2>3, <4>1, NearerByMiddle
    <3>2. closer <=> 2 * w <= t * m
      <4>1. a * t < c * t
        BY <2>4, <2>6
      <4> QED
        BY <1>1, <2>3, <4>1, NearerByMiddle
    <3>3. 2 * r <= 10000 * m <=> r <= 5000 * m
      BY <2>2, <2>5
    <3> QED
      BY <2>2, <3>1, <3>2, <3>3 DEF a, c
  <2>7. CASE a > c
    <3>1. nearer <=> 2 * r >= 10000 * m
      <4>1. 10000 * a > 10000 * c
        BY <2>4, <2>7
      <4> QED
        BY <2>2, <2>3, <4>1, NearerByMiddle
    <3>2. closer <=> 2 * w >= t * m
      <4>1. a * t > c * t
        BY <2>4, <2>7
      <4> QED
        BY <1>1, <2>3, <4>1, NearerByMiddle
    <3>3. 2 * r >= 10000 * m <=> r >= 5000 * m
      BY <2>2, <2>5
    <3> QED
      BY <2>2, <3>1, <3>2, <3>3 DEF a, c
  <2>8. CASE a = c
    <3>1. W!Distance(10000 * a, r) \in Int /\ W!Distance(a * t, w) \in Int
      BY <1>1, <2>2, <2>3 DEF W!Distance
    <3> QED
      BY <2>8, <3>1 DEF a, c
  <2> QED
    BY <2>1, <2>6, <2>7, <2>8
<1> QED
  BY <1>3 DEF W!Nearest

\* In a discrete survey with 5% on top, a winning bet returns its stake: the
\* options that tie hold the same stakes each, and no more than all together.
LEMMA TiesHoldTheirStakes ==
  ASSUME NEW B, Table(B), NEW o \in W!TopOptions(B)
  PROVE  Cardinality(W!TopOptions(B)) * W!LpOn(B, {o}) <= W!Total(B)
<1> DEFINE ws == W!TopOptions(B)
           S == W!On(B, ws)
           g == W!LpOn(B, {o})
           part == [q \in ws |-> W!On(B, {q})]
           held == [q \in ws |-> W!LpOn(B, {q})]
<1>1. ws \in SUBSET W!Backed(B) /\ IsFiniteSet(ws) /\ IsFiniteSet(S) /\ S \in SUBSET DOMAIN B
  <2>1. ws \in SUBSET W!Backed(B)
    BY DEF W!TopOptions
  <2> QED
    BY <2>1, OptionsBacked, FS_Subset
<1>2. g \in Int /\ \A q \in ws : held[q] = g
  <2>1. \A q \in ws : W!LpOn(B, {q}) \in Int /\ W!LpOn(B, {q}) >= g /\ g >= W!LpOn(B, {q}) /\ g \in Int
    <3>1. \A os : W!LpOn(B, os) \in Nat
      BY OptionsBacked
    <3>2. \A q \in ws : W!LpOn(B, {q}) >= g /\ g >= W!LpOn(B, {q})
      BY DEF W!TopOptions
    <3> QED
      BY <3>1, <3>2
  <2>2. \A q \in ws : W!LpOn(B, {q}) = g
    <3> HIDE DEF g
    <3> QED
      BY <2>1
  <2> QED
    BY <2>1, <2>2
<1>3. /\ \A q \in ws : part[q] \in SUBSET S /\ part[q] \in SUBSET DOMAIN B
      /\ \A b \in S : \E q \in ws : b \in part[q]
      /\ \A q, r \in ws : q # r => part[q] \cap part[r] = {}
  BY DEF W!On
<1>4. \A q \in ws : held[q] = SumFunctionOnSet(Lp(B), part[q])
  <2> TAKE q \in ws
  <2>1. held[q] = W!LpOf(B, part[q])
    BY DEF W!LpOn
  <2> QED
    BY <1>3, <2>1, StakesAddUp
<1>5. \A b \in S : Lp(B)[b] \in Int
  BY <1>1 DEF Table, Lp
<1>6. /\ ws \in SUBSET ws /\ \A q \in ws : q \notin ws => held[q] = 0
  OBVIOUS
<1>7. S \in SUBSET DOMAIN B /\ DOMAIN B \in SUBSET DOMAIN B
  BY <1>1
<1>8. W!LpOf(B, S) <= W!Total(B) /\ W!LpOf(B, S) = SumFunctionOnSet(Lp(B), S)
  BY <1>7, StakesAddUp DEF W!Total
<1> HIDE DEF ws, S, g, part, held
<1>9. SumFunctionOnSet(Lp(B), S) = SumFunctionOnSet(held, ws)
  BY <1>1, <1>3, <1>4, <1>5, SumByPart
<1>10. SumFunctionOnSet(held, ws) = g * Cardinality(ws)
  BY <1>1, <1>2, <1>6, SumCount
<1>11. Cardinality(ws) * g = g * Cardinality(ws)
  <2>1. Cardinality(ws) \in Nat
    BY <1>1, FS_CardinalityType
  <2> QED
    BY <1>2, <2>1
<1> QED
  BY <1>8, <1>9, <1>10, <1>11 DEF ws, g

LEMMA StakeIsReturned ==
  ASSUME NEW B, Table(B), NEW p \in W!Distributions(B, W!TopOptions(B), 21 * W!Total(B)),
         NEW b \in DOMAIN p
  PROVE  p[b] >= B[b].lp
<1> DEFINE ws == W!TopOptions(B)
           t == W!Total(B)
           o == B[b].option
           lp == B[b].lp
           kg == Cardinality(ws) * W!LpOn(B, {o})
           d == W!Denominator(B, ws, b)
<1>1. ws \in SUBSET W!Backed(B) /\ ws # {}
  BY SomebodyWins DEF W!Winners
<1>2. t \in Nat \ {0} /\ 21 * t \in Nat
  BY OptionsBacked
<1>3. /\ b \in W!On(B, ws) /\ p[b] \in Int /\ d * p[b] <= 21 * t * lp /\ 21 * t * lp <= d * p[b] + d
  BY <1>1, <1>2, PaidTheShare
<1>4. /\ lp \in Nat \ {0} /\ o \in ws /\ d \in Nat \ {0}
      /\ d = 20 * Cardinality(ws) * W!LpOn(B, {o})
  <2>1. b \in W!On(B, ws) /\ ws \in SUBSET W!Backed(B) /\ ws # {}
    BY <1>1, <1>3
  <2> HIDE DEF ws
  <2>2. /\ B[b].lp \in Nat \ {0} /\ B[b].option \in ws /\ W!Denominator(B, ws, b) \in Nat \ {0}
        /\ W!Denominator(B, ws, b) = 20 * Cardinality(ws) * W!LpOn(B, {B[b].option})
    BY <2>1, Divisor
  <2> QED
    BY <2>2
<1>5. kg <= t
  BY <1>4, TiesHoldTheirStakes
<1>6. d = 20 * kg /\ kg \in Int
  <2>1. Cardinality(ws) \in Nat /\ W!LpOn(B, {o}) \in Nat
    BY <1>1, <1>3, OptionsBacked, Divisor
  <2> QED
    BY <1>4, <2>1
<1>7. p[b] \in Int
  BY <1>3
<1> HIDE DEF t, lp, kg, d, ws
<1>8. d * lp <= 20 * t * lp
  <2>1. d \in Int /\ 20 * t \in Int /\ d <= 20 * t
    BY <1>2, <1>5, <1>6
  <2>2. lp * d <= lp * (20 * t)
    BY <1>4, <2>1, Increasing
  <2>3. lp * d = d * lp /\ lp * (20 * t) = 20 * t * lp
    BY <1>2, <1>4
  <2> QED
    BY <2>2, <2>3
<1>9. 20 * t * lp < 21 * t * lp
  <2> DEFINE y == t * lp
  <2>1. y \in Nat /\ y > 0 /\ 20 * t * lp = 20 * y /\ 21 * t * lp = 21 * y
    BY <1>2, <1>4
  <2> HIDE DEF y
  <2> QED
    BY <2>1
<1>10. d * lp < d * (p[b] + 1)
  <2>1. d * (p[b] + 1) = d * p[b] + d /\ d * lp \in Int /\ d * p[b] \in Int /\ 20 * t * lp \in Int /\ 21 * t * lp \in Int
    BY <1>2, <1>4, <1>7
  <2> QED
    BY <1>3, <1>4, <1>8, <1>9, <2>1
<1>11. lp < p[b] + 1
  BY <1>4, <1>7, <1>10, Cancel
<1> QED
  BY <1>4, <1>7, <1>11 DEF lp

-----------------------------------------------------------------------------
(***************************************************************************)
(* MCPayout, the settlement: the survey closes with what computeTcSettlement*)
(* distributes.                                                            *)
(***************************************************************************)

SettlementInv ==
  /\ survey \in [type : {"discrete", "continuous"}, noBonusWhenNoLoser : BOOLEAN, open : BOOLEAN]
  /\ \E n \in 1 .. MaxRows : bets \in [1 .. n -> [option : W!OptionsOf(survey.type), lp : Stakes]]
  /\ W!Settled => paid \in W!Distributions(bets, W!winners, W!pool)

LEMMA SurveyIsATable ==
  ASSUME SettlementInv
  PROVE  /\ Table(bets)
         /\ survey.type = "continuous" => \A o \in W!Backed(bets) : o[1] \in Int
<1>1. PICK n \in 1 .. MaxRows : bets \in [1 .. n -> [option : W!OptionsOf(survey.type), lp : Stakes]]
  BY DEF SettlementInv
<1>2. MaxRows \in Nat \ {0} /\ Stakes \subseteq Nat \ {0}
  BY Settlements DEF W!PayoutAssumption
<1>3. n \in Nat /\ 1 \in 1 .. n /\ IsFiniteSet(1 .. n)
  BY <1>2, FS_Interval
<1>4. DOMAIN bets = 1 .. n /\ \A b \in 1 .. n : bets[b].lp \in Stakes /\ bets[b].option \in W!OptionsOf(survey.type)
  BY <1>1
<1>5. Table(bets)
  BY <1>2, <1>3, <1>4 DEF Table
<1>6. ASSUME survey.type = "continuous", NEW o \in W!Backed(bets) PROVE o[1] \in Int
  <2>1. o \in W!OptionsOf("continuous")
    BY <1>4, <1>6 DEF W!Backed
  <2> QED
    BY <2>1 DEF W!OptionsOf
<1> QED
  BY <1>5, <1>6

LEMMA SettlementStarts == W!Init => SettlementInv
<1> SUFFICES ASSUME W!Init PROVE SettlementInv
  OBVIOUS
<1>1. survey \in [type : {"discrete", "continuous"}, noBonusWhenNoLoser : BOOLEAN, open : {TRUE}]
      /\ \E n \in 1 .. MaxRows : bets \in [1 .. n -> [option : W!OptionsOf(survey.type), lp : Stakes]]
  BY DEF W!Init
<1>2. survey \in [type : {"discrete", "continuous"}, noBonusWhenNoLoser : BOOLEAN, open : BOOLEAN]
      /\ ~ W!Settled
  BY <1>1 DEF W!Settled
<1> QED
  BY <1>1, <1>2 DEF SettlementInv

LEMMA SettlementStep == SettlementInv /\ [W!Settle]_W!vars => SettlementInv'
<1> SUFFICES ASSUME SettlementInv, [W!Settle]_W!vars PROVE SettlementInv'
  OBVIOUS
<1>1. CASE W!Settle
  <2>1. /\ survey' = [survey EXCEPT !.open = FALSE] /\ bets' = bets
        /\ paid' \in W!Distributions(bets, W!winners, W!pool)
    BY <1>1 DEF W!Settle
  <2>2. /\ survey'.type = survey.type /\ survey'.noBonusWhenNoLoser = survey.noBonusWhenNoLoser
        /\ survey' \in [type : {"discrete", "continuous"}, noBonusWhenNoLoser : BOOLEAN, open : BOOLEAN]
    BY <2>1 DEF SettlementInv
  <2>3. W!winners' = W!winners /\ W!pool' = W!pool
    BY <2>1, <2>2 DEF W!winners, W!pool
  <2>4. \E n \in 1 .. MaxRows : bets' \in [1 .. n -> [option : W!OptionsOf(survey'.type), lp : Stakes]]
    BY <2>1, <2>2 DEF SettlementInv
  <2> QED
    BY <2>1, <2>2, <2>3, <2>4 DEF SettlementInv
<1>2. CASE UNCHANGED W!vars
  BY <1>2 DEF SettlementInv, W!vars, W!Settled, W!winners, W!pool
<1> QED
  BY <1>1, <1>2

\* What the properties of a settlement ask for follows from its invariant.
LEMMA SettlementIsFair ==
  ASSUME SettlementInv
  PROVE  W!PoolIsDistributed /\ W!NearestToTheExactAverage /\ W!WinnersAreNotWorseOff
<1>1. /\ Table(bets)
      /\ survey.type = "continuous" => \A o \in W!Backed(bets) : o[1] \in Int
  BY SurveyIsATable
<1>2. W!winners \in SUBSET W!Backed(bets) /\ W!winners # {}
  BY <1>1, SomebodyWins DEF W!winners
<1>3. W!pool \in Nat
  <2>1. W!Total(bets) \in Nat
    BY <1>1, OptionsBacked
  <2>2. 20 * W!Total(bets) \in Nat /\ 21 * W!Total(bets) \in Nat
    BY <2>1
  <2> QED
    BY <2>2 DEF W!pool, W!EffectivePool
<1>4. W!PoolIsDistributed
  <2> SUFFICES ASSUME W!Settled
               PROVE  W!pool - 20 * W!SumFunction(paid) \in 0 .. 20 * W!Cardinality(DOMAIN paid)
    BY DEF W!PoolIsDistributed
  <2>1. paid \in W!Distributions(bets, W!winners, W!pool)
    BY DEF SettlementInv
  <2> QED
    BY <1>1, <1>2, <1>3, <2>1, PoolIsPaidOut, PayoutLibrary
<1>5. W!NearestToTheExactAverage
  <2> SUFFICES ASSUME survey.type = "continuous", W!Total(bets) < 10000
               PROVE  LET d(o) == W!Distance(o[1] * W!Total(bets), W!WeightedSum(bets))
                      IN  W!winners = {o \in W!Backed(bets) : \A q \in W!Backed(bets) : d(o) <= d(q)}
    BY DEF W!NearestToTheExactAverage
  <2>1. W!winners = W!Nearest(bets)
    BY DEF W!winners, W!Winners
  <2> QED
    BY <1>1, <2>1, RoundingPicksTheNearest
<1>6. W!WinnersAreNotWorseOff
  <2> SUFFICES ASSUME W!Settled, survey.type = "discrete",
                      W!HasLosers(bets, W!winners) \/ ~survey.noBonusWhenNoLoser
               PROVE  \A b \in DOMAIN paid : paid[b] >= bets[b].lp
    BY DEF W!WinnersAreNotWorseOff
  <2>1. paid \in W!Distributions(bets, W!winners, W!pool)
    BY DEF SettlementInv
  <2>2. W!winners = W!TopOptions(bets)
    BY DEF W!winners, W!Winners
  <2>3. W!pool = 21 * W!Total(bets)
    BY DEF W!pool, W!EffectivePool
  <2> QED
    BY <1>1, <2>1, <2>2, <2>3, StakeIsReturned
<1> QED
  BY <1>4, <1>5, <1>6

-----------------------------------------------------------------------------
(***************************************************************************)
(* Migrations: a handle comes with the whole schema.  SchemaInv says what   *)
(* the statements a process has behind it have done to the database,       *)
(* whoever ran them, and what a recorded version stands for.               *)
(***************************************************************************)

\* The names migrateLpRename() takes away, and those it gives.
OldNames == {G!Renames[j][1] : j \in 1 .. 4}
NewNames == {G!Renames[j][2] : j \in 1 .. 4}
Dropped == {"cvp_bets", "cvp_proposals", "cvp_counter"}

OpenerStates ==
  [at : {"closed", "migrating", "open"}, todo : SUBSET G!Versions, v : 0 .. 39, i : Nat]

LEMMA RenamesAre ==
  /\ Len(G!Renames) = 4
  /\ \A j \in 1 .. 4 : G!Renames[j][1] \in OldNames /\ G!Renames[j][2] \in NewNames
  /\ OldNames = {"profiles.ap_balance", "checkins.ap_awarded", "pending_replies.ap_spent", "ap_ledger"}
  /\ NewNames = {"profiles.pt_balance", "checkins.pt_awarded", "pending_replies.pt_spent", "pt_ledger"}
<1>1. /\ G!Renames[1] = <<"profiles.ap_balance", "profiles.pt_balance">>
      /\ G!Renames[2] = <<"checkins.ap_awarded", "checkins.pt_awarded">>
      /\ G!Renames[3] = <<"pending_replies.ap_spent", "pending_replies.pt_spent">>
      /\ G!Renames[4] = <<"ap_ledger", "pt_ledger">>
      /\ Len(G!Renames) = 4
  BY DEF G!Renames
<1>2. 1 .. 4 = {1, 2, 3, 4}
  OBVIOUS
<1> QED
  BY <1>1, <1>2 DEF OldNames, NewNames

\* No version creates an old name or one that version 31 drops.
LEMMA TablesAreNew == \A t \in G!Tables : t[1] \in G!Versions /\ t[2] \notin OldNames \cup Dropped
<1> SUFFICES ASSUME NEW t \in G!Tables
             PROVE  t[1] \in 1 .. 39 /\ t[2] \notin OldNames \cup Dropped
  BY DEF G!Versions
<1>1. t \in G!CoreTables => t[1] \in 1 .. 39 /\ t[2] \notin OldNames \cup Dropped
  BY RenamesAre DEF G!CoreTables, Dropped
<1>2. t \in G!BotTables \cup G!EventTables => t[1] \in 1 .. 39 /\ t[2] \notin OldNames \cup Dropped
  BY RenamesAre DEF G!BotTables, G!EventTables, Dropped
<1>3. t \in G!RosterTables \cup G!WatchTables \cup G!MemoryTables \cup G!CommunityTables
        => t[1] \in 1 .. 39 /\ t[2] \notin OldNames \cup Dropped
  BY RenamesAre DEF G!RosterTables, G!WatchTables, G!MemoryTables, G!CommunityTables, Dropped
<1>4. t \in G!MeetupTables \cup G!LedgerTables \cup G!SurveyTables \cup G!SurveyTablesAgain
        => t[1] \in 1 .. 39 /\ t[2] \notin OldNames \cup Dropped
  BY RenamesAre DEF G!MeetupTables, G!LedgerTables, G!SurveyTables, G!SurveyTablesAgain, Dropped
<1>5. t \in G!FragmentTables \cup G!PredictionTables \cup G!LastTables
        => t[1] \in 1 .. 39 /\ t[2] \notin OldNames \cup Dropped
  BY RenamesAre DEF G!FragmentTables, G!PredictionTables, G!LastTables, Dropped
<1> QED
  BY <1>1, <1>2, <1>3, <1>4, <1>5 DEF G!Tables

\* Only version 31 creates what 29 and 30 create, and nothing else makes a ledger
\* but version 1.
LEMMA SurveysComeAgain ==
  /\ \A t \in G!Tables : t[1] \in {29, 30} => <<31, t[2]>> \in G!Tables
  /\ \A t, u \in G!Tables : t[1] \in {29, 30} /\ t[2] = u[2] => u[1] \in {29, 30, 31}
  /\ \A t \in G!Tables : t[1] \in {29, 30} => t[2] \notin NewNames
<1> DEFINE Surveys == {"tc_counter", "tc_proposals", "tc_bets"}
<1>1. \A t \in G!CoreTables \cup G!BotTables \cup G!EventTables :
        t[1] \notin {29, 30, 31} /\ t[2] \notin Surveys
  BY DEF G!CoreTables, G!BotTables, G!EventTables
<1>2. \A t \in G!RosterTables \cup G!WatchTables \cup G!MemoryTables \cup G!CommunityTables :
        t[1] \notin {29, 30, 31} /\ t[2] \notin Surveys
  BY DEF G!RosterTables, G!WatchTables, G!MemoryTables, G!CommunityTables
<1>3. \A t \in G!MeetupTables \cup G!LedgerTables \cup G!FragmentTables \cup G!PredictionTables
              \cup G!LastTables :
        t[1] \notin {29, 30, 31} /\ t[2] \notin Surveys
  BY DEF G!MeetupTables, G!LedgerTables, G!FragmentTables, G!PredictionTables, G!LastTables
<1>4. \A t \in G!SurveyTables \cup G!SurveyTablesAgain :
        t[1] \in {29, 30, 31} /\ t[2] \in Surveys
  BY DEF G!SurveyTables, G!SurveyTablesAgain
<1>5. \A t \in G!SurveyTables : <<31, t[2]>> \in G!SurveyTablesAgain
  BY DEF G!SurveyTablesAgain
<1>6. \A t \in G!SurveyTablesAgain : t[1] = 31
  BY DEF G!SurveyTablesAgain
<1>7. Surveys \cap NewNames = {}
  BY RenamesAre
<1> HIDE DEF Surveys
<1>8. \A t \in G!Tables : IF t[1] \in {29, 30, 31} THEN t[2] \in Surveys ELSE t[2] \notin Surveys
  BY <1>1, <1>2, <1>3, <1>4 DEF G!Tables
<1>9. \A t \in G!Tables : t[1] \in {29, 30} => t \in G!SurveyTables
  BY <1>1, <1>2, <1>3, <1>4, <1>6 DEF G!Tables
<1>10. \A t \in G!Tables : t[1] \in {29, 30} => <<31, t[2]>> \in G!Tables
  BY <1>5, <1>9 DEF G!Tables
<1>11. \A t, u \in G!Tables : t[1] \in {29, 30} /\ t[2] = u[2] => u[1] \in {29, 30, 31}
  BY <1>8
<1> QED
  BY <1>7, <1>8, <1>10, <1>11

\* Which tables are there from when on.
LEMMA SomeTables ==
  /\ \A o \in {"chats", "messages", "profiles", "profiles.pt_balance", "pt_ledger", "badges",
               "user_badges", "activities"} : <<1, o>> \in G!Tables
  /\ <<3, "checkins.pt_awarded">> \in G!Tables
  /\ <<5, "pending_replies.pt_spent">> \in G!Tables
  /\ <<7, "event_schedule_state">> \in G!Tables /\ <<10, "member_sync_rounds">> \in G!Tables
  /\ <<23, "activity_meetups">> \in G!Tables
  BY DEF G!Tables, G!CoreTables, G!BotTables, G!EventTables, G!RosterTables, G!MeetupTables

LEMMA ALedgerIsOfOne == \A t \in G!Tables : t[2] = "pt_ledger" => t[1] = 1
<1>1. \A t \in G!CoreTables : t[1] = 1
  BY DEF G!CoreTables
<1>2. \A t \in G!BotTables \cup G!EventTables : t[2] # "pt_ledger"
  BY DEF G!BotTables, G!EventTables
<1>3. \A t \in G!RosterTables \cup G!WatchTables \cup G!MemoryTables \cup G!CommunityTables :
        t[2] # "pt_ledger"
  BY DEF G!RosterTables, G!WatchTables, G!MemoryTables, G!CommunityTables
<1>4. \A t \in G!MeetupTables \cup G!LedgerTables \cup G!FragmentTables \cup G!PredictionTables
              \cup G!LastTables : t[2] # "pt_ledger"
  BY DEF G!MeetupTables, G!LedgerTables, G!FragmentTables, G!PredictionTables, G!LastTables
<1>5. \A t \in G!SurveyTables \cup G!SurveyTablesAgain : t[2] # "pt_ledger"
  BY DEF G!SurveyTables, G!SurveyTablesAgain
<1> QED
  BY <1>1, <1>2, <1>3, <1>4, <1>5 DEF G!Tables

LEMMA CreatesAre ==
  ASSUME NEW v \in G!Versions
  PROVE  \A o : o \in G!Creates[v] <=> <<v, o>> \in G!Tables
<1>1. \A t \in G!Tables : t = <<t[1], t[2]>>
  <2>1. \A t \in G!CoreTables \cup G!BotTables \cup G!EventTables : t = <<t[1], t[2]>>
    BY DEF G!CoreTables, G!BotTables, G!EventTables
  <2>2. \A t \in G!RosterTables \cup G!WatchTables \cup G!MemoryTables \cup G!CommunityTables :
          t = <<t[1], t[2]>>
    BY DEF G!RosterTables, G!WatchTables, G!MemoryTables, G!CommunityTables
  <2>3. \A t \in G!MeetupTables \cup G!LedgerTables \cup G!FragmentTables \cup G!PredictionTables
                \cup G!LastTables : t = <<t[1], t[2]>>
    BY DEF G!MeetupTables, G!LedgerTables, G!FragmentTables, G!PredictionTables, G!LastTables
  <2>4. \A t \in G!SurveyTables \cup G!SurveyTablesAgain : t = <<t[1], t[2]>>
    BY DEF G!SurveyTables, G!SurveyTablesAgain
  <2> QED
    BY <2>1, <2>2, <2>3, <2>4 DEF G!Tables
<1>2. G!Creates[v] = {t[2] : t \in {u \in G!Tables : u[1] = v}}
  BY DEF G!Creates
<1> QED
  BY <1>1, <1>2

LEMMA AltersAre ==
  ASSUME NEW v \in G!Versions
  PROVE  /\ Len(G!Alters[v]) \in Nat
         /\ v = 19 => Len(G!Alters[v]) = 0
         /\ Len(G!Alters[v]) = 0 <=> G!Alters[v] = <<>>
         /\ \A i \in 1 .. Len(G!Alters[v]) :
              \E u \in 1 .. v - 1 : <<u, G!Alters[v][i]>> \in G!Tables /\ u \notin {29, 30}
         /\ \A i \in 1 .. Len(G!Alters[v]) : G!Alters[v][i] \notin NewNames
<1> DEFINE A == G!Alters[v]
<1> DEFINE Good == /\ Len(A) \in Nat /\ (v = 19 => Len(A) = 0) /\ (Len(A) = 0 <=> A = <<>>)
                   /\ \A i \in 1 .. Len(A) :
                        \E u \in 1 .. v - 1 : <<u, A[i]>> \in G!Tables /\ u \notin {29, 30}
                   /\ \A i \in 1 .. Len(A) : A[i] \notin NewNames
<1> SUFFICES Good
  OBVIOUS
<1> HIDE DEF Good
<1> USE DEF G!Versions
<1>0. A = (CASE v = 2 -> <<"profiles">>
             [] v = 17 -> G!BadgeColumns
             [] v = 25 -> <<"activity_meetups">>
             [] v = 38 -> <<"messages", "messages">>
             [] OTHER -> G!RosterColumns(v))
  BY DEF G!Alters
<1>1. \A o \in {"profiles", "activity_meetups", "messages", "chats", "event_schedule_state",
                "member_sync_rounds", "badges", "user_badges"} : o \notin NewNames
  BY RenamesAre
<1>7. ASSUME Len(A) \in Nat \ {0}, A # <<>>, v # 19, NEW u \in 1 .. v - 1, u \notin {29, 30},
             \A i \in 1 .. Len(A) : <<u, A[i]>> \in G!Tables /\ A[i] \notin NewNames
      PROVE  Good
  <2> HIDE DEF A
  <2> QED
    BY <1>7 DEF Good
<1>2. CASE v = 2
  <2>1. A = <<"profiles">>
    BY <1>0, <1>2
  <2>2. Len(A) = 1 /\ A # <<>> /\ A[1] = "profiles"
    BY <2>1
  <2>3. \A i \in 1 .. 1 : <<1, A[i]>> \in G!Tables /\ A[i] \notin NewNames
    BY <2>2, <1>1, SomeTables
  <2>4. 1 \in 1 .. v - 1
    BY <1>2
  <2> HIDE DEF A
  <2>5. /\ Len(A) \in Nat \ {0} /\ A # <<>>
       /\ \A i \in 1 .. Len(A) : <<1, A[i]>> \in G!Tables /\ A[i] \notin NewNames
    BY <2>2, <2>3
  <2>6. v # 19
    BY <1>2
  <2> QED
    BY <2>4, <2>5, <2>6, <1>7
<1>3. CASE v = 17
  <2>1. A = G!BadgeColumns
    BY <1>0, <1>3
  <2>2. Len(A) = 11 /\ A # <<>> /\ \A i \in 1 .. 11 : A[i] \in {"badges", "user_badges"}
    BY <2>1 DEF G!BadgeColumns
  <2>3. \A i \in 1 .. 11 : <<1, A[i]>> \in G!Tables /\ A[i] \notin NewNames
    BY <2>2, <1>1, SomeTables
  <2>4. 1 \in 1 .. v - 1
    BY <1>3
  <2> HIDE DEF A
  <2>5. /\ Len(A) \in Nat \ {0} /\ A # <<>>
       /\ \A i \in 1 .. Len(A) : <<1, A[i]>> \in G!Tables /\ A[i] \notin NewNames
    BY <2>2, <2>3
  <2>6. v # 19
    BY <1>3
  <2> QED
    BY <2>4, <2>5, <2>6, <1>7
<1>4. CASE v = 25
  <2>1. A = <<"activity_meetups">>
    BY <1>0, <1>4
  <2>2. Len(A) = 1 /\ A # <<>> /\ A[1] = "activity_meetups"
    BY <2>1
  <2>3. \A i \in 1 .. 1 : <<23, A[i]>> \in G!Tables /\ A[i] \notin NewNames
    BY <2>2, <1>1, SomeTables
  <2>4. 23 \in 1 .. v - 1
    BY <1>4
  <2> HIDE DEF A
  <2>5. /\ Len(A) \in Nat \ {0} /\ A # <<>>
       /\ \A i \in 1 .. Len(A) : <<23, A[i]>> \in G!Tables /\ A[i] \notin NewNames
    BY <2>2, <2>3
  <2>6. v # 19
    BY <1>4
  <2> QED
    BY <2>4, <2>5, <2>6, <1>7
<1>5. CASE v = 38
  <2>1. A = <<"messages", "messages">>
    BY <1>0, <1>5
  <2>2. Len(A) = 2 /\ A # <<>> /\ \A i \in 1 .. 2 : A[i] = "messages"
    BY <2>1
  <2>3. \A i \in 1 .. 2 : <<1, A[i]>> \in G!Tables /\ A[i] \notin NewNames
    BY <2>2, <1>1, SomeTables
  <2>4. 1 \in 1 .. v - 1
    BY <1>5
  <2> HIDE DEF A
  <2>5. /\ Len(A) \in Nat \ {0} /\ A # <<>>
       /\ \A i \in 1 .. Len(A) : <<1, A[i]>> \in G!Tables /\ A[i] \notin NewNames
    BY <2>2, <2>3
  <2>6. v # 19
    BY <1>5
  <2> QED
    BY <2>4, <2>5, <2>6, <1>7
<1>6. CASE v \notin {2, 17, 25, 38}
  <2>1. A = G!RosterColumns(v)
    BY <1>0, <1>6
  <2>2. CASE v = 8
    <3>1. A = <<"event_schedule_state">>
      BY <2>1, <2>2 DEF G!RosterColumns
    <3>2. Len(A) = 1 /\ A # <<>> /\ A[1] = "event_schedule_state"
      BY <3>1
    <3>3. \A i \in 1 .. 1 : <<7, A[i]>> \in G!Tables /\ A[i] \notin NewNames
      BY <3>2, <1>1, SomeTables
    <3>4. 7 \in 1 .. v - 1
      BY <2>2
    <3> HIDE DEF A
    <3>5. /\ Len(A) \in Nat \ {0} /\ A # <<>>
         /\ \A i \in 1 .. Len(A) : <<7, A[i]>> \in G!Tables /\ A[i] \notin NewNames
      BY <3>2, <3>3
    <3>6. v # 19
      BY <2>2
    <3> QED
      BY <3>4, <3>5, <3>6, <1>7
  <2>3. CASE v = 11
    <3>1. A = [i \in 1 .. 3 |-> "member_sync_rounds"]
      BY <2>1, <2>3 DEF G!RosterColumns
    <3>2. Len(A) = 3 /\ A # <<>> /\ \A i \in 1 .. 3 : A[i] = "member_sync_rounds"
      BY <3>1
    <3>3. \A i \in 1 .. 3 : <<10, A[i]>> \in G!Tables /\ A[i] \notin NewNames
      BY <3>2, <1>1, SomeTables
    <3>4. 10 \in 1 .. v - 1
      BY <2>3
    <3> HIDE DEF A
    <3>5. /\ Len(A) \in Nat \ {0} /\ A # <<>>
         /\ \A i \in 1 .. Len(A) : <<10, A[i]>> \in G!Tables /\ A[i] \notin NewNames
      BY <3>2, <3>3
    <3>6. v # 19
      BY <2>3
    <3> QED
      BY <3>4, <3>5, <3>6, <1>7
  <2>4. CASE v \in {12, 13}
    <3>1. A = <<"chats">>
      BY <2>1, <2>4 DEF G!RosterColumns
    <3>2. Len(A) = 1 /\ A # <<>> /\ A[1] = "chats"
      BY <3>1
    <3>3. \A i \in 1 .. 1 : <<1, A[i]>> \in G!Tables /\ A[i] \notin NewNames
      BY <3>2, <1>1, SomeTables
    <3>4. 1 \in 1 .. v - 1
      BY <2>4
    <3> HIDE DEF A
    <3>5. /\ Len(A) \in Nat \ {0} /\ A # <<>>
         /\ \A i \in 1 .. Len(A) : <<1, A[i]>> \in G!Tables /\ A[i] \notin NewNames
      BY <3>2, <3>3
    <3>6. v # 19
      BY <2>4
    <3> QED
      BY <3>4, <3>5, <3>6, <1>7
  <2>5. CASE v \notin {8, 11, 12, 13}
    <3>1. A = <<>>
      BY <2>1, <2>5 DEF G!RosterColumns
    <3> QED
      BY <3>1 DEF Good
  <2> QED
    BY <2>2, <2>3, <2>4, <2>5
<1> QED
  BY <1>2, <1>3, <1>4, <1>5, <1>6

LEMMA NeedsAndDropsAre ==
  ASSUME NEW v \in G!Versions
  PROVE  /\ G!Drops[v] \subseteq Dropped
         /\ \A o \in G!Needs[v] : v # 1 /\ <<1, o>> \in G!Tables /\ (o \in NewNames => v > 19)
<1>1. G!Drops[v] \subseteq Dropped
  BY DEF G!Drops, Dropped
<1>2. G!Needs[v] = (CASE v = 2 -> {"messages", "activities", "badges"}
                      [] v = 37 -> {"pt_ledger"}
                      [] v = 38 -> {"messages"}
                      [] OTHER -> {})
  BY DEF G!Needs
<1>3. {"messages", "activities", "badges"} \cap NewNames = {}
  BY RenamesAre
<1> QED
  BY <1>1, <1>2, <1>3, SomeTables

\* Some set of versions has a least member, where a process that has them to do
\* begins.
LEMMA GoAre ==
  ASSUME NEW todo \in SUBSET G!Versions
  PROVE  /\ G!Go(todo) \in OpenerStates
         /\ todo = {} => G!Go(todo).at = "open"
         /\ todo # {} => /\ G!Go(todo).at = "migrating" /\ G!Go(todo).i = 1
                         /\ G!Go(todo).todo = todo /\ G!Go(todo).v \in todo
                         /\ \A u \in todo : G!Go(todo).v <= u
<1>1. CASE todo = {}
  BY <1>1 DEF G!Go, G!Closed, OpenerStates
<1>2. CASE todo # {}
  <2> DEFINE back == {40 - u : u \in todo}
  <2>1. IsFiniteSet(1 .. 39)
    <3>1. 1 \in Int /\ 39 \in Int
      OBVIOUS
    <3> QED
      BY <3>1, FS_Interval
  <2>2. IsFiniteSet(back) /\ back # {} /\ \A x \in back : x \in Int
    <3>1. back \subseteq 1 .. 39
      BY DEF G!Versions
    <3>2. IsFiniteSet(back)
      <4> HIDE DEF back
      <4> QED
        BY <2>1, <3>1, FS_Subset
    <3>3. back # {}
      BY <1>2
    <3> HIDE DEF back
    <3> QED
      BY <3>1, <3>2, <3>3
  <2>3. PICK m \in back : \A x \in back : x <= m
    <3> HIDE DEF back
    <3> QED
      BY <2>2, Greatest
  <2>4. \E u \in todo : \A w \in todo : u <= w
    <3>1. PICK u \in todo : m = 40 - u
      BY <2>3
    <3>2. \A w \in todo : 40 - w <= 40 - u
      BY <2>3, <3>1
    <3>3. \A w \in todo : u \in Int /\ w \in Int
      BY DEF G!Versions
    <3> QED
      BY <3>2, <3>3
  <2>5. G!Min(todo) \in todo /\ \A u \in todo : G!Min(todo) <= u
    BY <2>4 DEF G!Min
  <2>6. G!Go(todo) = [at |-> "migrating", todo |-> todo, v |-> G!Min(todo), i |-> 1]
    BY <1>2 DEF G!Go
  <2>7. G!Min(todo) \in 0 .. 39
    <3>1. \A u \in todo : u \in 0 .. 39
      BY DEF G!Versions
    <3>2. G!Min(todo) \in todo
      BY <2>5
    <3> QED
      BY <3>1, <3>2
  <2>8. G!Go(todo) \in OpenerStates
    BY <2>6, <2>7 DEF OpenerStates
  <2> QED
    BY <1>2, <2>5, <2>6, <2>8
<1> QED
  BY <1>1, <1>2

-----------------------------------------------------------------------------
\* A table or renamed column is there, if need be under the name it had before.
There(o) ==
  \/ o \in objects
  \/ \E j \in 1 .. 4 : G!Renames[j][2] = o /\ G!Renames[j][1] \in objects
Built(v) == \A o : <<v, o>> \in G!Tables => There(o)

SchemaTyped ==
  /\ columns \subseteq G!Versions \X Nat
  /\ \A c \in columns : c[2] \in 1 .. Len(G!Alters[c[1]])
  /\ schemaRows \subseteq G!Versions
  /\ opener \in [Openers -> OpenerStates]

\* A process is at the first version it has still to do, and what it has not to do
\* is recorded.
InItsPlace(p) == opener[p].at = "migrating" =>
  /\ opener[p].v \in opener[p].todo /\ \A u \in opener[p].todo : opener[p].v <= u
  /\ G!Versions \subseteq opener[p].todo \cup schemaRows
  /\ opener[p].i \in 1 .. G!Before(opener[p].v) + 2

\* The statements it has behind it have had their effect, whoever ran them.
ColumnsDone(p) == opener[p].at = "migrating" =>
  \A j \in 1 .. Len(G!Alters[opener[p].v]) :
    j < opener[p].i => <<opener[p].v, j>> \in columns
NamesDone(p) == opener[p].at = "migrating" /\ opener[p].v = 19 =>
  \A j \in 1 .. 4 : j < opener[p].i => G!Renames[j][2] \in objects
TablesDone(p) ==
  opener[p].at = "migrating" /\ opener[p].i = G!Before(opener[p].v) + 2 => Built(opener[p].v)

\* A version that is recorded was run to its end; 29 and 30 may have been recorded
\* by a build that made their tables under other names, and 31 makes them again.
RowsAreTrue ==
  /\ \A v \in schemaRows : \A j \in 1 .. Len(G!Alters[v]) : <<v, j>> \in columns
  /\ \A v \in schemaRows \ {29, 30} : Built(v)
  /\ 19 \in schemaRows => \A j \in 1 .. 4 : G!Renames[j][2] \in objects

HandlesAreWhole == \A p \in Openers : opener[p].at = "open" => schemaRows = G!Versions

\* There is one ledger, and where it has its old name nobody runs version 1.
OneLedger ==
  /\ ~ ("ap_ledger" \in objects /\ "pt_ledger" \in objects)
  /\ objects = {} \/ "ap_ledger" \in objects \/ "pt_ledger" \in objects
  /\ "ap_ledger" \in objects =>
       /\ 1 \in schemaRows
       /\ \A p \in Openers : opener[p].at = "migrating" => 1 \notin opener[p].todo

\* Where nobody was interrupted, a column whose version is not recorded has a
\* process behind it that is past it.
Past(p, c) == opener[p].at = "migrating" /\ opener[p].v = c[1] /\ opener[p].i > c[2]
ColumnsAreCared ==
  ~ torn => \A c \in columns : c[1] \notin schemaRows => \E p \in Openers : Past(p, c)

SchemaInv ==
  /\ SchemaTyped /\ RowsAreTrue /\ HandlesAreWhole /\ OneLedger /\ ColumnsAreCared
  /\ \A p \in Openers : InItsPlace(p) /\ ColumnsDone(p) /\ NamesDone(p) /\ TablesDone(p)

-----------------------------------------------------------------------------
LEMMA BeforeIs ==
  ASSUME NEW v \in G!Versions
  PROVE  /\ G!Before(v) \in Nat
         /\ v = 19 => G!Before(v) = 4
         /\ v # 19 => G!Before(v) = Len(G!Alters[v])
  BY AltersAre, RenamesAre DEF G!Before

\* What an older version made is there for a later one.
LEMMA TheTablesAreThere ==
  ASSUME SchemaInv, NEW p \in Openers, opener[p].at = "migrating"
  PROVE  /\ opener[p].v \in G!Versions
         /\ \A u \in G!Versions : u < opener[p].v => u \in schemaRows
         /\ opener[p].v # 19 =>
              \A i \in 1 .. Len(G!Alters[opener[p].v]) : G!Alters[opener[p].v][i] \in objects
         /\ G!Needs[opener[p].v] \subseteq objects
<1> DEFINE v == opener[p].v
<1>1. v \in G!Versions /\ v \in opener[p].todo
  <2>1. opener[p] \in OpenerStates
    BY DEF SchemaInv, SchemaTyped
  <2> QED
    BY <2>1 DEF SchemaInv, InItsPlace, OpenerStates
<1>2. \A u \in G!Versions : u < v => u \in schemaRows
  <2>1. /\ \A u \in opener[p].todo : v <= u
        /\ G!Versions \subseteq opener[p].todo \cup schemaRows
    BY DEF SchemaInv, InItsPlace
  <2>2. \A u \in G!Versions : u < v => ~ (v <= u)
    BY <1>1 DEF G!Versions
  <2> QED
    BY <2>1, <2>2
<1>3. ASSUME NEW u \in 1 .. v - 1, u \notin {29, 30}, NEW o, <<u, o>> \in G!Tables, o \notin NewNames
      PROVE  o \in objects
  <2>1. u \in G!Versions /\ u < v
    BY <1>1 DEF G!Versions
  <2>2. There(o)
    BY <1>2, <1>3, <2>1 DEF SchemaInv, RowsAreTrue, Built
  <2> QED
    BY <2>2, <1>3, RenamesAre DEF There
<1>4. \A i \in 1 .. Len(G!Alters[v]) : G!Alters[v][i] \in objects
  <2> TAKE i \in 1 .. Len(G!Alters[v])
  <2> DEFINE o == G!Alters[v][i]
  <2>1. /\ \E u \in 1 .. v - 1 : <<u, o>> \in G!Tables /\ u \notin {29, 30}
        /\ o \notin NewNames
    BY <1>1, AltersAre
  <2> HIDE DEF o
  <2>2. o \in objects
    BY <1>3, <2>1
  <2> QED
    BY <2>2 DEF o
<1>5. ASSUME NEW o \in G!Needs[v] PROVE o \in objects
  <2>1. v # 1 /\ <<1, o>> \in G!Tables /\ (o \in NewNames => v > 19)
    BY <1>1, NeedsAndDropsAre
  <2>2. 1 \in 1 .. v - 1 /\ 1 \notin {29, 30}
    BY <1>1, <2>1 DEF G!Versions
  <2>3. CASE o \in NewNames
    <3>1. 19 \in schemaRows
      BY <2>3, <2>1, <1>1, <1>2 DEF G!Versions
    <3>2. \A j \in 1 .. 4 : G!Renames[j][2] \in objects
      BY <3>1 DEF SchemaInv, RowsAreTrue
    <3> QED
      BY <3>2, <2>3 DEF NewNames
  <2> QED
    BY <1>3, <2>1, <2>2, <2>3
<1> QED
  BY <1>1, <1>2, <1>4, <1>5

\* It follows what the run checks.
LEMMA SchemaInvImplies ==
  ASSUME SchemaInv
  PROVE  G!HandleMeansComplete /\ G!JamsByInterruptionOnly /\ G!NoTableIsMissed
<1>1. G!HandleMeansComplete
  <2>1. \A v \in schemaRows : {v} \X (1 .. Len(G!Alters[v])) \subseteq columns
    BY DEF SchemaInv, RowsAreTrue
  <2>2. ASSUME schemaRows = G!Versions PROVE G!Made(39) \subseteq objects
    <3>1. G!Made(39) = UNION {G!Creates[v] : v \in 1 .. 39}
      BY DEF G!Made
    <3>2. SUFFICES ASSUME NEW v \in G!Versions, NEW o \in G!Creates[v] PROVE o \in objects
      BY <3>1 DEF G!Versions
    <3>3. <<v, o>> \in G!Tables
      BY CreatesAre
    <3>4. PICK u \in G!Versions \ {29, 30} : <<u, o>> \in G!Tables
      <4>1. v \in {29, 30} => <<31, o>> \in G!Tables
        BY <3>3, SurveysComeAgain
      <4>2. 31 \in G!Versions \ {29, 30}
        BY DEF G!Versions
      <4> QED
        BY <3>3, <4>1, <4>2
    <3>5. There(o)
      BY <3>4, <2>2 DEF SchemaInv, RowsAreTrue, Built
    <3>6. \A j \in 1 .. 4 : G!Renames[j][2] \in objects
      <4>1. 19 \in schemaRows
        BY <2>2 DEF G!Versions
      <4> QED
        BY <4>1 DEF SchemaInv, RowsAreTrue
    <3> QED
      BY <3>5, <3>6 DEF There
  <2>3. (\E p \in Openers : opener[p].at = "open") => schemaRows = G!Versions
    BY DEF SchemaInv, HandlesAreWhole
  <2> QED
    BY <2>1, <2>2, <2>3 DEF G!HandleMeansComplete
<1>2. G!JamsByInterruptionOnly
  <2> SUFFICES ASSUME ~ torn, NEW c \in columns, c[1] \notin schemaRows
               PROVE  \E p \in Openers : G!HasAltered(p) /\ opener[p].v = c[1]
    BY DEF G!JamsByInterruptionOnly
  <2>1. PICK p \in Openers : Past(p, c)
    BY DEF SchemaInv, ColumnsAreCared
  <2>2. c[1] \in G!Versions /\ c[2] \in 1 .. Len(G!Alters[c[1]])
    BY DEF SchemaInv, SchemaTyped
  <2>3. opener[p].i \in Int
    BY DEF SchemaInv, SchemaTyped, OpenerStates
  <2>4. G!Alters[c[1]] # <<>> /\ c[1] # 19 /\ opener[p].i > 1
    <3>1. Len(G!Alters[c[1]]) # 0
      BY <2>2, AltersAre
    <3>2. opener[p].i > c[2]
      BY <2>1 DEF Past
    <3> QED
      BY <3>1, <3>2, <2>2, <2>3, AltersAre
  <2> QED
    BY <2>1, <2>4 DEF Past, G!HasAltered
<1>3. G!NoTableIsMissed
  <2>1. ("ap_ledger" \in objects) # ("pt_ledger" \in objects) \/ objects = {}
    BY DEF SchemaInv, OneLedger
  <2>2. ASSUME NEW p \in Openers, opener[p].at = "migrating"
        PROVE  /\ opener[p].v # 19 /\ opener[p].i <= G!Before(opener[p].v)
                    => G!Alters[opener[p].v][opener[p].i] \in objects
               /\ opener[p].i = G!Before(opener[p].v) + 1 => G!Needs[opener[p].v] \subseteq objects
    <3>1. opener[p].v \in G!Versions
      BY <2>2, TheTablesAreThere
    <3>2. opener[p].i \in 1 .. G!Before(opener[p].v) + 2
      BY <2>2 DEF SchemaInv, InItsPlace
    <3>3. opener[p].v # 19 /\ opener[p].i <= G!Before(opener[p].v)
            => opener[p].i \in 1 .. Len(G!Alters[opener[p].v])
      BY <3>1, <3>2, BeforeIs
    <3> QED
      BY <2>2, <3>3, TheTablesAreThere
  <2> QED
    BY <2>1, <2>2 DEF G!NoTableIsMissed
<1> QED
  BY <1>1, <1>2, <1>3

-----------------------------------------------------------------------------
LEMMA MigrationsStart ==
  ASSUME G!Init
  PROVE  SchemaInv
<1>1. PICK n \in OldVersions : objects = G!Made(n) /\ columns = G!Added(n) /\ schemaRows = 1 .. n
  BY DEF G!Init
<1>2. n \in 0 .. 39 /\ 1 .. n \subseteq G!Versions
  BY OldBuilds DEF G!MigrationsAssumption, G!Versions
<1>3. \A p \in Openers : opener[p] = G!Closed
  BY DEF G!Init
<1>4. /\ columns \subseteq G!Versions \X Nat
      /\ \A c \in columns : c[1] \in 1 .. n /\ c[2] \in 1 .. Len(G!Alters[c[1]])
      /\ \A v \in 1 .. n : \A j \in 1 .. Len(G!Alters[v]) : <<v, j>> \in columns
  <2>1. columns = UNION {{v} \X (1 .. Len(G!Alters[v])) : v \in 1 .. n}
    BY <1>1 DEF G!Added
  <2>2. \A v \in 1 .. n : Len(G!Alters[v]) \in Nat
    BY <1>2, AltersAre
  <2>3. \A c : c \in columns <=> \E v \in 1 .. n : c \in {v} \X (1 .. Len(G!Alters[v]))
    BY <2>1
  <2> QED
    BY <2>2, <2>3, <1>2
<1> DEFINE new == UNION {G!Creates[v] : v \in 1 .. n}
           named == IF n < 19 THEN {G!OldName(o) : o \in new} ELSE new
<1>5. objects = IF n \in {29, 30}
                THEN (named \ (G!Creates[29] \cup G!Creates[30]))
                       \cup {"cvp_counter", "cvp_proposals"}
                       \cup (IF n = 30 THEN {"cvp_bets"} ELSE {})
                ELSE named
  BY <1>1 DEF G!Made
<1>6. \A o : o \in new <=> \E v \in 1 .. n : <<v, o>> \in G!Tables
  <2>1. \A o : o \in new <=> \E v \in 1 .. n : o \in G!Creates[v]
    OBVIOUS
  <2> HIDE DEF new
  <2> QED
    BY <2>1, <1>2, CreatesAre
<1>7. \A o : /\ o \notin NewNames => G!OldName(o) = o
             /\ o \in NewNames => \E j \in 1 .. 4 : G!Renames[j][2] = o /\ G!OldName(o) = G!Renames[j][1]
  BY DEF G!OldName, NewNames
<1> HIDE DEF new
<1>8. n < 19 => /\ objects = {G!OldName(o) : o \in new} /\ "pt_ledger" \notin objects
                /\ "ap_ledger" \in objects => 1 \in 1 .. n
  <2> SUFFICES ASSUME n < 19
               PROVE  /\ objects = {G!OldName(o) : o \in new} /\ "pt_ledger" \notin objects
                      /\ "ap_ledger" \in objects => 1 \in 1 .. n
    OBVIOUS
  <2>1. objects = {G!OldName(o) : o \in new}
    BY <1>5
  <2>2. \A o : G!OldName(o) # "pt_ledger"
    BY <1>7, RenamesAre
  <2>3. ASSUME "ap_ledger" \in objects PROVE 1 \in 1 .. n
    <3>1. PICK o \in new : G!OldName(o) = "ap_ledger"
      BY <2>1, <2>3
    <3>2. PICK v \in 1 .. n : <<v, o>> \in G!Tables
      BY <1>6, <3>1
    <3> QED
      BY <3>2, <1>2
  <2> QED
    BY <2>1, <2>2, <2>3
<1>9. n >= 19 => /\ \A o \in new : (\A v \in {29, 30} : <<v, o>> \notin G!Tables) => o \in objects
                 /\ "ap_ledger" \notin objects
  <2> SUFFICES ASSUME n >= 19
               PROVE  /\ \A o \in new : (\A v \in {29, 30} : <<v, o>> \notin G!Tables) => o \in objects
                      /\ "ap_ledger" \notin objects
    OBVIOUS
  <2>1. named = new
    BY <1>2
  <2>2. \A o : o \in G!Creates[29] \cup G!Creates[30]
               => (<<29, o>> \in G!Tables \/ <<30, o>> \in G!Tables)
    <3>1. 29 \in G!Versions /\ 30 \in G!Versions
      BY DEF G!Versions
    <3> QED
      BY <3>1, CreatesAre
  <2>3. "ap_ledger" \notin new
    <3> SUFFICES ASSUME "ap_ledger" \in new PROVE FALSE
      OBVIOUS
    <3>1. PICK v \in 1 .. n : <<v, "ap_ledger">> \in G!Tables
      BY <1>6
    <3>2. <<v, "ap_ledger">>[2] \notin OldNames
      BY <3>1, TablesAreNew
    <3> QED
      BY <3>2, RenamesAre
  <2>4. \A o \in new : (\A v \in {29, 30} : <<v, o>> \notin G!Tables) => o \in objects
    BY <1>5, <2>1, <2>2
  <2>5. objects \subseteq new \cup {"cvp_counter", "cvp_proposals", "cvp_bets"}
    BY <1>5, <2>1
  <2> QED
    BY <2>3, <2>4, <2>5
<1>10. \A v \in 1 .. n : v \notin {29, 30} => Built(v)
  <2> SUFFICES ASSUME NEW v \in 1 .. n, v \notin {29, 30}, NEW o, <<v, o>> \in G!Tables
               PROVE  There(o)
    BY DEF Built
  <2>1. o \in new
    BY <1>6
  <2>2. CASE n < 19
    <3>1. G!OldName(o) \in objects
      BY <1>8, <2>1, <2>2
    <3> QED
      BY <3>1, <1>7 DEF There
  <2>3. CASE n >= 19
    <3>1. CASE \A u \in {29, 30} : <<u, o>> \notin G!Tables
      BY <3>1, <1>9, <2>1, <2>3 DEF There
    <3>2. CASE \E u \in {29, 30} : <<u, o>> \in G!Tables
      <4>1. PICK u \in {29, 30} : <<u, o>> \in G!Tables
        BY <3>2
      <4>2. v \in {29, 30, 31}
        <5>1. <<u, o>>[1] \in {29, 30} /\ <<u, o>>[2] = <<v, o>>[2]
          BY <4>1
        <5> QED
          BY <5>1, <4>1, SurveysComeAgain
      <4>3. v = 31 /\ n \notin {29, 30}
        BY <4>2, <1>2
      <4>4. objects = new
        BY <1>5, <4>3, <2>3, <1>2
      <4> QED
        BY <4>4, <2>1 DEF There
    <3> QED
      BY <3>1, <3>2
  <2> QED
    BY <2>2, <2>3, <1>2
<1>11. 19 \in 1 .. n => \A j \in 1 .. 4 : G!Renames[j][2] \in objects
  <2> SUFFICES ASSUME 19 \in 1 .. n, NEW j \in 1 .. 4 PROVE G!Renames[j][2] \in objects
    OBVIOUS
  <2> DEFINE o == G!Renames[j][2]
  <2>1. o \in NewNames
    BY RenamesAre
  <2>2. PICK v \in {1, 3, 5} : <<v, o>> \in G!Tables
    BY <2>1, RenamesAre, SomeTables
  <2>3. o \in new
    <3>1. v \in 1 .. n
      BY <1>2
    <3> HIDE DEF o
    <3> QED
      BY <2>2, <3>1, <1>6
  <2>4. \A w \in {29, 30} : <<w, o>> \notin G!Tables
    BY <2>1, SurveysComeAgain
  <2> HIDE DEF o
  <2>5. o \in objects
    BY <2>3, <2>4, <1>9, <1>2
  <2> QED
    BY <2>5 DEF o
<1>12. objects = {} \/ "ap_ledger" \in objects \/ "pt_ledger" \in objects
  <2>1. CASE n = 0
    <3>1. new = {}
      BY <1>6, <2>1
    <3> QED
      BY <3>1, <1>8, <2>1
  <2>2. CASE n >= 1
    <3>1. "pt_ledger" \in new
      BY <1>6, SomeTables, <2>2, <1>2
    <3>2. CASE n < 19
      <4>1. G!OldName("pt_ledger") = "ap_ledger"
        BY <1>7, RenamesAre DEF G!Renames
      <4> QED
        BY <4>1, <3>1, <3>2, <1>8
    <3>3. CASE n >= 19
      <4>1. \A v \in {29, 30} : <<v, "pt_ledger">> \notin G!Tables
        BY ALedgerIsOfOne
      <4> QED
        BY <4>1, <3>1, <3>3, <1>9
    <3> QED
      BY <3>2, <3>3, <1>2
  <2> QED
    BY <2>1, <2>2, <1>2
<1>13. SchemaTyped
  <2>1. G!Closed \in OpenerStates
    BY DEF G!Closed, OpenerStates
  <2>2. opener \in [Openers -> OpenerStates]
    BY <2>1 DEF G!Init
  <2> QED
    BY <1>1, <1>2, <1>4, <2>2 DEF SchemaTyped
<1>14. \A p \in Openers : opener[p].at = "closed"
  BY <1>3 DEF G!Closed
<1>15. RowsAreTrue
  BY <1>1, <1>4, <1>10, <1>11 DEF RowsAreTrue
<1>16. OneLedger
  <2>1. ~ ("ap_ledger" \in objects /\ "pt_ledger" \in objects) /\ ("ap_ledger" \in objects => 1 \in 1 .. n)
    BY <1>8, <1>9, <1>2
  <2> QED
    BY <2>1, <1>1, <1>12, <1>14 DEF OneLedger
<1>17. ColumnsAreCared
  BY <1>1, <1>4 DEF ColumnsAreCared
<1>18. /\ HandlesAreWhole
       /\ \A p \in Openers : InItsPlace(p) /\ ColumnsDone(p) /\ NamesDone(p) /\ TablesDone(p)
  BY <1>14 DEF HandlesAreWhole, InItsPlace, ColumnsDone, NamesDone, TablesDone
<1> QED
  BY <1>13, <1>15, <1>16, <1>17, <1>18 DEF SchemaInv

-----------------------------------------------------------------------------
\* What there is of the tables that versions create is kept, and so is what was
\* said of versions.
KeptObjects ==
  /\ \A o : o \notin OldNames \cup Dropped /\ There(o) => There(o)'
  /\ \A j \in 1 .. 4 : G!Renames[j][2] \in objects => G!Renames[j][2] \in objects'

LEMMA BuiltIsKept ==
  ASSUME KeptObjects, NEW v \in G!Versions, Built(v)
  PROVE  Built(v)'
<1> SUFFICES ASSUME NEW o, <<v, o>> \in G!Tables PROVE There(o)'
  BY DEF Built
<1>1. <<v, o>>[2] \notin OldNames \cup Dropped
  BY TablesAreNew
<1> QED
  BY <1>1 DEF Built, KeptObjects

LEMMA ObjectsUnchanged == UNCHANGED objects => KeptObjects
  BY DEF KeptObjects, There

\* A step of one process that records no version: what is left to show is about
\* that process, the ledger and the columns.
LEMMA OneProcessMoves ==
  ASSUME SchemaInv, NEW p \in Openers, NEW s \in OpenerStates,
         opener' = [opener EXCEPT ![p] = s], KeptObjects, columns \subseteq columns',
         schemaRows' = schemaRows, SchemaTyped',
         s.at = "open" => schemaRows = G!Versions, OneLedger', ColumnsAreCared',
         (InItsPlace(p) /\ ColumnsDone(p) /\ NamesDone(p) /\ TablesDone(p))'
  PROVE  SchemaInv'
<1>1. opener'[p] = s /\ \A q \in Openers : q # p => opener'[q] = opener[q]
  BY DEF SchemaInv, SchemaTyped
<1>2. schemaRows \subseteq G!Versions
  BY DEF SchemaInv, SchemaTyped
<1>3. RowsAreTrue'
  <2>1. \A v \in schemaRows : \A j \in 1 .. Len(G!Alters[v]) : <<v, j>> \in columns'
    BY DEF SchemaInv, RowsAreTrue
  <2>2. \A v \in schemaRows \ {29, 30} : Built(v)'
    BY <1>2, BuiltIsKept DEF SchemaInv, RowsAreTrue
  <2>3. 19 \in schemaRows => \A j \in 1 .. 4 : G!Renames[j][2] \in objects'
    BY DEF SchemaInv, RowsAreTrue, KeptObjects
  <2> QED
    BY <2>1, <2>2, <2>3 DEF RowsAreTrue
<1>4. HandlesAreWhole'
  BY <1>1 DEF SchemaInv, HandlesAreWhole
<1>5. ASSUME NEW q \in Openers, q # p
      PROVE  (InItsPlace(q) /\ ColumnsDone(q) /\ NamesDone(q) /\ TablesDone(q))'
  <2>1. InItsPlace(q)'
    BY <1>1, <1>5 DEF SchemaInv, InItsPlace
  <2>2. ColumnsDone(q)'
    BY <1>1, <1>5 DEF SchemaInv, ColumnsDone
  <2>3. NamesDone(q)'
    BY <1>1, <1>5 DEF SchemaInv, NamesDone, KeptObjects
  <2>4. TablesDone(q)'
    <3> SUFFICES ASSUME opener[q].at = "migrating", opener[q].i = G!Before(opener[q].v) + 2
                 PROVE  Built(opener[q].v)'
      BY <1>1, <1>5 DEF TablesDone
    <3>1. PICK v : v = opener[q].v
      OBVIOUS
    <3>2. v \in G!Versions
      BY <3>1, TheTablesAreThere
    <3>3. Built(v)
      BY <3>1 DEF SchemaInv, TablesDone
    <3>4. Built(v)'
      BY <3>2, <3>3, BuiltIsKept
    <3> QED
      BY <3>1, <3>4, <1>1, <1>5
  <2> QED
    BY <2>1, <2>2, <2>3, <2>4
<1> QED
  BY <1>3, <1>4, <1>5 DEF SchemaInv

\* Where only processes moved, and none came to version 1, the ledger is as it was.
LEMMA LedgerStays ==
  ASSUME SchemaInv, NEW p \in Openers, NEW s \in OpenerStates,
         opener' = [opener EXCEPT ![p] = s], UNCHANGED objects, schemaRows \subseteq schemaRows',
         s.at = "migrating" /\ 1 \in s.todo =>
           1 \notin schemaRows \/ (opener[p].at = "migrating" /\ 1 \in opener[p].todo)
  PROVE  OneLedger'
<1>1. opener'[p] = s /\ \A q \in Openers : q # p => opener'[q] = opener[q]
  BY DEF SchemaInv, SchemaTyped
<1>2. OneLedger
  BY DEF SchemaInv
<1>3. "ap_ledger" \in objects => \A q \in Openers : opener'[q].at = "migrating" => 1 \notin opener'[q].todo
  BY <1>1, <1>2 DEF OneLedger
<1> QED
  BY <1>2, <1>3 DEF OneLedger

\* A process throws or is stopped.
LEMMA SchemaCloses ==
  ASSUME SchemaInv, NEW p \in Openers, opener' = [opener EXCEPT ![p] = G!Closed],
         UNCHANGED <<objects, columns, schemaRows>>, ColumnsAreCared'
  PROVE  SchemaInv'
<1>1. G!Closed \in OpenerStates /\ G!Closed.at = "closed"
  BY DEF G!Closed, OpenerStates
<1>2. SchemaTyped' /\ opener'[p] = G!Closed
  BY <1>1 DEF SchemaInv, SchemaTyped
<1>3. OneLedger'
  BY <1>1, LedgerStays
<1>4. (InItsPlace(p) /\ ColumnsDone(p) /\ NamesDone(p) /\ TablesDone(p))'
  BY <1>1, <1>2 DEF InItsPlace, ColumnsDone, NamesDone, TablesDone
<1>5. KeptObjects
  BY ObjectsUnchanged
<1> QED
  BY <1>1, <1>2, <1>3, <1>4, <1>5, OneProcessMoves

\* Whoever cares for a column goes on doing so while another process moves.
LEMMA OthersCare ==
  ASSUME SchemaInv, NEW p \in Openers, NEW s \in OpenerStates,
         opener' = [opener EXCEPT ![p] = s], UNCHANGED columns, schemaRows \subseteq schemaRows',
         torn' = FALSE => torn = FALSE,
         \A c \in columns : ~ torn' /\ c[1] \notin schemaRows' /\ Past(p, c) =>
           \E q \in Openers : q # p /\ Past(q, c)
  PROVE  ColumnsAreCared'
<1> SUFFICES ASSUME ~ torn', NEW c \in columns, c[1] \notin schemaRows'
             PROVE  \E q \in Openers : Past(q, c)'
  BY DEF ColumnsAreCared
<1>1. opener'[p] = s /\ \A q \in Openers : q # p => opener'[q] = opener[q]
  BY DEF SchemaInv, SchemaTyped
<1>2. PICK q \in Openers : Past(q, c)
  BY DEF SchemaInv, ColumnsAreCared
<1>3. PICK r \in Openers : r # p /\ Past(r, c)
  BY <1>2
<1> QED
  BY <1>1, <1>3 DEF Past

LEMMA SchemaOpens ==
  ASSUME SchemaInv, NEW p \in Openers, G!Open(p)
  PROVE  SchemaInv'
<1> DEFINE todo == G!Versions \ schemaRows
           s == G!Go(todo)
<1>1. /\ s \in OpenerStates
      /\ todo = {} => s.at = "open"
      /\ todo # {} => /\ s.at = "migrating" /\ s.i = 1 /\ s.todo = todo /\ s.v \in todo
                      /\ \A u \in todo : s.v <= u
  BY GoAre
<1>2. schemaRows \subseteq G!Versions
  BY DEF SchemaInv, SchemaTyped
<1>3. opener' = [opener EXCEPT ![p] = s] /\ UNCHANGED <<objects, columns, schemaRows, torn>>
  BY DEF G!Open
<1>4. opener[p].at = "closed"
  BY DEF G!Open
<1>5. todo = {} => schemaRows = G!Versions
  BY <1>2
<1>6. 1 \in todo => 1 \notin schemaRows
  OBVIOUS
<1>7. todo \subseteq G!Versions /\ G!Versions \subseteq todo \cup schemaRows
  OBVIOUS
<1> HIDE DEF todo, s
<1>8. SchemaTyped' /\ opener'[p] = s
  BY <1>1, <1>3 DEF SchemaInv, SchemaTyped
<1>9. OneLedger'
  BY <1>1, <1>3, <1>6, LedgerStays
<1>10. ColumnsAreCared'
  <2>1. \A c \in columns : ~ Past(p, c)
    BY <1>4 DEF Past
  <2> QED
    BY <1>1, <1>3, <2>1, OthersCare
<1>11. CASE todo = {}
  <2>1. (InItsPlace(p) /\ ColumnsDone(p) /\ NamesDone(p) /\ TablesDone(p))'
    BY <1>1, <1>8, <1>11 DEF InItsPlace, ColumnsDone, NamesDone, TablesDone
  <2> QED
    BY <1>1, <1>3, <1>5, <1>8, <1>9, <1>10, <1>11, <2>1, ObjectsUnchanged, OneProcessMoves
<1>12. CASE todo # {}
  <2>1. s.v \in G!Versions
    BY <1>1, <1>7, <1>12
  <2>2. G!Before(s.v) \in Nat
    BY <2>1, BeforeIs
  <2>3. InItsPlace(p)'
    BY <1>1, <1>3, <1>7, <1>8, <1>12, <2>2 DEF InItsPlace
  <2>4. ColumnsDone(p)'
    <3>1. \A j \in 1 .. Len(G!Alters[s.v]) : ~ (j < s.i)
      BY <1>1, <1>12, <2>1, AltersAre
    <3> QED
      BY <3>1, <1>8 DEF ColumnsDone
  <2>5. NamesDone(p)'
    BY <1>1, <1>8, <1>12 DEF NamesDone
  <2>6. TablesDone(p)'
    BY <1>1, <1>8, <1>12, <2>2 DEF TablesDone
  <2> QED
    BY <1>1, <1>3, <1>8, <1>9, <1>10, <1>12, <2>3, <2>4, <2>5, <2>6, ObjectsUnchanged,
       OneProcessMoves
<1> QED
  BY <1>11, <1>12

\* The columns of one who throws at a column that is there are cared for by the one
\* who added that column.
LEMMA SchemaAddsColumn ==
  ASSUME SchemaInv, NEW p \in Openers, G!AddColumn(p)
  PROVE  SchemaInv'
<1> DEFINE v == opener[p].v
           i == opener[p].i
<1>1. /\ opener[p].at = "migrating" /\ v # 19 /\ i <= G!Before(v)
      /\ opener[p] \in OpenerStates
  BY DEF G!AddColumn, SchemaInv, SchemaTyped
<1>2. /\ v \in G!Versions /\ G!Before(v) = Len(G!Alters[v]) /\ Len(G!Alters[v]) \in Nat
      /\ \A j \in 1 .. Len(G!Alters[v]) : G!Alters[v][j] \in objects
  BY <1>1, TheTablesAreThere, BeforeIs, AltersAre
<1>3. i \in 1 .. Len(G!Alters[v])
  <2>1. i \in 1 .. G!Before(v) + 2
    BY <1>1 DEF SchemaInv, InItsPlace
  <2> QED
    BY <2>1, <1>1, <1>2
<1>4. CASE <<v, i>> \in columns
  <2>1. opener' = [opener EXCEPT ![p] = G!Closed]
        /\ UNCHANGED <<objects, columns, schemaRows, torn>>
    BY <1>4 DEF G!AddColumn, G!Throw
  <2>2. ASSUME NEW c \in columns, ~ torn', c[1] \notin schemaRows', Past(p, c)
        PROVE  \E q \in Openers : q # p /\ Past(q, c)
    <3>1. c[1] = v /\ i > c[2] /\ v \notin schemaRows /\ ~ torn
      BY <2>1, <2>2 DEF Past
    <3>2. PICK q \in Openers : Past(q, <<v, i>>)
      BY <1>4, <3>1 DEF SchemaInv, ColumnsAreCared
    <3>3. opener[q].at = "migrating" /\ opener[q].v = v /\ opener[q].i > i
      BY <3>2 DEF Past
    <3>4. c[2] \in Int /\ i \in Int /\ opener[q].i \in Int
      BY <1>3 DEF SchemaInv, SchemaTyped, OpenerStates
    <3>5. opener[q].i > c[2] /\ q # p
      BY <3>1, <3>3, <3>4
    <3> QED
      BY <3>1, <3>3, <3>5 DEF Past
  <2>3. G!Closed \in OpenerStates
    BY DEF G!Closed, OpenerStates
  <2>4. ColumnsAreCared'
    BY <2>1, <2>2, <2>3, OthersCare
  <2> QED
    BY <2>1, <2>4, SchemaCloses
<1>5. CASE <<v, i>> \notin columns
  <2> DEFINE s == [opener[p] EXCEPT !.i = i + 1]
  <2>1. /\ columns' = columns \cup {<<v, i>>} /\ opener' = [opener EXCEPT ![p] = s]
        /\ UNCHANGED <<objects, schemaRows, torn>>
    BY <1>2, <1>3, <1>5 DEF G!AddColumn, G!Step
  <2>2. /\ s \in OpenerStates /\ s.at = "migrating" /\ s.v = v /\ s.i = i + 1
        /\ s.todo = opener[p].todo
    BY <1>1 DEF OpenerStates
  <2> HIDE DEF s
  <2>3. opener'[p] = s /\ \A q \in Openers : q # p => opener'[q] = opener[q]
    BY <2>1 DEF SchemaInv, SchemaTyped
  <2>4. SchemaTyped'
    <3>1. <<v, i>> \in G!Versions \X Nat
      BY <1>2, <1>3
    <3>2. \A c \in columns' : c[2] \in 1 .. Len(G!Alters[c[1]])
      BY <2>1, <1>3 DEF SchemaInv, SchemaTyped
    <3> QED
      BY <2>1, <2>2, <3>1, <3>2 DEF SchemaInv, SchemaTyped
  <2>5. OneLedger'
    BY <1>1, <2>1, <2>2, LedgerStays
  <2>6. ColumnsAreCared'
    <3> SUFFICES ASSUME ~ torn, NEW c \in columns', c[1] \notin schemaRows
                 PROVE  \E q \in Openers : Past(q, c)'
      BY <2>1 DEF ColumnsAreCared
    <3>1. CASE c = <<v, i>>
      <4>1. i + 1 > i
        BY <1>3
      <4> QED
        BY <3>1, <4>1, <2>2, <2>3 DEF Past
    <3>2. CASE c \in columns
      <4>1. PICK q \in Openers : Past(q, c)
        BY <3>2 DEF SchemaInv, ColumnsAreCared
      <4>2. CASE q # p
        BY <4>1, <4>2, <2>3 DEF Past
      <4>3. CASE q = p
        <5>1. c[2] \in Int /\ i \in Int
          BY <3>2, <1>3 DEF SchemaInv, SchemaTyped
        <5>2. v = c[1] /\ i > c[2]
          BY <4>1, <4>3 DEF Past
        <5>3. i + 1 > c[2]
          BY <5>1, <5>2
        <5> QED
          BY <5>2, <5>3, <2>2, <2>3 DEF Past
      <4> QED
        BY <4>2, <4>3
    <3> QED
      BY <2>1, <3>1, <3>2
  <2>7. InItsPlace(p)'
    <3>1. i + 1 \in 1 .. G!Before(v) + 2
      BY <1>2, <1>3
    <3> QED
      BY <3>1, <1>1, <2>1, <2>2, <2>3 DEF SchemaInv, InItsPlace
  <2>8. ColumnsDone(p)'
    <3> SUFFICES ASSUME NEW j \in 1 .. Len(G!Alters[v]), j < i + 1 PROVE <<v, j>> \in columns'
      BY <2>2, <2>3 DEF ColumnsDone
    <3>1. j < i \/ j = i
      BY <1>2, <1>3
    <3> QED
      BY <3>1, <1>1, <2>1 DEF SchemaInv, ColumnsDone
  <2>9. NamesDone(p)'
    BY <1>1, <2>2, <2>3 DEF NamesDone
  <2>10. TablesDone(p)'
    <3>1. i + 1 # G!Before(v) + 2
      BY <1>2, <1>3
    <3> QED
      BY <3>1, <2>2, <2>3 DEF TablesDone
  <2> QED
    BY <2>1, <2>2, <2>4, <2>5, <2>6, <2>7, <2>8, <2>9, <2>10, ObjectsUnchanged, OneProcessMoves
<1> QED
  BY <1>4, <1>5

\* Moving on within a version, a process past its columns.
LEMMA StepsOn ==
  ASSUME SchemaInv, NEW p \in Openers, opener[p].at = "migrating",
         opener[p].v # 19 => opener[p].i = G!Before(opener[p].v) + 1,
         opener[p].i <= G!Before(opener[p].v) + 1,
         G!Step(p), KeptObjects, UNCHANGED <<columns, schemaRows, torn>>, OneLedger',
         opener[p].v = 19 /\ opener[p].i <= 4 => G!Renames[opener[p].i][2] \in objects',
         opener[p].i = G!Before(opener[p].v) + 1 => Built(opener[p].v)'
  PROVE  SchemaInv'
<1> DEFINE v == opener[p].v
           i == opener[p].i
           s == [opener[p] EXCEPT !.i = i + 1]
<1>1. opener[p] \in OpenerStates /\ v \in G!Versions /\ i \in Nat
  BY TheTablesAreThere DEF SchemaInv, SchemaTyped, OpenerStates
<1>2. opener' = [opener EXCEPT ![p] = s]
  BY DEF G!Step
<1>3. /\ s \in OpenerStates /\ s.at = "migrating" /\ s.v = v /\ s.i = i + 1
      /\ s.todo = opener[p].todo
  BY <1>1 DEF OpenerStates
<1>4. G!Before(v) \in Nat /\ (v = 19 => G!Before(v) = 4) /\ Len(G!Alters[v]) \in Nat
      /\ (v # 19 => G!Before(v) = Len(G!Alters[v])) /\ (v = 19 => Len(G!Alters[v]) = 0)
  BY <1>1, BeforeIs, AltersAre
<1> HIDE DEF s
<1>5. opener'[p] = s /\ \A q \in Openers : q # p => opener'[q] = opener[q]
  BY <1>2 DEF SchemaInv, SchemaTyped
<1>6. SchemaTyped'
  BY <1>2, <1>3 DEF SchemaInv, SchemaTyped
<1>7. ColumnsAreCared'
  <2> SUFFICES ASSUME ~ torn, NEW c \in columns, c[1] \notin schemaRows
               PROVE  \E q \in Openers : Past(q, c)'
    BY DEF ColumnsAreCared
  <2>1. PICK q \in Openers : Past(q, c)
    BY DEF SchemaInv, ColumnsAreCared
  <2>2. c[2] \in Int
    BY DEF SchemaInv, SchemaTyped
  <2>3. CASE q = p
    <3>1. v = c[1] /\ i > c[2]
      BY <2>1, <2>3 DEF Past
    <3>2. i + 1 > c[2]
      BY <3>1, <2>2, <1>1
    <3> QED
      BY <3>1, <3>2, <1>3, <1>5 DEF Past
  <2>4. CASE q # p
    BY <2>1, <2>4, <1>5 DEF Past
  <2> QED
    BY <2>3, <2>4
<1>8. InItsPlace(p)'
  <2>1. i + 1 \in 1 .. G!Before(v) + 2
    BY <1>1, <1>4
  <2> QED
    BY <2>1, <1>3, <1>5 DEF SchemaInv, InItsPlace
<1>9. ColumnsDone(p)'
  <2> SUFFICES ASSUME NEW j \in 1 .. Len(G!Alters[v]) PROVE <<v, j>> \in columns
    BY <1>3, <1>5 DEF ColumnsDone
  <2>1. v # 19
    BY <1>4
  <2>2. j < i
    BY <1>4, <2>1
  <2> QED
    BY <2>2 DEF SchemaInv, ColumnsDone
<1>10. NamesDone(p)'
  <2> SUFFICES ASSUME v = 19, NEW j \in 1 .. 4, j < i + 1 PROVE G!Renames[j][2] \in objects'
    BY <1>3, <1>5 DEF NamesDone
  <2>1. j < i \/ j = i
    BY <1>1
  <2>2. CASE j < i
    BY <2>2 DEF SchemaInv, NamesDone, KeptObjects
  <2>3. CASE j = i
    BY <2>3
  <2> QED
    BY <2>1, <2>2, <2>3
<1>11. TablesDone(p)'
  <2> SUFFICES ASSUME i + 1 = G!Before(v) + 2 PROVE Built(v)'
    BY <1>3, <1>5 DEF TablesDone
  <2>1. i = G!Before(v) + 1
    BY <1>1, <1>4
  <2> QED
    BY <2>1
<1> QED
  BY <1>2, <1>3, <1>6, <1>7, <1>8, <1>9, <1>10, <1>11, OneProcessMoves

LEMMA SchemaRenames ==
  ASSUME SchemaInv, NEW p \in Openers, G!Rename(p)
  PROVE  SchemaInv'
<1> DEFINE i == opener[p].i
           old == G!Renames[i][1]
           new == G!Renames[i][2]
<1>1. /\ opener[p].at = "migrating" /\ opener[p].v = 19 /\ i <= 4
      /\ objects' = IF old \in objects /\ new \notin objects THEN (objects \ {old}) \cup {new}
                    ELSE objects
      /\ G!Step(p) /\ UNCHANGED <<columns, schemaRows, torn>>
  BY RenamesAre DEF G!Rename, G!Before
<1>2. i \in 1 .. 4 /\ G!Before(19) = 4
  BY <1>1, RenamesAre DEF SchemaInv, InItsPlace, G!Before
<1>3. old \in OldNames /\ new \in NewNames
  BY <1>2, RenamesAre
<1>4. \A j \in 1 .. 4 : G!Renames[j][2] = new => G!Renames[j][1] = old
  BY <1>2, RenamesAre DEF G!Renames
<1>5. old = "ap_ledger" <=> new = "pt_ledger"
  BY <1>2 DEF G!Renames
<1>6. \A j \in 1 .. 4 : G!Renames[j][2] \notin OldNames
  BY RenamesAre
<1>7. There(new)
  <2>1. PICK v \in {1, 3, 5} : <<v, new>> \in G!Tables
    BY <1>3, RenamesAre, SomeTables
  <2>2. v \in schemaRows
    BY <1>1, TheTablesAreThere DEF G!Versions
  <2> QED
    BY <2>1, <2>2 DEF SchemaInv, RowsAreTrue, Built
<1> HIDE DEF old, new
<1>8. KeptObjects
  <2>1. ASSUME NEW o, o \notin OldNames, There(o) PROVE There(o)'
    <3>1. CASE o \in objects
      BY <3>1, <2>1, <1>1, <1>3 DEF There
    <3>2. CASE \E j \in 1 .. 4 : G!Renames[j][2] = o /\ G!Renames[j][1] \in objects
      <4>1. PICK j \in 1 .. 4 : G!Renames[j][2] = o /\ G!Renames[j][1] \in objects
        BY <3>2
      <4>2. CASE o = new
        BY <4>2, <1>1, <1>4, <4>1 DEF There
      <4>3. CASE o # new
        <5>1. G!Renames[j][1] # old
          BY <4>1, <4>3, <1>2, RenamesAre DEF G!Renames, old, new
        <5>2. G!Renames[j][1] \in objects'
          BY <5>1, <4>1, <1>1
        <5> QED
          BY <4>1, <5>2 DEF There
      <4> QED
        BY <4>2, <4>3
    <3> QED
      BY <3>1, <3>2, <2>1 DEF There
  <2>2. \A j \in 1 .. 4 : G!Renames[j][2] \in objects => G!Renames[j][2] \in objects'
    BY <1>1, <1>3, <1>6
  <2> QED
    BY <2>1, <2>2 DEF KeptObjects
<1>9. new \in objects'
  <2>1. new \in objects \/ old \in objects
    BY <1>4, <1>7 DEF There
  <2> QED
    BY <2>1, <1>1
<1>10. OneLedger'
  <2>1. "ap_ledger" \in objects' => "ap_ledger" \in objects
    BY <1>1, <1>3, RenamesAre
  <2>2. ~ ("ap_ledger" \in objects' /\ "pt_ledger" \in objects')
    <3>1. CASE objects' = objects
      BY <3>1 DEF SchemaInv, OneLedger
    <3>2. CASE objects' = (objects \ {old}) \cup {new}
      <4>1. ~ ("ap_ledger" \in objects /\ "pt_ledger" \in objects)
        BY DEF SchemaInv, OneLedger
      <4>2. "ap_ledger" # new
        BY <1>3, RenamesAre
      <4> QED
        BY <3>2, <4>1, <4>2, <1>5
    <3> QED
      BY <3>1, <3>2, <1>1
  <2>3. objects' = {} \/ "ap_ledger" \in objects' \/ "pt_ledger" \in objects'
    <3>1. objects = {} \/ "ap_ledger" \in objects \/ "pt_ledger" \in objects
      BY DEF SchemaInv, OneLedger
    <3>2. "pt_ledger" # old
      BY <1>3, RenamesAre
    <3> QED
      BY <3>1, <3>2, <1>1, <1>5
  <2>4. \A q \in Openers : opener'[q].at = opener[q].at /\ opener'[q].todo = opener[q].todo
    BY <1>1 DEF G!Step, SchemaInv, SchemaTyped, OpenerStates
  <2> QED
    BY <2>1, <2>2, <2>3, <2>4, <1>1 DEF SchemaInv, OneLedger
<1>11. i # G!Before(opener[p].v) + 1
  BY <1>1, <1>2
<1>12. i <= G!Before(opener[p].v) + 1
  BY <1>1, <1>2
<1> QED
  BY <1>1, <1>8, <1>9, <1>10, <1>11, <1>12, StepsOn DEF new

LEMMA SchemaRests ==
  ASSUME SchemaInv, NEW p \in Openers, G!Rest(p)
  PROVE  SchemaInv'
<1> DEFINE v == opener[p].v
           i == opener[p].i
<1>1. /\ opener[p].at = "migrating" /\ i = G!Before(v) + 1
      /\ objects' = (objects \ G!Drops[v]) \cup G!Creates[v]
      /\ G!Step(p) /\ UNCHANGED <<columns, schemaRows, torn>>
  BY DEF G!Rest
<1>2. /\ v \in G!Versions /\ v \in opener[p].todo
      /\ \A u \in G!Versions : u < v => u \in schemaRows
  BY <1>1, TheTablesAreThere DEF SchemaInv, InItsPlace
<1>3. G!Drops[v] \subseteq Dropped /\ G!Before(v) \in Nat /\ (v = 19 => G!Before(v) = 4)
  BY <1>2, NeedsAndDropsAre, BeforeIs
<1>4. \A o \in G!Creates[v] : o \notin OldNames \cup Dropped /\ <<v, o>> \in G!Tables
  <2> TAKE o \in G!Creates[v]
  <2>1. <<v, o>> \in G!Tables
    BY <1>2, CreatesAre
  <2>2. <<v, o>>[2] \notin OldNames \cup Dropped
    BY <2>1, TablesAreNew
  <2> QED
    BY <2>1, <2>2
<1>5. Dropped \cap (OldNames \cup NewNames) = {}
  BY RenamesAre DEF Dropped
<1> HIDE DEF v, i
<1>6. KeptObjects
  <2>1. \A o : o \notin Dropped /\ o \in objects => o \in objects'
    BY <1>1, <1>3
  <2>2. \A j \in 1 .. 4 : G!Renames[j][1] \notin Dropped /\ G!Renames[j][2] \notin Dropped
    BY <1>5, RenamesAre
  <2> QED
    BY <2>1, <2>2 DEF KeptObjects, There
<1>7. Built(opener[p].v)'
  <2>1. \A o : <<v, o>> \in G!Tables => o \in objects'
    BY <1>1, <1>2, CreatesAre
  <2>2. opener'[p].v = v
    BY <1>1 DEF G!Step, SchemaInv, SchemaTyped, OpenerStates, v
  <2> QED
    BY <2>1, <2>2 DEF Built, There
<1>8. OneLedger'
  <2>1. "ap_ledger" \in objects' <=> "ap_ledger" \in objects
    BY <1>1, <1>3, <1>4, <1>5, RenamesAre
  <2>2. "pt_ledger" \in objects => "pt_ledger" \in objects'
    BY <1>1, <1>3, <1>5, RenamesAre
  <2>3. "pt_ledger" \in G!Creates[v] => v = 1
    <3>1. ASSUME "pt_ledger" \in G!Creates[v] PROVE v = 1
      <4>1. <<v, "pt_ledger">> \in G!Tables
        BY <1>4, <3>1
      <4>2. <<v, "pt_ledger">>[2] = "pt_ledger" /\ <<v, "pt_ledger">>[1] = v
        OBVIOUS
      <4> QED
        BY <4>1, <4>2, ALedgerIsOfOne
    <3> QED
      BY <3>1
  <2>4. ~ ("ap_ledger" \in objects' /\ "pt_ledger" \in objects')
    <3> SUFFICES ASSUME "ap_ledger" \in objects PROVE "pt_ledger" \notin objects'
      BY <2>1
    <3>1. "pt_ledger" \notin objects /\ 1 \notin opener[p].todo
      BY <1>1 DEF SchemaInv, OneLedger
    <3>2. v # 1
      BY <3>1, <1>2
    <3> QED
      BY <3>1, <3>2, <2>3, <1>1
  <2>5. "ap_ledger" \in objects' \/ "pt_ledger" \in objects'
    <3>1. CASE v = 1
      <4>1. "pt_ledger" \in G!Creates[v]
        BY <3>1, <1>2, CreatesAre, SomeTables
      <4> QED
        BY <4>1, <1>1
    <3>2. CASE v # 1
      <4>1. 1 \in schemaRows
        BY <3>2, <1>2 DEF G!Versions
      <4>2. There("pt_ledger")
        BY <4>1, SomeTables DEF SchemaInv, RowsAreTrue, Built
      <4>3. objects # {}
        BY <4>2 DEF There
      <4>4. "ap_ledger" \in objects \/ "pt_ledger" \in objects
        BY <4>3 DEF SchemaInv, OneLedger
      <4> QED
        BY <4>4, <2>1, <2>2
    <3> QED
      BY <3>1, <3>2
  <2>6. \A q \in Openers : opener'[q].at = opener[q].at /\ opener'[q].todo = opener[q].todo
    BY <1>1 DEF G!Step, SchemaInv, SchemaTyped, OpenerStates
  <2> QED
    BY <2>1, <2>4, <2>5, <2>6, <1>1 DEF SchemaInv, OneLedger
<1>9. i <= G!Before(v) + 1 /\ ~ (v = 19 /\ i <= 4)
  BY <1>1, <1>3
<1> QED
  BY <1>1, <1>6, <1>7, <1>8, <1>9, StepsOn DEF v, i

LEMMA SchemaRecords ==
  ASSUME SchemaInv, NEW p \in Openers, G!Record(p)
  PROVE  SchemaInv'
<1> DEFINE v == opener[p].v
           i == opener[p].i
<1>1. opener[p].at = "migrating" /\ i > G!Before(v) + 1 /\ opener[p] \in OpenerStates
  BY DEF G!Record, SchemaInv, SchemaTyped
<1>2. /\ v \in G!Versions /\ v \in opener[p].todo /\ G!Before(v) \in Nat
      /\ (v = 19 => G!Before(v) = 4) /\ (v # 19 => G!Before(v) = Len(G!Alters[v]))
      /\ (v = 19 => Len(G!Alters[v]) = 0) /\ Len(G!Alters[v]) \in Nat
  BY <1>1, TheTablesAreThere, BeforeIs, AltersAre DEF SchemaInv, InItsPlace
<1>3. i = G!Before(v) + 2
  <2>1. i \in 1 .. G!Before(v) + 2
    BY <1>1 DEF SchemaInv, InItsPlace
  <2> QED
    BY <2>1, <1>1, <1>2
<1>4. CASE v \in schemaRows
  <2>1. opener' = [opener EXCEPT ![p] = G!Closed]
        /\ UNCHANGED <<objects, columns, schemaRows, torn>>
    BY <1>4 DEF G!Record, G!Throw
  <2>2. \A c \in columns : c[1] \notin schemaRows' => ~ Past(p, c)
    BY <1>4, <2>1 DEF Past
  <2>3. G!Closed \in OpenerStates
    BY DEF G!Closed, OpenerStates
  <2>4. ColumnsAreCared'
    BY <2>1, <2>2, <2>3, OthersCare
  <2> QED
    BY <2>1, <2>4, SchemaCloses
<1>5. CASE v \notin schemaRows
  <2> DEFINE todo == opener[p].todo \ {v}
             s == G!Go(todo)
  <2>1. /\ schemaRows' = schemaRows \cup {v} /\ opener' = [opener EXCEPT ![p] = s]
        /\ UNCHANGED <<objects, columns, torn>>
    BY <1>5 DEF G!Record
  <2>2. todo \subseteq G!Versions /\ G!Versions \subseteq todo \cup schemaRows'
    BY <1>1, <2>1 DEF OpenerStates, SchemaInv, InItsPlace
  <2>3. /\ s \in OpenerStates
        /\ todo = {} => s.at = "open"
        /\ todo # {} => /\ s.at = "migrating" /\ s.i = 1 /\ s.todo = todo /\ s.v \in todo
                        /\ \A u \in todo : s.v <= u
    BY <2>2, GoAre
  <2>4. 1 \in todo => 1 \in opener[p].todo
    OBVIOUS
  <2> HIDE DEF todo, s
  <2>5. opener'[p] = s /\ \A q \in Openers : q # p => opener'[q] = opener[q]
    BY <2>1 DEF SchemaInv, SchemaTyped
  <2>6. SchemaTyped'
    BY <1>2, <2>1, <2>3 DEF SchemaInv, SchemaTyped
  <2>7. OneLedger'
    <3>1. s.at = "migrating" /\ 1 \in s.todo => 1 \in opener[p].todo
      BY <2>3, <2>4
    <3> QED
      BY <1>1, <2>1, <2>3, <3>1, LedgerStays
  <2>8. ColumnsAreCared'
    <3>1. \A c \in columns : c[1] \notin schemaRows' => ~ Past(p, c)
      BY <2>1 DEF Past
    <3>2. schemaRows \subseteq schemaRows'
      BY <2>1
    <3> QED
      BY <2>1, <2>3, <3>1, <3>2, OthersCare
  <2>9. RowsAreTrue'
    <3>1. \A j \in 1 .. Len(G!Alters[v]) : <<v, j>> \in columns
      <4>1. \A j \in 1 .. Len(G!Alters[v]) : j < i
        BY <1>2, <1>3
      <4> QED
        BY <4>1, <1>1 DEF SchemaInv, ColumnsDone
    <3>2. Built(v)
      BY <1>1, <1>3 DEF SchemaInv, TablesDone
    <3>3. v = 19 => \A j \in 1 .. 4 : G!Renames[j][2] \in objects
      <4>1. v = 19 => \A j \in 1 .. 4 : j < i
        BY <1>2, <1>3
      <4> QED
        BY <4>1, <1>1 DEF SchemaInv, NamesDone
    <3>4. \A u : Built(u) => Built(u)'
      BY <2>1 DEF Built, There
    <3> HIDE DEF v, i
    <3>5. \A u \in schemaRows' : \A j \in 1 .. Len(G!Alters[u]) : <<u, j>> \in columns'
      BY <2>1, <3>1 DEF SchemaInv, RowsAreTrue
    <3>6. \A u \in schemaRows' \ {29, 30} : Built(u)'
      BY <2>1, <3>2, <3>4 DEF SchemaInv, RowsAreTrue
    <3>7. 19 \in schemaRows' => \A j \in 1 .. 4 : G!Renames[j][2] \in objects'
      BY <2>1, <3>3 DEF SchemaInv, RowsAreTrue
    <3> QED
      BY <3>5, <3>6, <3>7 DEF RowsAreTrue
  <2>10. HandlesAreWhole'
    <3> SUFFICES ASSUME NEW q \in Openers, opener'[q].at = "open"
                 PROVE  schemaRows' = G!Versions
      BY DEF HandlesAreWhole
    <3>1. schemaRows' \subseteq G!Versions
      BY <2>6 DEF SchemaTyped
    <3>2. CASE q = p
      BY <3>1, <3>2, <2>2, <2>3, <2>5
    <3>3. CASE q # p
      BY <3>1, <3>3, <2>1, <2>5 DEF SchemaInv, HandlesAreWhole
    <3> QED
      BY <3>2, <3>3
  <2>11. ASSUME NEW q \in Openers, q # p
         PROVE  (InItsPlace(q) /\ ColumnsDone(q) /\ NamesDone(q) /\ TablesDone(q))'
    BY <2>1, <2>5, <2>11 DEF SchemaInv, InItsPlace, ColumnsDone, NamesDone, TablesDone, Built, There
  <2>12. (InItsPlace(p) /\ ColumnsDone(p) /\ NamesDone(p) /\ TablesDone(p))'
    <3>1. CASE todo = {}
      BY <3>1, <2>3, <2>5 DEF InItsPlace, ColumnsDone, NamesDone, TablesDone
    <3>2. CASE todo # {}
      <4>1. s.v \in G!Versions
        BY <2>2, <2>3, <3>2
      <4>2. G!Before(s.v) \in Nat
        BY <4>1, BeforeIs
      <4>3. InItsPlace(p)'
        BY <2>2, <2>3, <2>5, <3>2, <4>2 DEF InItsPlace
      <4>4. ColumnsDone(p)'
        <5>1. \A j \in 1 .. Len(G!Alters[s.v]) : ~ (j < s.i)
          BY <2>3, <3>2, <4>1, AltersAre
        <5> QED
          BY <5>1, <2>5 DEF ColumnsDone
      <4>5. NamesDone(p)'
        BY <2>3, <2>5, <3>2 DEF NamesDone
      <4>6. TablesDone(p)'
        BY <2>3, <2>5, <3>2, <4>2 DEF TablesDone
      <4> QED
        BY <4>3, <4>4, <4>5, <4>6
    <3> QED
      BY <3>1, <3>2
  <2> QED
    BY <2>6, <2>7, <2>8, <2>9, <2>10, <2>11, <2>12 DEF SchemaInv
<1> QED
  BY <1>4, <1>5

LEMMA SchemaStops ==
  ASSUME SchemaInv, NEW p \in Openers, G!Stops(p)
  PROVE  SchemaInv'
<1>1. /\ opener[p].at = "migrating" /\ opener' = [opener EXCEPT ![p] = G!Closed]
      /\ torn' = (torn \/ G!HasAltered(p)) /\ UNCHANGED <<objects, columns, schemaRows>>
  BY DEF G!Stops
<1>2. ColumnsAreCared'
  <2> SUFFICES ASSUME ~ torn', NEW c \in columns, c[1] \notin schemaRows
               PROVE  \E q \in Openers : Past(q, c)'
    BY <1>1 DEF ColumnsAreCared
  <2>1. ~ torn /\ ~ G!HasAltered(p)
    BY <1>1
  <2>2. PICK q \in Openers : Past(q, c)
    BY <2>1 DEF SchemaInv, ColumnsAreCared
  <2>3. q # p
    <3> SUFFICES ASSUME q = p PROVE FALSE
      OBVIOUS
    <3>1. c[1] \in G!Versions /\ c[2] \in 1 .. Len(G!Alters[c[1]]) /\ opener[p].i \in Int
      BY DEF SchemaInv, SchemaTyped, OpenerStates
    <3>2. opener[p].v = c[1] /\ opener[p].i > c[2]
      BY <2>2 DEF Past
    <3>3. Len(G!Alters[c[1]]) # 0 /\ opener[p].i > 1
      BY <3>1, <3>2, AltersAre
    <3>4. G!Alters[opener[p].v] # <<>> /\ opener[p].v # 19
      BY <3>1, <3>2, <3>3, AltersAre
    <3> QED
      BY <1>1, <2>1, <3>3, <3>4 DEF G!HasAltered
  <2>4. opener'[q] = opener[q]
    BY <1>1, <2>3 DEF SchemaInv, SchemaTyped
  <2> QED
    BY <2>2, <2>4 DEF Past
<1> QED
  BY <1>1, <1>2, SchemaCloses

LEMMA SchemaNext ==
  ASSUME SchemaInv, [G!Next]_migrations
  PROVE  SchemaInv'
<1>1. CASE UNCHANGED migrations
  BY <1>1 DEF migrations, SchemaInv, SchemaTyped, RowsAreTrue, HandlesAreWhole, OneLedger,
     ColumnsAreCared, Past, InItsPlace, ColumnsDone, NamesDone, TablesDone, Built, There
<1>2. CASE G!Next
  <2>1. PICK p \in Openers :
          G!Open(p) \/ G!AddColumn(p) \/ G!Rename(p) \/ G!Rest(p) \/ G!Record(p) \/ G!Stops(p)
    BY <1>2 DEF G!Next
  <2> QED
    BY <2>1, SchemaOpens, SchemaAddsColumn, SchemaRenames, SchemaRests, SchemaRecords, SchemaStops
<1> QED
  BY <1>1, <1>2

-----------------------------------------------------------------------------
\* db.ts, runMigrations: whatever version the database was left at and whoever
\* else opens it or stops, a handle comes with the whole schema, no version meets a
\* table it does not know, and only one interrupted among its columns cannot be run
\* again.
THEOREM TheSchemaComesWhole == G!Spec => []SchemaComesWhole
<1>1. G!Init => SchemaInv
  BY MigrationsStart
<1>2. SchemaInv /\ [G!Next]_G!migrationVars => SchemaInv'
  BY SchemaNext DEF migrations, G!migrationVars
<1>3. SchemaInv => SchemaComesWhole
  BY SchemaInvImplies DEF SchemaComesWhole
<1> QED
  BY <1>1, <1>2, <1>3, PTL DEF G!Spec

-----------------------------------------------------------------------------
(***************************************************************************)
(* The composition is a behaviour of its parts.                            *)
(***************************************************************************)

\* Groups: a step of one part leaves the others where they are; the settlement
\* is one calculation.
THEOREM GroupsRunTheirParts ==
  GroupsSpec => J!Spec /\ U!Spec /\ O!Spec /\ H!Spec /\ M!Spec /\ N!Spec /\ G!Spec /\
                I!Spec /\ R!Spec
<1>1. GroupsInit => J!Init /\ U!Init /\ O!Init /\ H!Init /\ M!Init /\ N!Init /\ G!Init /\
                    I!Init /\ R!Init
  BY DEF GroupsInit
<1>2. [GroupsNext]_groupsVars => [J!Next]_J!reactionVars
  BY DEF GroupsNext, groupsVars, GroupStep, RecordStep, groupWork, reactions, J!reactionVars
<1>3. [GroupsNext]_groupsVars => [U!Next]_U!signupVars
  BY DEF GroupsNext, groupsVars, GroupStep, RecordStep, groupWork, signups, U!signupVars
<1>4. [GroupsNext]_groupsVars => [O!Next]_O!sinkVars
  BY DEF GroupsNext, groupsVars, GroupStep, RecordStep, groupWork, sink, O!sinkVars
<1>5. [GroupsNext]_groupsVars => [H!Next]_H!heartVars
  BY DEF GroupsNext, groupsVars, GroupStep, RecordStep, groupWork, heart, H!heartVars
<1>6. [GroupsNext]_groupsVars => [M!Next]_M!meetupVars
  BY DEF GroupsNext, groupsVars, GroupStep, RecordStep, groupWork, meetups, M!meetupVars
<1>7. [GroupsNext]_groupsVars => [N!Next]_N!proposalVars
  BY DEF GroupsNext, groupsVars, GroupStep, RecordStep, groupWork, proposals, N!proposalVars
<1>8. [GroupsNext]_groupsVars => [G!Next]_G!migrationVars
  BY DEF GroupsNext, groupsVars, GroupStep, RecordStep, recordWork, migrations, G!migrationVars
<1>9. [GroupsNext]_groupsVars => [I!Next]_I!introVars
  BY DEF GroupsNext, groupsVars, GroupStep, RecordStep, recordWork, intros, I!introVars
<1>10. [GroupsNext]_groupsVars => [R!Next]_R!tokenVars
  BY DEF GroupsNext, groupsVars, GroupStep, RecordStep, recordWork, tokens, R!tokenVars
<1> QED
  BY <1>1, <1>2, <1>3, <1>4, <1>5, <1>6, <1>7, <1>8, <1>9, <1>10, PTL
     DEF GroupsSpec, J!Spec, U!Spec, O!Spec, H!Spec, M!Spec, N!Spec, G!Spec, I!Spec, R!Spec

\* tc-settlement.ts, computeTcSettlement: for any table of bets the payouts make
\* up the pool but for a tenth of an LP each, rounding the average picks who is
\* nearest to the exact one, and a winning discrete bet returns its stake.
THEOREM SettlementsPayFairly == GroupsSpec => []SettlementPaysFairly
<1> DEFINE Inv == work = "payouts" => SettlementInv
<1>1. GroupsInit => Inv
  BY SettlementStarts DEF GroupsInit
<1>2. Inv /\ [GroupsNext]_groupsVars => Inv'
  <2> SUFFICES ASSUME Inv, [GroupsNext]_groupsVars, work' = "payouts" PROVE SettlementInv'
    OBVIOUS
  <2>1. work = "payouts" /\ [W!Settle]_W!vars
    BY DEF GroupsNext, groupsVars, GroupStep, RecordStep, groupWork, payouts, W!vars
  <2> QED
    BY <2>1, SettlementStep
<1>3. Inv => SettlementPaysFairly
  BY SettlementIsFair DEF SettlementPaysFairly
<1> QED
  BY <1>1, <1>2, <1>3, PTL DEF GroupsSpec

=============================================================================
