------------------------------- MODULE Memory -------------------------------
(***************************************************************************)
(* Long-term memory (core/store/memory.ts, core/memory-policy.ts,          *)
(* core/group-intel.ts, and the parts of core/agent.ts that write a user's *)
(* summary and put memories into a prompt).  Writers are the summaries the *)
(* bot starts and does not wait for, the supervisor's topics and the       *)
(* operator's `memory set`; an upsert looks a row up and then updates or   *)
(* inserts, in a READ COMMITTED transaction.  A text is the number of      *)
(* messages it was made from.                                              *)
(***************************************************************************)
EXTENDS Naturals, Sequences, SequencesExt

CONSTANTS
  Users, Chats,
  Summaries,    \* writers: summarizeUserMemory() under way
  Aggregators,  \* writers: the daily maintenance, `memory aggregate`
  Operators,    \* writers: `memory set`; one writer may play several parts
  Sizes, GroupLimit, UserLimit,   \* characters; the code's 500 and 300
  MaxRows, MaxSaid, MaxClock

\* Sizes and limits are numbers, and so is the number of writers and rows.
MemoryAssumption ==
  /\ IsFiniteSet(Summaries \cup Aggregators \cup Operators)
  /\ Sizes \subseteq Nat /\ Sizes # {}
  /\ GroupLimit \in Nat /\ UserLimit \in Nat /\ MaxRows \in Nat

VARIABLES
  rows,         \* memory_items
  said,         \* messages in the chats so far
  clock,        \* unixepoch()
  writer,       \* [Writers -> Writer]
  heard,        \* [Scopes -> the latest messages a keyed row of it was made from]
  mixed         \* scopes where a write met another write or a deletion

memoryVars == <<rows, said, clock, writer, heard, mixed>>

Writers == Summaries \cup Aggregators \cup Operators
Global == <<"global">>
UserScope(u) == <<"user", u>>
GroupScope(c) == <<"group", c>>
GroupUserScope(c, u) == <<"group_user", c, u>>
\* The scopes something is written to; each with one key, "auto-summary" or
\* "topics".
Scopes == {UserScope(u) : u \in Users} \cup {GroupScope(c) : c \in Chats}

Idle == [at |-> "idle", ns |-> Global, text |-> 0, hit |-> 0]
Row(id, w, size, expires) ==
  [id |-> id, ns |-> writer[w].ns, keyed |-> TRUE, text |-> writer[w].text, size |-> size,
   visibility |-> IF writer[w].ns[1] = "group" THEN "group" ELSE "private",
   at |-> clock, expires |-> expires]
Keyed(ns) == {r \in rows : r.ns = ns /\ r.keyed}
\* Ids are never used again; the least that no row has and no writer holds will
\* do.
NewId == Min((1 .. MaxRows + Cardinality(Writers))
               \ ({r.id : r \in rows} \cup {writer[w].hit : w \in Writers}))

Init ==
  /\ rows = {} /\ said = 0 /\ clock = 0
  /\ writer = [w \in Writers |-> Idle]
  /\ heard = [ns \in Scopes |-> 0]
  /\ mixed = {}

-----------------------------------------------------------------------------
\* insertMessage()
Speak ==
  /\ said < MaxSaid
  /\ said' = said + 1
  /\ UNCHANGED <<rows, clock, writer, heard, mixed>>

SecondPasses ==
  /\ clock < MaxClock
  /\ clock' = clock + 1
  /\ UNCHANGED <<rows, said, writer, heard, mixed>>

Begin(w, ns) ==
  /\ writer[w].at = "idle" /\ said > 0
  /\ writer' = [writer EXCEPT ![w] = [Idle EXCEPT !.at = "working", !.ns = ns, !.text = said]]
  /\ mixed' = IF \E x \in Writers \ {w} : writer[x].at # "idle" /\ writer[x].ns = ns
              THEN mixed \cup {ns} ELSE mixed
  /\ UNCHANGED <<rows, said, clock, heard>>

\* summarizeUserMemory() reads the user's last messages, `agent memory set` is
\* told what to write.
Summarize(w) == \E u \in Users : Begin(w, UserScope(u))
\* aggregateGroupTopics()
Aggregate(w) == \E c \in Chats : Begin(w, GroupScope(c))
\* How long a summary turns out is up to the model, topics are a few words; the
\* operator may let a memory expire.
Lengths(w) == IF writer[w].ns[1] = "user" THEN Sizes ELSE {1}
Expiries(w) == IF w \in Operators /\ writer[w].ns[1] = "user" THEN {0, clock + 1} ELSE {0}

\* kimi fails or has nothing to say, or the transaction is rolled back.
Fail(w) ==
  /\ writer[w].at # "idle"
  /\ writer' = [writer EXCEPT ![w] = Idle]
  /\ UNCHANGED <<rows, said, clock, heard, mixed>>

\* upsertMemory(): SELECT id ... LIMIT 1, expired rows too.
LookUp(w) ==
  /\ writer[w].at = "working"
  /\ \E hit \in IF Keyed(writer[w].ns) = {} THEN {0} ELSE {r.id : r \in Keyed(writer[w].ns)} :
       writer' = [writer EXCEPT ![w].at = "found", ![w].hit = hit]
  /\ UNCHANGED <<rows, said, clock, heard, mixed>>

\* Mutant of Written: the row found is left alone and another is inserted.
WrittenAnew(w, size, expires) == rows \cup {Row(NewId, w, size, expires)}

\* An UPDATE of a row that is gone by now changes nothing.
Written(w, size, expires) ==
  LET hit == writer[w].hit IN
  IF hit = 0 THEN rows \cup {Row(NewId, w, size, expires)}
  ELSE {IF r.id = hit THEN Row(hit, w, size, expires) ELSE r : r \in rows}

Write(w) ==
  LET ns == writer[w].ns IN
  /\ writer[w].at = "found"
  /\ writer[w].hit = 0 => Cardinality(rows) < MaxRows
  /\ \E size \in Lengths(w), expires \in Expiries(w) : rows' = Written(w, size, expires)
  /\ heard' = [heard EXCEPT ![ns] = Max({@, writer[w].text})]
  /\ writer' = [writer EXCEPT ![w] = Idle]
  /\ UNCHANGED <<said, clock, mixed>>

\* A deletion is mixed with a write that has looked its row up.
Delete(gone) ==
  /\ gone # {}
  /\ rows' = rows \ gone
  /\ heard' = [ns \in Scopes |-> IF gone \cap Keyed(ns) # {} THEN 0 ELSE heard[ns]]
  /\ mixed' = mixed \cup {writer[w].ns : w \in {x \in Writers :
                writer[x].at = "found" /\ writer[x].hit \in {r.id : r \in gone}}}
  /\ UNCHANGED <<said, clock, writer>>

\* purgeExpiredMemories()
Purge == Delete({r \in rows : r.expires # 0 /\ r.expires <= clock})
\* deleteNamespace(), `agent memory clear`.
Clear(ns) == Delete({r \in rows : r.ns = ns})

\* insertMemory() for `agent memory add`: a row without a key.
Add(u, size, visibility) ==
  /\ Cardinality(rows) < MaxRows
  /\ rows' = rows \cup {[id |-> NewId, ns |-> UserScope(u), keyed |-> FALSE, text |-> 0, size |-> size,
                         visibility |-> visibility, at |-> clock, expires |-> 0]}
  /\ UNCHANGED <<said, clock, writer, heard, mixed>>

Next ==
  \/ Speak \/ SecondPasses \/ Purge
  \/ \E w \in Summaries \cup Operators : Summarize(w)
  \/ \E w \in Aggregators : Aggregate(w)
  \/ \E w \in Writers : Fail(w) \/ LookUp(w) \/ Write(w)
  \/ \E ns \in Scopes : Clear(ns)
  \/ \E u \in Users, v \in {"private", "admin_only"} : Add(u, Min(Sizes), v)

Spec == Init /\ [][Next]_memoryVars

-----------------------------------------------------------------------------
\* What a prompt carries (prepare, getFilteredMemories).

\* allowedNamespaces()
AllowedScopes(c, u) == {Global, GroupScope(c), UserScope(u), GroupUserScope(c, u)}
OwnScopes(c, u) == {UserScope(u), GroupUserScope(c, u)}

\* filterByPolicy()
Readable(r, c, u, admin) ==
  /\ r.ns \in AllowedScopes(c, u)
  /\ r.visibility = "admin_only" => admin
  /\ r.visibility = "private" => r.ns \in OwnScopes(c, u)

\* ORDER BY updated_at DESC leaves rows of one second in any order.
NewestFirst(R) ==
  {s \in SetToSeqs(R) : \A i, j \in DOMAIN s : i < j => s[i].at >= s[j].at}

\* One that does not fit is passed over, a smaller one after it is not.
Take(c, u, taken, r) ==
  LET own == r.ns \in OwnScopes(c, u) IN
  CASE own /\ taken.user + r.size <= UserLimit ->
         [taken EXCEPT !.user = @ + r.size, !.rows = @ \cup {r}]
    [] ~own /\ taken.group + r.size <= GroupLimit ->
         [taken EXCEPT !.group = @ + r.size, !.rows = @ \cup {r}]
    [] OTHER -> taken
Injected(order, c, u) ==
  FoldLeft(LAMBDA taken, r : Take(c, u, taken, r), [user |-> 0, group |-> 0, rows |-> {}],
           order).rows
Prompts(c, u, admin) ==
  {Injected(order, c, u) : order \in NewestFirst(
     {r \in rows : Readable(r, c, u, admin) /\ (r.expires = 0 \/ r.expires > clock)})}

-----------------------------------------------------------------------------
\* The types of the table and the writers.
TypeOK ==
  /\ \A r \in rows : r.ns \in Scopes /\ r.text \in 0 .. MaxSaid /\ r.at \in 0 .. MaxClock
  /\ \A w \in Writers : writer[w].at \in {"idle", "working", "found"}
  /\ heard \in [Scopes -> 0 .. MaxSaid] /\ mixed \subseteq Scopes

\* "Upsert a memory item by (namespace, key)" (store/memory.ts): nothing makes
\* the pair unique, and yet a scope has one row for its key and it is made from
\* the latest messages, as long as no two writes of it ran side by side and none
\* met a deletion.
WritesLand ==
  \A ns \in Scopes \ mixed :
    IF heard[ns] = 0 THEN Keyed(ns) = {}
    ELSE \E r \in Keyed(ns) : Keyed(ns) = {r} /\ r.text = heard[ns]

\* prepare(): when the latest write of a user's summary fits the budget, every
\* prompt of that user carries it until a later memory of the user pushes it
\* out, whatever the rows of one second are ordered by.
PromptCarriesTheSummary ==
  \A u \in Users, c \in Chats : \A r \in Keyed(UserScope(u)) :
    ( /\ r.size <= UserLimit /\ (r.expires = 0 \/ r.expires > clock)
      /\ \A q \in rows \ {r} : q.ns = r.ns => q.at < r.at ) =>
    \A admin \in BOOLEAN : \A prompt \in Prompts(c, u, admin) : r \in prompt

=============================================================================
