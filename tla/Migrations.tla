----------------------------- MODULE Migrations -----------------------------
(***************************************************************************)
(* A SQLite database brought up to date by the processes that open it      *)
(* (core/db.ts, runMigrations): a soul's supervisor, worker and tools, and *)
(* for shared.db every soul's.  Nothing holds the versions' statements     *)
(* together: exec() commits each, and the row that records a version comes *)
(* after them.  A script is abstracted to what can keep it from running    *)
(* again: the columns it adds, the tables it needs and creates.            *)
(***************************************************************************)
EXTENDS Naturals, Sequences, FiniteSetsExt

CONSTANTS
  Processes,
  From,         \* versions a database may have been left at by an older build
  MaxFailures

MigrationsAssumption == From \subseteq 0 .. 39

VARIABLES
  objects,      \* tables, and the columns that were renamed ("table.column")
  columns,      \* ADD COLUMNs done: <<version, which of its statements>>
  recorded,     \* schema_migrations
  proc,         \* [Processes -> Process]
  torn,         \* a process stopped among the ADD COLUMNs of a version
  failures

migrationVars == <<objects, columns, recorded, proc, torn, failures>>

Versions == 1 .. 39

-----------------------------------------------------------------------------
\* What each version creates if it is not there: tables, and the columns of
\* them that once had another name.
CoreTables ==
  {1} \X {"chats", "messages", "profiles", "profiles.pt_balance", "pt_ledger", "badges",
          "user_badges", "activities"}
BotTables ==
  {<<3, "checkins">>, <<3, "checkins.pt_awarded">>, <<4, "errors">>,
   <<5, "pending_replies">>, <<5, "pending_replies.pt_spent">>}
EventTables ==
  {<<6, "event_types">>, <<6, "event_dispatches">>, <<6, "event_reactions">>,
   <<7, "event_schedule_state">>}
RosterTables == {<<9, "chat_members">>, <<10, "member_sync_rounds">>}
WatchTables ==
  {<<14, "calendar_event_rsvp_rounds">>, <<15, "doc_view_events">>, <<16, "token_expiry_alerts">>}
MemoryTables == {<<18, "memory_items">>}
CommunityTables == {<<20, "identity_links">>, <<21, "chat_reactions">>, <<22, "pinned_messages">>}
MeetupTables ==
  {<<23, "activity_meetups">>, <<23, "activity_meetup_tags">>, <<24, "meetup_subscriptions">>}
LedgerTables ==
  {<<26, "visitor_milestones">>, <<27, "name_overrides">>, <<28, "like_maniac_weeks">>}
SurveyTables == {<<29, "tc_counter">>, <<29, "tc_proposals">>, <<30, "tc_bets">>}
\* Version 31 runs 29 and 30 again, under the tables' new names.
SurveyTablesAgain == {<<31, t[2]>> : t \in SurveyTables}
FragmentTables == {<<32, "memory_fragments">>, <<33, "pending_welcome">>}
PredictionTables ==
  {<<34, "predict_counter">>, <<34, "predict_proposals">>, <<35, "predict_bets">>}
LastTables == {<<36, "chests">>, <<39, "handled_messages">>}

Tables ==
  CoreTables \cup BotTables \cup EventTables \cup RosterTables \cup WatchTables
  \cup MemoryTables \cup CommunityTables \cup MeetupTables \cup LedgerTables
  \cup SurveyTables \cup SurveyTablesAgain \cup FragmentTables \cup PredictionTables
  \cup LastTables
Creates == [v \in Versions |-> {t[2] : t \in {u \in Tables : u[1] = v}}]

\* The tables whose ADD COLUMNs a version begins with, one for each column.
RosterColumns(v) ==
  CASE v = 8 -> <<"event_schedule_state">>
    [] v = 11 -> [i \in 1 .. 3 |-> "member_sync_rounds"]
    [] v \in {12, 13} -> <<"chats">>
    [] OTHER -> <<>>
BadgeColumns == [i \in 1 .. 11 |-> IF i <= 9 THEN "badges" ELSE "user_badges"]
Alters == [v \in Versions |->
  CASE v = 2 -> <<"profiles">>
    [] v = 17 -> BadgeColumns
    [] v = 25 -> <<"activity_meetups">>
    [] v = 38 -> <<"messages", "messages">>
    [] OTHER -> RosterColumns(v)]

\* Tables of other versions that a version's seeds, updates and indexes need.
Needs == [v \in Versions |->
  CASE v = 2 -> {"messages", "activities", "badges"}
    [] v = 37 -> {"pt_ledger"}
    [] v = 38 -> {"messages"}
    [] OTHER -> {}]
Drops == [v \in Versions |-> IF v = 31 THEN {"cvp_bets", "cvp_proposals", "cvp_counter"} ELSE {}]

\* migrateLpRename(), version 19.
Renames ==
  << <<"profiles.ap_balance", "profiles.pt_balance">>,
     <<"checkins.ap_awarded", "checkins.pt_awarded">>,
     <<"pending_replies.ap_spent", "pending_replies.pt_spent">>,
     <<"ap_ledger", "pt_ledger">> >>

\* What a build of version n had made: "ap" was the name before 19, "cvp"
\* before 31.
OldName(o) ==
  IF \E i \in 1 .. 4 : Renames[i][2] = o THEN Renames[CHOOSE i \in 1 .. 4 : Renames[i][2] = o][1]
  ELSE o
Made(n) ==
  LET new == UNION {Creates[v] : v \in 1 .. n}
      named == IF n < 19 THEN {OldName(o) : o \in new} ELSE new IN
  IF n \in {29, 30}
  THEN (named \ (Creates[29] \cup Creates[30]))
         \cup {"cvp_counter", "cvp_proposals"} \cup (IF n = 30 THEN {"cvp_bets"} ELSE {})
  ELSE named
Added(n) == UNION {{v} \X (1 .. Len(Alters[v])) : v \in 1 .. n}

-----------------------------------------------------------------------------
Closed == [at |-> "closed", todo |-> {}, v |-> 0, i |-> 0]
Fails == failures < MaxFailures /\ failures' = failures + 1
\* Statements before the rest of a version's script.
Before(v) == IF v = 19 THEN Len(Renames) ELSE Len(Alters[v])
\* The next version of those the process found unapplied, or the handle.
Go(todo) ==
  IF todo = {} THEN [Closed EXCEPT !.at = "open"]
  ELSE [at |-> "migrating", todo |-> todo, v |-> Min(todo), i |-> 1]
Step(p) == proc' = [proc EXCEPT ![p].i = @ + 1]
\* The process added columns of the version it is at.
HasAltered(p) == proc[p].at = "migrating" /\ proc[p].v # 19 /\ proc[p].i > 1 /\ Alters[proc[p].v] # <<>>

Init ==
  /\ \E n \in From :
       objects = Made(n) /\ columns = Added(n) /\ recorded = 1 .. n
  /\ proc = [p \in Processes |-> Closed]
  /\ torn = FALSE /\ failures = 0

\* getDbSqliteRaw(), getLpDbSqliteRaw(): the handle, kept once there is one.
Open(p) ==
  /\ proc[p].at = "closed"
  /\ proc' = [proc EXCEPT ![p] = Go(Versions \ recorded)]
  /\ UNCHANGED <<objects, columns, recorded, torn, failures>>

\* An error leaves runMigrations; whoever asks for the handle next tries again.
Throw(p) ==
  /\ proc' = [proc EXCEPT ![p] = Closed]
  /\ UNCHANGED <<objects, columns, recorded, torn, failures>>

AddColumn(p) ==
  LET v == proc[p].v  i == proc[p].i IN
  /\ proc[p].at = "migrating" /\ v # 19 /\ i <= Before(v)
  /\ \/ /\ <<v, i>> \notin columns /\ Alters[v][i] \in objects
        /\ columns' = columns \cup {<<v, i>>}
        /\ Step(p)
        /\ UNCHANGED <<objects, recorded, torn, failures>>
     \/ (<<v, i>> \in columns \/ Alters[v][i] \notin objects) /\ Throw(p)

Rename(p) ==
  LET old == Renames[proc[p].i][1]  new == Renames[proc[p].i][2] IN
  /\ proc[p].at = "migrating" /\ proc[p].v = 19 /\ proc[p].i <= Before(19)
  /\ objects' = IF old \in objects /\ new \notin objects THEN (objects \ {old}) \cup {new}
                ELSE objects
  /\ Step(p)
  /\ UNCHANGED <<columns, recorded, torn, failures>>

\* DROP IF EXISTS, CREATE IF NOT EXISTS, INSERT OR IGNORE, UPDATE.
Rest(p) ==
  LET v == proc[p].v IN
  /\ proc[p].at = "migrating" /\ proc[p].i = Before(v) + 1
  /\ Needs[v] \subseteq objects
  /\ objects' = (objects \ Drops[v]) \cup Creates[v]
  /\ Step(p)
  /\ UNCHANGED <<columns, recorded, torn, failures>>

\* Mutant of Record: a version is recorded before its script is run.
RecordFirst(p) ==
  LET v == proc[p].v IN
  /\ proc[p].at = "migrating"
  /\ \/ /\ proc[p].i = 1 /\ v \notin recorded
        /\ recorded' = recorded \cup {v} /\ UNCHANGED proc
     \/ /\ proc[p].i > Before(v) + 1
        /\ proc' = [proc EXCEPT ![p] = Go(proc[p].todo \ {v})] /\ UNCHANGED recorded
  /\ UNCHANGED <<objects, columns, torn, failures>>

\* The INSERT fails when another process has recorded the version.
Record(p) ==
  LET v == proc[p].v IN
  /\ proc[p].at = "migrating" /\ proc[p].i > Before(v) + 1
  /\ \/ /\ v \notin recorded
        /\ recorded' = recorded \cup {v}
        /\ proc' = [proc EXCEPT ![p] = Go(proc[p].todo \ {v})]
        /\ UNCHANGED <<objects, columns, torn, failures>>
     \/ v \in recorded /\ Throw(p)

\* SQLITE_BUSY while another process writes (a soul's handle does not wait, the
\* shared one five seconds), or the process dies.
Stops(p) ==
  /\ proc[p].at = "migrating" /\ Fails
  /\ torn' = (torn \/ HasAltered(p))
  /\ proc' = [proc EXCEPT ![p] = Closed]
  /\ UNCHANGED <<objects, columns, recorded>>

Next ==
  \E p \in Processes :
    Open(p) \/ AddColumn(p) \/ Rename(p) \/ Rest(p) \/ Record(p) \/ Stops(p)

Spec == Init /\ [][Next]_migrationVars

-----------------------------------------------------------------------------
\* The types of the database and of the processes.
TypeOK ==
  /\ columns \subseteq Added(39)
  /\ recorded \subseteq Versions
  /\ \A p \in Processes : /\ proc[p].at \in {"closed", "migrating", "open"}
                          /\ proc[p].todo \subseteq Versions

\* getDb(): a recorded version was run to its end, and whoever holds a handle
\* has every table and column of version 39, whatever the database was left at
\* and whoever else migrated it or stopped.
HandleMeansComplete ==
  /\ \A v \in recorded : {v} \X (1 .. Len(Alters[v])) \subseteq columns
  /\ (\E p \in Processes : proc[p].at = "open") =>
       recorded = Versions /\ Made(39) \subseteq objects

\* "ordered, idempotent schema migrations" (runMigrations): processes that
\* migrate together leave no version that a later start cannot run (its columns
\* there, its row missing); only one stopped in the middle of it does.
JamsByInterruptionOnly ==
  ~torn => \A c \in columns :
             c[1] \in recorded \/ \E p \in Processes : HasAltered(p) /\ proc[p].v = c[1]

\* migrateLpRename(): "the rows survive as the same data under the new names";
\* there is one ledger at any time, and no script meets one it does not know.
NoTableIsMissed ==
  /\ ("ap_ledger" \in objects) # ("pt_ledger" \in objects) \/ objects = {}
  /\ \A p \in Processes : LET v == proc[p].v IN
       proc[p].at = "migrating" =>
         /\ v # 19 /\ proc[p].i <= Before(v) => Alters[v][proc[p].i] \in objects
         /\ proc[p].i = Before(v) + 1 => Needs[v] \subseteq objects

=============================================================================
