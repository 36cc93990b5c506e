------------------------------ MODULE DocViews ------------------------------
(***************************************************************************)
(* Who read which document (channels/feishu-user.ts, syncDocViewRecords;   *)
(* core/lark.ts, listFileViewRecords; core/store/analytics.ts,             *)
(* doc_view_events).  Feishu tells each viewer's latest view of a document *)
(* to those who administer it; a pass asks document by document, the       *)
(* knowledge bases before the drive, and reports the views it had not      *)
(* recorded.  The loop starts a pass after the last one has ended.         *)
(***************************************************************************)
EXTENDS Naturals, Sequences, FiniteSets

CONSTANTS
  Space,        \* Seq(Nat): the space of each document, 0 for the drive
  Viewers,
  MaxTargets,   \* DOC_VIEW_MAX_TARGETS
  MaxViews, MaxFailures

DocsAssumption == Space \in Seq(Nat) /\ {MaxTargets, MaxViews} \subseteq Nat

VARIABLES
  ours,         \* documents whose access records the user may read
  latest,       \* Feishu: [Docs -> [Viewers -> the latest view's time, or 0]]
  views,        \* views so far
  rows,         \* doc_view_events: <<document, viewer, time>>
  told,         \* rows a pass reported as new
  toldAgain,    \* rows reported twice
  pass,         \* the pass under way
  failures

docVars == <<ours, latest, views, rows, told, toldAgain, pass, failures>>

Docs == DOMAIN Space
Rest == [at |-> "rest", todo |-> <<>>, batch |-> {}, barred |-> {}, clean |-> TRUE,
         asOf |-> [d \in Docs |-> [v \in Viewers |-> 0]]]
Fails == failures < MaxFailures /\ failures' = failures + 1
\* A listing has one order.
InOrder == [S \in SUBSET Docs |->
  {list \in [1 .. Cardinality(S) -> S] : \A i, j \in DOMAIN list : i < j => list[i] < list[j]}]
First(n, s) == SubSeq(s, 1, IF Len(s) < n THEN Len(s) ELSE n)

Init ==
  /\ ours \in SUBSET Docs
  /\ latest = Rest.asOf /\ views = 0
  /\ rows = {} /\ told = {} /\ toldAgain = {}
  /\ pass = Rest /\ failures = 0

-----------------------------------------------------------------------------
View(d, v) ==
  /\ views < MaxViews
  /\ views' = views + 1
  /\ latest' = [latest EXCEPT ![d][v] = views + 1]
  /\ UNCHANGED <<ours, rows, told, toldAgain, pass, failures>>

\* listWikiSpaces(), listWikiNodesDeep(), listDriveFilesDeep(): each stops where
\* a page fails and gives what it has.
Start ==
  /\ pass.at \in {"rest", "done"}
  /\ \E listed \in SUBSET Docs : \E all \in InOrder[listed] :
       LET clean == listed = Docs IN
       /\ IF clean THEN UNCHANGED failures ELSE Fails
       /\ pass' = [Rest EXCEPT !.at = "scan", !.todo = First(MaxTargets, all), !.clean = clean,
                                !.asOf = latest]
  /\ UNCHANGED <<ours, latest, views, rows, told, toldAgain>>

Target == Head(pass.todo)

\* A space that refused one document is not asked about the others.
SkipBarred ==
  /\ pass.at = "scan" /\ pass.todo # <<>> /\ Space[Target] \in pass.barred
  /\ pass' = [pass EXCEPT !.todo = Tail(@)]
  /\ UNCHANGED <<ours, latest, views, rows, told, toldAgain, failures>>

\* Mutant of Barred: the drive is taken for a space of its own.
BarredToo(d) == {Space[d]}

\* A document of the drive bars nothing.
Barred(d) == IF Space[d] = 0 THEN {} ELSE {Space[d]}

\* isViewRecordForbiddenError()
Refused ==
  /\ pass.at = "scan" /\ pass.todo # <<>>
  /\ Space[Target] \notin pass.barred /\ Target \notin ours
  /\ pass' = [pass EXCEPT !.todo = Tail(@), !.barred = @ \cup Barred(Target)]
  /\ UNCHANGED <<ours, latest, views, rows, told, toldAgain, failures>>

\* listFileViewRecords(), all pages or an error.
Scan ==
  /\ pass.at = "scan" /\ pass.todo # <<>>
  /\ Space[Target] \notin pass.barred /\ Target \in ours
  /\ \/ /\ pass' = [pass EXCEPT !.at = "record",
                      !.batch = {<<Target, v, latest[Target][v]>> :
                                   v \in {x \in Viewers : latest[Target][x] > 0}}]
        /\ UNCHANGED failures
     \/ /\ Fails
        /\ pass' = [pass EXCEPT !.todo = Tail(@), !.clean = FALSE]
  /\ UNCHANGED <<ours, latest, views, rows, told, toldAgain>>

\* ON CONFLICT DO NOTHING RETURNING: rows that were not there.
Fresh(kept) == kept \ rows

\* recordDocViewEvents(): batch by batch; where one fails the pass keeps and
\* reports what the earlier ones returned, and what the failed one wrote after
\* all is not reported.
Record ==
  LET tail == [pass EXCEPT !.at = "scan", !.todo = Tail(@), !.batch = {}] IN
  /\ pass.at = "record"
  /\ \E kept, answered \in SUBSET pass.batch :
       /\ answered \subseteq kept
       /\ IF answered = pass.batch THEN UNCHANGED failures /\ pass' = tail
          ELSE Fails /\ pass' = [tail EXCEPT !.clean = FALSE]
       /\ rows' = rows \cup kept
       /\ told' = told \cup Fresh(answered)
       /\ toldAgain' = toldAgain \cup (told \cap Fresh(answered))
  /\ UNCHANGED <<ours, latest, views>>

Done ==
  /\ pass.at = "scan" /\ pass.todo = <<>>
  /\ pass' = [pass EXCEPT !.at = "done"]
  /\ UNCHANGED <<ours, latest, views, rows, told, toldAgain, failures>>

WorkerDies ==
  /\ pass.at \notin {"rest", "done"} /\ Fails
  /\ pass' = Rest
  /\ UNCHANGED <<ours, latest, views, rows, told, toldAgain>>

Next ==
  \/ Start \/ SkipBarred \/ Refused \/ Scan \/ Record \/ Done \/ WorkerDies
  \/ \E d \in Docs, v \in Viewers : View(d, v)

Spec == Init /\ [][Next]_docVars

-----------------------------------------------------------------------------
\* The types of the table and the pass.
TypeOK ==
  /\ ours \subseteq Docs
  /\ rows \cup told \subseteq Docs \X Viewers \X (1 .. MaxViews)
  /\ pass.at \in {"rest", "scan", "record", "done"} /\ pass.todo \in Seq(Docs)

\* A document the pass leaves out: beyond the limit, not ours, or in a
\* knowledge base after one that is not.
LeftOut(d) ==
  \/ d > MaxTargets \/ d \notin ours
  \/ Space[d] # 0 /\ \E b \in 1 .. d - 1 : Space[b] = Space[d] /\ b \notin ours

\* "only a genuinely new viewer or an advanced view time is written and logged"
\* (feishu-user.ts): no view is reported twice or without its row; and a pass
\* nothing failed in has, of every document it does not leave out, each viewer's
\* view as of its start or a later one.
ViewsAreCaughtUpOnce ==
  /\ told \subseteq rows /\ toldAgain = {}
  /\ pass.at = "done" /\ pass.clean =>
       \A d \in Docs, v \in Viewers :
         pass.asOf[d][v] > 0 /\ ~LeftOut(d) =>
           \E t \in pass.asOf[d][v] .. MaxViews : <<d, v, t>> \in rows

=============================================================================
