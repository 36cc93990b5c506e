------------------------------ MODULE Meetups -------------------------------
(***************************************************************************)
(* The activity meetups: rows of activity_meetups (core/store/meetups.ts), *)
(* events of the Feishu calendar (core/lark.ts) and the wiki page that is  *)
(* rewritten from the rows (core/meetup-wiki.ts).  A reply of the model    *)
(* creates one (channels/feishu-bot.ts, MEETUP_CREATE), a chat command     *)
(* cancels one while replies are made (core/commands.ts), and the          *)
(* operator's CLI does all of it in processes of its own (bin/agent.ts).   *)
(***************************************************************************)
EXTENDS Naturals, FiniteSets

CONSTANTS
  Jobs, Commands, Clis,   \* who works: replies, chat commands, CLI processes
  MaxMeetups,             \* bound: meetups that are ever created
  Titles,                 \* bound: 0 and the titles an edit may give
  MaxFailures             \* bound: calls that fail and crashes

MeetupsAssumption == MaxMeetups \in Nat

Sessions == Jobs \cup Commands \cup Clis
Ids == 1 .. MaxMeetups

VARIABLES
  created,     \* meetups so far
  row,         \* [Ids -> Row]
  event,       \* [Ids -> Event]
  page,        \* [Ids -> Row], as the wiki shows them
  session,     \* [Sessions -> Session]
  hurt,        \* meetups a call failed for, a crash came upon, or two edited at once
  smudged,     \* a refresh failed, was cut short or overlapped another
  mishaps

meetupVars == <<created, row, event, page, session, hurt, smudged, mishaps>>

NoRow == [status |-> "none", title |-> 0]
NoEvent == [there |-> FALSE, title |-> 0]
NoPage == [i \in Ids |-> NoRow]
Idle == [at |-> "idle", id |-> 0, title |-> 0, listed |-> NoPage]

Init ==
  /\ created = 0
  /\ row = NoPage /\ page = NoPage
  /\ event = [i \in Ids |-> NoEvent]
  /\ session = [s \in Sessions |-> Idle]
  /\ hurt = {} /\ smudged = FALSE /\ mishaps = 0

Mishap == mishaps < MaxFailures /\ mishaps' = mishaps + 1
Go(s, stage) == session' = [session EXCEPT ![s].at = stage]
Rest(s) == session' = [session EXCEPT ![s] = Idle]
Refreshing(s) == session[s].at = "write"

-----------------------------------------------------------------------------
\* createCalendarEvent(): null on any failure, an answer that is lost included.
Create(s) ==
  LET i == created + 1 IN
  /\ s \in Jobs \cup Clis
  /\ session[s].at = "idle" /\ created < MaxMeetups
  /\ created' = i
  /\ \/ /\ event' = [event EXCEPT ![i] = [there |-> TRUE, title |-> 0]]
        /\ session' = [session EXCEPT ![s].at = "insert", ![s].id = i]
        /\ UNCHANGED <<hurt, mishaps>>
     \/ /\ Mishap
        /\ event' \in {event, [event EXCEPT ![i] = [there |-> TRUE, title |-> 0]]}
        /\ hurt' = hurt \cup {i}
        /\ UNCHANGED session
  /\ UNCHANGED <<row, page, smudged>>

\* insertMeetup() and setMeetupTags(), which a failure parts.
Insert(s) ==
  LET i == session[s].id IN
  /\ session[s].at = "insert"
  /\ \/ /\ row' = [row EXCEPT ![i] = [status |-> "confirmed", title |-> 0]]
        /\ Go(s, "list")
        /\ UNCHANGED <<hurt, smudged, mishaps>>
     \/ /\ Mishap
        /\ row' \in {row, [row EXCEPT ![i] = [status |-> "confirmed", title |-> 0]]}
        /\ Rest(s)
        /\ hurt' = hurt \cup {i} /\ smudged' = TRUE
  /\ UNCHANGED <<created, event, page>>

\* "meetup cancel" of a meetup that is not cancelled yet: getMeetupById()
ReadCancel(s, i) ==
  /\ s \in Commands \cup Clis
  /\ session[s].at = "idle" /\ row[i].status = "confirmed"
  /\ session' = [session EXCEPT ![s].at = "delete", ![s].id = i]
  /\ UNCHANGED <<created, row, event, page, hurt, smudged, mishaps>>

\* cancelCalendarEvent(): where it fails the user is told to look.
Delete(s) ==
  LET i == session[s].id IN
  /\ session[s].at = "delete"
  /\ \/ event' = [event EXCEPT ![i].there = FALSE] /\ UNCHANGED <<hurt, mishaps>>
     \/ Mishap /\ hurt' = hurt \cup {i} /\ UNCHANGED event
  /\ Go(s, "mark")
  /\ UNCHANGED <<created, row, page, smudged>>

\* Mutant of Cancelled: the row is taken to be gone with the event.
CancelledNot(i) == row[i]

Cancelled(i) == [row[i] EXCEPT !.status = "cancelled"]

\* cancelMeetup(), whatever became of the event
Mark(s) ==
  LET i == session[s].id IN
  /\ session[s].at = "mark"
  /\ \/ /\ row' = [row EXCEPT ![i] = Cancelled(i)]
        /\ Go(s, "list")
        /\ UNCHANGED <<hurt, mishaps>>
     \/ Mishap /\ Rest(s) /\ hurt' = hurt \cup {i} /\ UNCHANGED row
  /\ UNCHANGED <<created, event, page, smudged>>

Editing(s, i) == session[s].at \in {"retitle", "edit"} /\ session[s].id = i

\* "agent meetup edit", of a meetup that is not cancelled.  Nothing keeps two of
\* them apart, which may leave the one's title in the calendar and the other's in
\* the row.
ReadEdit(s, i, t) ==
  /\ s \in Clis
  /\ session[s].at = "idle" /\ row[i].status = "confirmed"
  /\ session' = [session EXCEPT ![s].at = "retitle", ![s].id = i, ![s].title = t]
  /\ hurt' = IF \E r \in Clis : Editing(r, i) THEN hurt \cup {i} ELSE hurt
  /\ UNCHANGED <<created, row, event, page, smudged, mishaps>>

\* updateCalendarEvent(); one that is gone meanwhile stays gone.
Retitle(s) ==
  LET i == session[s].id IN
  /\ session[s].at = "retitle"
  /\ \/ event' = [event EXCEPT ![i].title = session[s].title] /\ UNCHANGED <<hurt, mishaps>>
     \/ Mishap /\ hurt' = hurt \cup {i} /\ UNCHANGED event
  /\ Go(s, "edit")
  /\ UNCHANGED <<created, row, page, smudged>>

\* updateMeetup()
Edit(s) ==
  LET i == session[s].id IN
  /\ session[s].at = "edit"
  /\ \/ /\ row' = [row EXCEPT ![i].title = session[s].title]
        /\ Go(s, "list")
        /\ UNCHANGED <<hurt, mishaps>>
     \/ Mishap /\ Rest(s) /\ hurt' = hurt \cup {i} /\ UNCHANGED row
  /\ UNCHANGED <<created, event, page, smudged>>

\* refreshMeetupWiki(): the rows are read,
List(s) ==
  /\ session[s].at = "list"
  /\ session' = [session EXCEPT ![s].at = "write", ![s].listed = row]
  /\ smudged' = (smudged \/ \E t \in Sessions : Refreshing(t))
  /\ UNCHANGED <<created, row, event, page, hurt, mishaps>>

\* and then the page is overwritten with what was read.
Write(s) ==
  /\ Refreshing(s)
  /\ \/ page' = session[s].listed /\ UNCHANGED <<smudged, mishaps>>
     \/ Mishap /\ smudged' = TRUE /\ UNCHANGED page
  /\ Rest(s)
  /\ UNCHANGED <<created, row, event, hurt>>

\* The worker dies with what it does, or one CLI process.  The pending reply of
\* a job is run again, and may create its meetup once more.
Dies(group) ==
  /\ \E s \in group : session[s].at # "idle"
  /\ Mishap
  /\ session' = [s \in Sessions |-> IF s \in group THEN Idle ELSE session[s]]
  /\ hurt' = hurt \cup {session[s].id : s \in {t \in group : session[t].at # "idle"}}
  /\ smudged' = TRUE
  /\ UNCHANGED <<created, row, event, page>>

Next ==
  \/ \E s \in Sessions :
       \/ Create(s) \/ Insert(s) \/ Delete(s) \/ Mark(s) \/ Retitle(s) \/ Edit(s)
       \/ List(s) \/ Write(s)
       \/ \E i \in Ids : ReadCancel(s, i) \/ \E t \in Titles : ReadEdit(s, i, t)
  \/ Dies(Jobs \cup Commands)
  \/ \E s \in Clis : Dies({s})

Spec == Init /\ [][Next]_meetupVars

-----------------------------------------------------------------------------
Rows == [Ids -> [status : {"none", "confirmed", "cancelled"}, title : {0} \cup Titles]]

\* The types of the rows, the events and the page.
TypeOK ==
  /\ created \in 0 .. MaxMeetups
  /\ {row, page} \subseteq Rows
  /\ event \in [Ids -> [there : BOOLEAN, title : {0} \cup Titles]]
  /\ \A s \in Sessions :
       /\ session[s].at \in {"idle", "insert", "list", "write", "delete", "mark", "retitle",
                             "edit"}
       /\ session[s].id \in 0 .. created /\ session[s].listed \in Rows

AtWork(i) == \E s \in Sessions : session[s].at # "idle" /\ session[s].id = i

\* createCalendarEvent() and insertMeetup(), cancelCalendarEvent() and
\* cancelMeetup(): where no call fails, nothing dies and no two edits of it overlap,
\* a meetup nobody is at work on is confirmed and in the calendar under its title,
\* or neither.
CalendarMatchesTheRows ==
  \A i \in Ids \ hurt : AtWork(i) \/
    /\ event[i].there <=> row[i].status = "confirmed"
    /\ event[i].there => event[i].title = row[i].title

\* "so the page always mirrors the live meetup list" (meetup-wiki.ts:90): once
\* everybody is done, if no refresh failed, was cut short or overlapped another.
PageMirrorsTheMeetups ==
  smudged \/ (\E s \in Sessions : session[s].at # "idle") \/ page = row

=============================================================================
