----------------------------- MODULE EventFeeds -----------------------------
(***************************************************************************)
(* How recorded events reach the pages.  EventRecorder.record writes an    *)
(* AgentEvent row and then a Firestore document, and goes on without the   *)
(* document when that fails.  Two kinds of page read them:                 *)
(*                                                                         *)
(*  - the library and the sandbox poll /api/v1/events for the rows that    *)
(*    are younger than the last one they have got;                         *)
(*  - the live demo takes a snapshot of the latest documents and then      *)
(*    follows a listener whose batches wait in a bounded queue; when the   *)
(*    stream ends the page takes snapshots instead.                        *)
(*                                                                         *)
(* A row is stamped before it is committed.  Events are numbered by their  *)
(* stamps.  The pages do not influence each other, and the owner looks at  *)
(* one of them.                                                            *)
(***************************************************************************)
EXTENDS Naturals, Sequences, FiniteSets

CONSTANTS
    LastEvent,   \* bound: events recorded
    WindowSize,  \* documents in a snapshot or under the listener, of all owners
    QueueSize    \* batches a stream holds

Recorded == 1..LastEvent

VARIABLES
    own,        \* events of the owner who looks at the live demo
    stamped,    \* events that have a created_at
    committed,  \* rows that can be read
    late,       \* rows committed after a row with a later stamp
    mirror,     \* documents, in the order they were written
    since,      \* the polling page: the stamp of the last event it got,
    polled,     \*   the events it has shown,
    answers,    \*   and the answers on their way to it
    phase,      \* the live demo: opening, snapshot, watching or polling; none: not open,
    reported,   \*   the documents its listener has reported,
    queue,      \*   the batches that wait,
    dropped,    \*   the documents of batches put_latest dropped,
    showing     \*   and the events on the page

writerVars == <<own, stamped, committed, late, mirror>>
pollVars == <<since, polled, answers>>
liveVars == <<phase, reported, queue, dropped, showing>>
feedVars == <<writerVars, pollVars, liveVars>>

Elements(s) == {s[i] : i \in 1..Len(s)}

FeedsTypeOK ==
    /\ own \subseteq Recorded
    /\ stamped \in 0..LastEvent
    /\ committed \subseteq 1..stamped
    /\ late \subseteq committed
    /\ Elements(mirror) \subseteq committed
    /\ since \in 0..LastEvent
    /\ polled \subseteq committed
    /\ phase \in {"none", "opening", "snapshot", "watching", "polling"}
    /\ reported \subseteq Recorded
    /\ queue \in Seq(SUBSET Recorded) /\ Len(queue) <= QueueSize
    /\ dropped \subseteq Recorded
    /\ showing \subseteq own

FeedsInit ==
    /\ phase \in {"none", "opening"}
    /\ own \in IF phase = "none" THEN {{}} ELSE SUBSET Recorded
    /\ stamped = 0
    /\ committed = {}
    /\ late = {}
    /\ mirror = <<>>
    /\ since = 0
    /\ polled = {}
    /\ answers = {}
    /\ reported = {}
    /\ queue = <<>>
    /\ dropped = {}
    /\ showing = {}

----------------------------------------------------------------------------
(***************************************************************************)
(* record.                                                                 *)
(***************************************************************************)
Stamp ==
    /\ stamped < LastEvent
    /\ stamped' = stamped + 1
    /\ UNCHANGED <<own, committed, late, mirror, pollVars, liveVars>>

CommitRow(e) ==
    /\ e \in (1..stamped) \ committed
    /\ committed' = committed \cup {e}
    /\ late' = IF \E f \in committed : f > e THEN late \cup {e} ELSE late
    /\ UNCHANGED <<own, stamped, mirror, pollVars, liveVars>>

\* The document may never be written: a failure of Firestore does not stop the caller.
Mirror(e) ==
    /\ e \in committed \ Elements(mirror)
    /\ mirror' = Append(mirror, e)
    /\ UNCHANGED <<own, stamped, committed, late, pollVars, liveVars>>

----------------------------------------------------------------------------
(***************************************************************************)
(* Polling.  A tick does not wait for the answer of the one before, so an  *)
(* old answer may take the cursor back.                                    *)
(***************************************************************************)
Younger(t) == {e \in committed : e > t}
Youngest(S) == CHOOSE e \in S : \A f \in S : f <= e

Tick ==
    /\ phase = "none"
    /\ answers' = answers \cup {Younger(since)}
    /\ UNCHANGED <<writerVars, since, polled, liveVars>>

\* The cursor follows the last event of the answer.  Cursor_Now takes the time of the
\* answer.
Cursor_Now(S) == stamped
Cursor(S) == IF S = {} THEN since ELSE Youngest(S)

Ingest ==
    \E S \in answers :
        /\ answers' = answers \ {S}
        /\ polled' = polled \cup S
        /\ since' = Cursor(S)
        /\ UNCHANGED <<writerVars, liveVars>>

----------------------------------------------------------------------------
(***************************************************************************)
(* The live demo.                                                          *)
(***************************************************************************)
Window ==
    LET n == Len(mirror)
    IN  Elements(SubSeq(mirror, IF n > WindowSize THEN n - WindowSize + 1 ELSE 1, n))

\* The stream begins with a snapshot, of which the page gets the owner's events; then
\* the listener is installed.
Snapshot ==
    /\ phase = "opening"
    /\ phase' = "snapshot"
    /\ showing' = Window \cap own
    /\ UNCHANGED <<writerVars, pollVars, reported, queue, dropped>>

\* put_latest: a full queue loses its oldest batch.
Put(batch) ==
    IF Len(queue) < QueueSize
    THEN queue' = Append(queue, batch) /\ UNCHANGED dropped
    ELSE queue' = Append(Tail(queue), batch) /\ dropped' = dropped \cup Head(queue)

\* The listener's first call reports every document it finds.
Watch ==
    /\ phase = "snapshot"
    /\ phase' = "watching"
    /\ reported' = Window
    /\ IF Window = {} THEN UNCHANGED <<queue, dropped>> ELSE Put(Window)
    /\ UNCHANGED <<writerVars, pollVars, showing>>

\* A later call reports what has come into the window and what has left it.
Changes == (Window \ reported) \cup (reported \ Window)
Notify ==
    /\ phase = "watching"
    /\ Changes # {}
    /\ reported' = Window
    /\ Put(Changes)
    /\ UNCHANGED <<writerVars, pollVars, phase, showing>>

Deliver ==
    /\ phase = "watching"
    /\ queue # <<>>
    /\ showing' = showing \cup (Head(queue) \cap own)
    /\ queue' = Tail(queue)
    /\ UNCHANGED <<writerVars, pollVars, phase, reported, dropped>>

\* The listener cannot be installed, or the connection breaks: the page closes the
\* stream and takes a snapshot every five seconds.  Break_GivesUp leaves it at that.
Closed(then) ==
    /\ phase \notin {"none", then}
    /\ phase' = then
    /\ reported' = {}
    /\ queue' = <<>>
    /\ UNCHANGED <<writerVars, pollVars, dropped, showing>>
Break_GivesUp == Closed("closed")
Break == Closed("polling")

\* A refresh may also fail; the next one tries again.
Refresh ==
    /\ phase = "polling"
    /\ showing' = showing \cup (Window \cap own)
    /\ UNCHANGED <<writerVars, pollVars, phase, reported, queue, dropped>>

----------------------------------------------------------------------------
Stream == Watch \/ Notify \/ Deliver \/ Refresh

FeedsNext ==
    \/ Stamp
    \/ \E e \in Recorded : CommitRow(e) \/ Mirror(e)
    \/ Tick \/ Ingest
    \/ Snapshot \/ Stream \/ Break

\* The stream and the timer of the page go on; whether the listener can be installed is
\* left open.
FeedsFairness ==
    /\ WF_feedVars(Snapshot \/ Watch)
    /\ WF_feedVars(Notify)
    /\ WF_feedVars(Deliver)
    /\ WF_feedVars(Refresh)

FeedsSpec == FeedsInit /\ [][FeedsNext]_feedVars /\ FeedsFairness

----------------------------------------------------------------------------
(***************************************************************************)
(* Properties.                                                             *)
(***************************************************************************)

\* "Only events with created_at > since": on a polling page no event below the cursor
\* is missing, except one that was committed after a younger one, also when answers
\* overtake each other.
NoneBelowCursor == ((1..since) \cap committed) \ late \subseteq polled

\* An event of the owner that has reached Firestore comes to the page, by the listener or
\* by the snapshots that replace it, unless a full queue dropped it or later documents
\* pushed it out of the window.
MirroredIsShown ==
    \A e \in Recorded :
        e \in own /\ e \in Window ~> e \in showing \cup dropped \/ e \notin Window
=============================================================================
