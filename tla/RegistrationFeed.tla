-------------------------- MODULE RegistrationFeed --------------------------
(***************************************************************************)
(* The progress overlay of the workspace page.  While the POST of a        *)
(* registration runs, the page listens to a stream of the owner's          *)
(* AgentEvent rows and moves nine steps from pending to done.              *)
(*                                                                         *)
(* The stream polls the table with a cursor.  The id of a row is drawn     *)
(* when it is inserted and the row is seen when it is committed, so two    *)
(* registrations of one owner may be seen in another order than their ids  *)
(* say.  The browser may start the upload without the stream, the          *)
(* connection may break and be opened anew by the browser, and the answer  *)
(* of the POST may overtake the events.                                    *)
(***************************************************************************)
EXTENDS Naturals, Sequences, FiniteSets

CONSTANTS
    Flows,      \* registrations of one owner, in any of the owner's pages
    Mine,       \* the registration of the page with the overlay
    MaxBreaks,  \* bound: how often the connection breaks
    MaxForeign, \* bound: rows other registrations write while the page is open
    Joins,      \* bound: how far they may have come when they are first looked at
    None

\* What a registration records, in order; REGISTRATION_FAILED may replace the event
\* after one of FailsAfter (duplicate, anchor, certificate, storage).
Events == <<"REGISTRATION_STARTED", "CONTENT_HASHED", "AI_ANALYZED", "ANCHORING_STARTED",
            "ANCHORED", "REGISTRATION_CERTIFICATE_ISSUED", "CONTENT_STORED", "ASSET_REGISTERED">>
Failed == "REGISTRATION_FAILED"
FailsAfter == {2, 4, 5, 6}

\* The steps of the overlay: wallet, draft, confirm, hash, analyze, anchor,
\* certificate, store, asset.
Steps == 1..9
Wallet == 1
Confirm == 3
Asset == 9

\* EVENTS: the step an event is about, and what becomes of it.
Rule_AnchorsEarly(e) ==
    CASE e = 1 -> <<4, "active">> [] e = 4 -> <<6, "done">>
      [] e \in {2, 3} -> <<e + 2, "done">> [] e \in 5..8 -> <<e + 1, "done">>
Rule(e) ==
    CASE e = 1 -> <<4, "active">> [] e = 4 -> <<6, "active">>
      [] e \in {2, 3} -> <<e + 2, "done">> [] e \in 5..8 -> <<e + 1, "done">>

VARIABLES
    rows,     \* AgentEvent, by id: the flow, its event (0: failed), committed or not
    flow,     \* flow[f]: how far registration f has come on the server
    stream,   \* the connection: its phase, the server's cursor, the rows on their way
    breaks,
    overlay,  \* the phase of the page and the flow the overlay has latched
    nodes,    \* nodes[k]: the state of step k
    timely    \* the stream was ready before the upload and has not been broken or closed

vars == <<rows, flow, stream, breaks, overlay, nodes, timely>>

Row == [flow: Flows, event: 0..8, committed: BOOLEAN]
Flow == [state: {"waiting", "running", "ok", "failed"}, recorded: 0..8, writing: 0..20]
Phases == {"preparing", "connecting", "uploading", "finished", "failed"}

Committed == {id \in 1..Len(rows) : rows[id].committed}
Latest == IF Committed = {} THEN 0 ELSE CHOOSE id \in Committed : \A j \in Committed : j <= id

TypeOK ==
    /\ rows \in Seq(Row)
    /\ flow \in [Flows -> Flow]
    /\ stream.phase \in {"off", "opening", "accepted", "live"}
    /\ stream.cursor \in 0..Len(rows)
    /\ stream.frames \subseteq Committed
    /\ breaks \in 0..MaxBreaks
    /\ overlay \in [phase: Phases, follows: Flows \cup {None}]
    /\ nodes \in [Steps -> {"pending", "active", "done", "error"}]
    /\ timely \in BOOLEAN

Ended == overlay.phase \in {"finished", "failed"}

Off == [phase |-> "off", cursor |-> 0, frames |-> {}]

Init ==
    /\ rows = <<>>
    /\ flow = [f \in Flows |-> [state |-> "waiting", recorded |-> 0, writing |-> 0]]
    /\ stream = Off
    /\ breaks = 0
    /\ overlay = [phase |-> "preparing", follows |-> None]
    /\ nodes = [k \in Steps |-> IF k = Wallet THEN "active" ELSE "pending"]
    /\ timely = FALSE

----------------------------------------------------------------------------
(***************************************************************************)
(* The server: a registration records its events one after the other.  (It *)
(* also does when the overlay has ended, which the model does not follow.) *)
(***************************************************************************)
\* A registration of another page may have come some way before this page is opened.
Begin(f) ==
    /\ f # Mine
    /\ ~Ended
    /\ flow[f].state = "waiting"
    /\ \E e \in Joins :
          flow' = [flow EXCEPT ![f].state = "running", ![f].recorded = e]
    /\ UNCHANGED <<rows, stream, breaks, overlay, nodes, timely>>

\* The row is inserted: it has an id, and is not yet seen.
Record(f, e) ==
    /\ ~Ended
    /\ flow[f].state = "running"
    /\ flow[f].writing = 0
    /\ \/ e = flow[f].recorded + 1
       \/ e = 0 /\ flow[f].recorded \in FailsAfter
    /\ f # Mine => Cardinality({id \in 1..Len(rows) : rows[id].flow # Mine}) < MaxForeign
    /\ rows' = Append(rows, [flow |-> f, event |-> e, committed |-> FALSE])
    /\ flow' = [flow EXCEPT ![f].writing = Len(rows')]
    /\ UNCHANGED <<stream, breaks, overlay, nodes, timely>>

Commit(f) ==
    LET id == flow[f].writing
        e == rows[id].event
    IN  /\ id # 0
        /\ rows' = [rows EXCEPT ![id].committed = TRUE]
        /\ flow' = [flow EXCEPT ![f] =
                      [state |-> IF e = 0 THEN "failed" ELSE IF e = Len(Events) THEN "ok" ELSE @.state,
                       recorded |-> IF e = 0 THEN @.recorded ELSE e,
                       writing |-> 0]]
        /\ UNCHANGED <<stream, breaks, overlay, nodes, timely>>

\* The analysis or the insert of the asset fails, or the worker dies: nothing is recorded.
Abort(f) ==
    /\ flow[f].state = "running"
    /\ flow[f].writing = 0
    /\ flow' = [flow EXCEPT ![f].state = "failed"]
    /\ UNCHANGED <<rows, stream, breaks, overlay, nodes, timely>>

----------------------------------------------------------------------------
(***************************************************************************)
(* The steps of the overlay.                                               *)
(***************************************************************************)

\* step(key, state): what comes before is done; after a step that is done the next
\* one is active.
Stepped(k, s) ==
    [j \in Steps |->
        IF j < k THEN "done"
        ELSE IF j = k THEN s
        ELSE IF j = k + 1 /\ s = "done" /\ nodes[j] = "pending" THEN "active" ELSE nodes[j]]

Actives == {k \in Steps : nodes[k] = "active"}
First(S) == CHOOSE k \in S : \A j \in S : k <= j

\* fail(message): the running step is marked, and the stream closed.
FailOverlay ==
    /\ overlay' = [overlay EXCEPT !.phase = "failed"]
    /\ nodes' = IF Actives = {} THEN nodes ELSE [nodes EXCEPT ![First(Actives)] = "error"]
    /\ stream' = Off
    /\ timely' = FALSE

\* confirmAndRegister: wallet, draft and confirmation, each of which may fail.
Prepare ==
    /\ overlay.phase = "preparing"
    /\ LET k == First(Actives)
       IN  \/ FailOverlay
           \/ /\ nodes' = Stepped(k, "done")
              /\ IF k = Confirm
                 THEN /\ overlay' = [overlay EXCEPT !.phase = "connecting"]
                      /\ stream' = [Off EXCEPT !.phase = "opening"]
                 ELSE UNCHANGED <<overlay, stream>>
              /\ UNCHANGED timely
    /\ UNCHANGED <<rows, flow, breaks>>

\* connect() has resolved, and the files are sent.
Upload ==
    /\ overlay' = [overlay EXCEPT !.phase = "uploading"]
    /\ flow' = [flow EXCEPT ![Mine].state = "running"]

----------------------------------------------------------------------------
(***************************************************************************)
(* The stream.                                                             *)
(***************************************************************************)
\* The server takes the cursor, then says it is ready.
Accept ==
    /\ stream.phase = "opening"
    /\ stream' = [phase |-> "accepted", cursor |-> Latest, frames |-> {}]
    /\ UNCHANGED <<rows, flow, breaks, overlay, nodes, timely>>

\* The page is told; if it was waiting for that, it uploads.  Ready_CursorLate takes the
\* cursor only then.
Ready_CursorLate ==
    /\ stream.phase = "accepted"
    /\ \/ /\ overlay.phase = "connecting"
          /\ Upload
          /\ timely' = TRUE
          /\ UNCHANGED stream
       \/ /\ overlay.phase = "uploading"
          /\ stream' = [stream EXCEPT !.phase = "live", !.cursor = Latest]
          /\ UNCHANGED <<overlay, flow, timely>>
    /\ UNCHANGED <<rows, breaks, nodes>>
Ready ==
    /\ stream.phase = "accepted"
    /\ stream' = [stream EXCEPT !.phase = "live"]
    /\ IF overlay.phase = "connecting"
       THEN Upload /\ timely' = TRUE
       ELSE UNCHANGED <<overlay, flow, timely>>
    /\ UNCHANGED <<rows, breaks, nodes>>

\* READY_TIMEOUT_MS, or an error of the connection: the page uploads all the same.
Timeout_Never == FALSE /\ UNCHANGED vars
Timeout ==
    /\ overlay.phase = "connecting"
    /\ stream.phase # "live"
    /\ Upload
    /\ UNCHANGED <<rows, stream, breaks, nodes, timely>>

\* The rows behind the cursor; the page gets them in the order of their ids.  The cursor
\* follows the frames that are sent.
After(c) == {id \in Committed : id > c}
Poll ==
    /\ stream.phase = "live"
    /\ stream.frames = {}
    /\ After(stream.cursor) # {}
    /\ stream' = [stream EXCEPT !.frames = After(stream.cursor), !.cursor = Latest]
    /\ UNCHANGED <<rows, flow, breaks, overlay, nodes, timely>>

\* handleStage: the overlay follows the flow of the first event it gets.
Stage ==
    /\ stream.frames # {}
    /\ stream' = [stream EXCEPT !.frames = @ \ {First(@)}]
    /\ LET row == rows[First(stream.frames)]
       IN  IF Ended \/ (overlay.follows # None /\ row.flow # overlay.follows)
           THEN UNCHANGED <<overlay, nodes>>
           ELSE /\ overlay' = [overlay EXCEPT !.follows = row.flow]
                /\ nodes' = IF row.event # 0 THEN Stepped(Rule(row.event)[1], Rule(row.event)[2])
                            ELSE Stepped(IF Actives = {} THEN Asset ELSE First(Actives), "error")
    /\ UNCHANGED <<rows, flow, breaks, timely>>

\* The connection breaks and the browser opens it again, with a new cursor.
Break ==
    /\ stream.phase # "off"
    /\ breaks < MaxBreaks
    /\ breaks' = breaks + 1
    /\ stream' = [Off EXCEPT !.phase = "opening"]
    /\ timely' = FALSE
    /\ UNCHANGED <<rows, flow, overlay, nodes>>

\* MAX_STREAM_SECONDS: "closed" makes the page close the stream.
Expire ==
    /\ stream.phase = "live"
    /\ stream.frames = {}
    /\ stream' = Off
    /\ timely' = FALSE
    /\ UNCHANGED <<rows, flow, breaks, overlay, nodes>>

----------------------------------------------------------------------------
\* The POST is answered: every step is done, or the running one has failed.  The
\* answer may also be lost while the registration goes on.
Finish ==
    /\ overlay.phase = "uploading"
    /\ flow[Mine].state = "ok"
    /\ overlay' = [overlay EXCEPT !.phase = "finished"]
    /\ nodes' = [k \in Steps |-> "done"]
    /\ stream' = Off
    /\ timely' = FALSE
    /\ UNCHANGED <<rows, flow, breaks>>

Refused ==
    /\ overlay.phase = "uploading"
    /\ FailOverlay
    /\ UNCHANGED <<rows, flow, breaks>>

Server(f) == (\E e \in 0..8 : Record(f, e)) \/ Commit(f) \/ Abort(f)
Page == Prepare \/ Timeout \/ Finish \/ (flow[Mine].state = "failed" /\ Refused)

Next ==
    \/ \E f \in Flows : Begin(f) \/ Server(f)
    \/ Page \/ Refused
    \/ Accept \/ Ready \/ Poll \/ Stage \/ Break \/ Expire

Spec == Init /\ [][Next]_vars

\* The page goes on and registrations are answered; that the stream ever answers is not
\* assumed.
Fairness ==
    /\ WF_vars(Page)
    /\ WF_vars(Server(Mine))

FairSpec == Spec /\ Fairness

----------------------------------------------------------------------------
(***************************************************************************)
(* Properties.                                                             *)
(***************************************************************************)
Alone == \A f \in Flows \ {Mine} : flow[f].state = "waiting"

\* "The cursor is guaranteed to precede the flow's first event": when the page has
\* waited for the stream, and the owner registers nothing else meanwhile, no event of
\* its registration is passed over, the first ones included.
NothingPassedOver ==
    (timely /\ Alone /\ stream.frames = {}) =>
        \A id \in 1..stream.cursor :
            rows[id].event # 0 /\ Rule(rows[id].event)[2] = "done" =>
                nodes[Rule(rows[id].event)[1]] = "done"

\* The event after which hash, analyze, anchor, certificate, store and asset are done.
EventOf == <<2, 3, 5, 6, 7, 8>>

\* The overlay never says of a step that it is done before the registration it follows
\* has got there, however events, answers and reconnections interleave.
ShownIsDone ==
    \A k \in Steps : nodes[k] = "done" /\ k > Confirm =>
        \E f \in {Mine, overlay.follows} \ {None} : flow[f].recorded >= EventOf[k - Confirm]

\* The overlay always ends, also without a stream.
OverlayEnds == overlay.phase = "preparing" ~> Ended

=============================================================================
