---------------------------- MODULE Registration ----------------------------
(***************************************************************************)
(* How a work gets into the shop: a creator collects a RegistrationDraft,  *)
(* confirms it for a token, and POST /api/v1/ip/register with that token   *)
(* (or with the form's own values) runs RegistrationService.register:      *)
(* analysis, two memos on Solana, storage, and last the IpAsset row.       *)
(*                                                                         *)
(* Saving and confirming a draft are a read and a write without a lock;    *)
(* consume reads under a row lock but writes nothing, and mark_executed    *)
(* comes after everything else.  Only the insert of the asset is guarded,  *)
(* by the unique index on the hash of the work.                            *)
(*                                                                         *)
(* A work stands for the ordered set of files and its manifest hash; terms *)
(* stand for the fields of a draft together (title, type, prices).         *)
(***************************************************************************)
EXTENDS Naturals, FiniteSets

CONSTANTS
    Works,       \* sets of uploaded files
    Terms,       \* values of the fields of a draft
    Saleable,    \* the terms that pass the validation of prices and type
    Drafts,      \* ids of RegistrationDraft rows
    Tokens,      \* confirmation tokens
    Assets,      \* ids of IpAsset rows
    Requests,    \* requests in flight
    None

ASSUME SaleableAssumption == Saleable \subseteq Terms
ASSUME RequestsAssumption == IsFiniteSet(Requests)
ASSUME RegistrationNone ==
    \A S \in {Works, Terms, Drafts, Tokens, Assets} : None \notin S

Draft == [status: {"collecting", "confirmed", "executed"}, file: Works \cup {None},
          terms: Terms \cup {None}, token: Tokens \cup {None}, asset: Assets \cup {None}]
Asset == [work: Works, terms: Terms, token: Tokens \cup {None}]
Shown == [file: Works, terms: Terms]
Trace == [anchor: Works \cup {None}, cert: Works \cup {None}, original: Works \cup {None}]

ASSUME RowsAssumption == None \notin Draft /\ None \notin Asset /\ None \notin Shown

VARIABLES
    workers,  \* the web workers that are up: how many requests run at once
    drafts,   \* drafts[d]: the row of draft d, None before it is first saved
    shown,    \* shown[k]: the draft the creator was shown when token k was issued
    assets,   \* assets[a]: the row of asset a, None when there is none
    traces,   \* traces[a]: memos and stored files that name asset id a
    pc,       \* pc[r]: where request r is, "idle" when it is answered
    job       \* job[r]: what r was sent and what it has read

vars == <<workers, drafts, shown, assets, traces, pc, job>>

Running == {"saving", "confirming",
            "checking", "anchoring", "certifying", "storing", "inserting", "marking"}
Fallible == {"checking", "anchoring", "certifying", "storing", "inserting"}

Blank == [status |-> "collecting", file |-> None, terms |-> None, token |-> None, asset |-> None]
NoTrace == [anchor |-> None, cert |-> None, original |-> None]
NoJob == [draft |-> None, copy |-> None, work |-> None, terms |-> None, token |-> None, asset |-> None]

TypeOK ==
    /\ workers \in SUBSET Requests
    /\ drafts \in [Drafts -> Draft \cup {None}]
    /\ shown \in [Tokens -> Shown \cup {None}]
    /\ assets \in [Assets -> Asset \cup {None}]
    /\ traces \in [Assets -> Trace]
    /\ pc \in [Requests -> {"idle"} \cup Running]

Init ==
    /\ workers \in SUBSET Requests \ {{}}
    /\ drafts = [d \in Drafts |-> None]
    /\ shown = [k \in Tokens |-> None]
    /\ assets = [a \in Assets |-> None]
    /\ traces = [a \in Assets |-> NoTrace]
    /\ pc = [r \in Requests |-> "idle"]
    /\ job = [r \in Requests |-> NoJob]

----------------------------------------------------------------------------
Free(r) == r \in workers /\ pc[r] = "idle"
Goto(r, p) == pc' = [pc EXCEPT ![r] = p]

\* A request is answered and forgets what it read.
Answer(r) == Goto(r, "idle") /\ job' = [job EXCEPT ![r] = NoJob]

\* An answer other than 2xx.  Memos and files that name an asset id stay where they
\* are, but the id, a uuid4, is never drawn again, so the model forgets them.
Fail(r) ==
    /\ Answer(r)
    /\ traces' = [a \in Assets |-> IF a = job[r].asset /\ assets[a] = None THEN NoTrace ELSE traces[a]]

\* uuid4: an asset id no row and no request uses.
FreshAssets == {a \in Assets : assets[a] = None /\ \A r \in Requests : job[r].asset # a}

\* A token nothing refers to; a confirmation waits for one (bound on the tokens).
FreshTokens ==
    {k \in Tokens : /\ \A d \in Drafts : drafts[d] # None => drafts[d].token # k
                    /\ \A a \in Assets : assets[a] # None => assets[a].token # k
                    /\ \A r \in Requests : job[r].token # k}

----------------------------------------------------------------------------
(***************************************************************************)
(* Drafts.  In a payload, None leaves the files or the terms as they are;  *)
(* a payload may also blank the terms.                                     *)
(***************************************************************************)
NewDraft(r, d, w, t) ==
    /\ Free(r)
    /\ drafts[d] = None
    /\ drafts' = [drafts EXCEPT ![d] = [Blank EXCEPT !.file = w, !.terms = t]]
    /\ UNCHANGED <<workers, shown, assets, traces, pc, job>>

\* save, first half: the read; an executed draft cannot be changed.
BeginSave(r, d, w, t) ==
    /\ Free(r)
    /\ drafts[d] # None
    /\ drafts[d].status # "executed"
    /\ Goto(r, "saving")
    /\ job' = [job EXCEPT ![r] = [NoJob EXCEPT !.draft = d, !.copy = drafts[d],
                                               !.work = w, !.terms = t]]
    /\ UNCHANGED <<workers, drafts, shown, assets, traces>>

\* The row a save writes: the copy that was read, with the payload merged in, and
\* the confirmation taken back.
Saved_KeepsToken(j) ==
    [j.copy EXCEPT !.file = IF j.work = None THEN @ ELSE j.work,
                   !.terms = IF j.terms = None THEN @ ELSE j.terms]

Saved(j) ==
    [j.copy EXCEPT !.file = IF j.work = None THEN @ ELSE j.work,
                   !.terms = IF j.terms = None THEN @ ELSE j.terms,
                   !.status = "collecting",
                   !.token = None]

\* save, second half.  The link to an asset deleted meanwhile breaks a foreign key.
EndSave(r) ==
    LET row == Saved(job[r])
    IN  /\ pc[r] = "saving"
        /\ Answer(r)
        /\ drafts' = IF row.asset # None /\ assets[row.asset] = None THEN drafts
                     ELSE [drafts EXCEPT ![job[r].draft] = row]
        /\ UNCHANGED <<workers, shown, assets, traces>>

Ready(row) == row.file # None /\ row.terms # None

\* confirm, first half: the read and the validation of what was read.
BeginConfirm(r, d) ==
    /\ Free(r)
    /\ drafts[d] # None
    /\ Ready(drafts[d])
    /\ Cardinality(FreshTokens) > Cardinality({q \in Requests : pc[q] = "confirming"})
    /\ Goto(r, "confirming")
    /\ job' = [job EXCEPT ![r] = [NoJob EXCEPT !.draft = d, !.copy = drafts[d]]]
    /\ UNCHANGED <<workers, drafts, shown, assets, traces>>

\* confirm, second half: status and token are written, whatever the row says now, and
\* the creator is shown the copy.  What an unused token showed is forgotten.
EndConfirm(r) ==
    LET d == job[r].draft
    IN  /\ pc[r] = "confirming"
        /\ \E k \in FreshTokens :
              /\ drafts' = [drafts EXCEPT ![d].status = "confirmed", ![d].token = k]
              /\ shown' = [x \in Tokens |->
                              IF x = k THEN [file |-> job[r].copy.file, terms |-> job[r].copy.terms]
                              ELSE IF x \in FreshTokens THEN None ELSE shown[x]]
        /\ Answer(r)
        /\ UNCHANGED <<workers, assets, traces>>

----------------------------------------------------------------------------
(***************************************************************************)
(* Registration.                                                           *)
(***************************************************************************)

\* register with the values of the form: they are validated, and the asset id drawn.
RegisterForm(r, w, t) ==
    /\ Free(r)
    /\ t \in Saleable
    /\ Goto(r, "checking")
    /\ \E a \in FreshAssets :
          job' = [job EXCEPT ![r] = [NoJob EXCEPT !.work = w, !.terms = t, !.asset = a]]
    /\ UNCHANGED <<workers, drafts, shown, assets, traces>>

\* consume: under the row lock the status, the token and the files must match.
Consumable(d, k, w) ==
    drafts[d] # None /\ drafts[d].status = "confirmed" /\ drafts[d].token = k /\ drafts[d].file = w

\* register with a draft: its fields replace the form's.  The draft stays confirmed.
\* RegisterDraft_ExecutesFirst uses it up before the registration has succeeded.
RegisterDraft_ExecutesFirst(r, d, k, w) ==
    /\ Free(r)
    /\ Consumable(d, k, w)
    /\ drafts[d].terms \in Saleable
    /\ Goto(r, "checking")
    /\ \E a \in FreshAssets :
          job' = [job EXCEPT ![r] = [NoJob EXCEPT !.draft = d, !.token = k, !.work = w,
                                                  !.terms = drafts[d].terms, !.asset = a]]
    /\ drafts' = [drafts EXCEPT ![d].status = "executed"]
    /\ UNCHANGED <<workers, shown, assets, traces>>

RegisterDraft(r, d, k, w) ==
    /\ Free(r)
    /\ shown[k] # None
    /\ Consumable(d, k, w)
    /\ drafts[d].terms \in Saleable
    /\ Goto(r, "checking")
    /\ \E a \in FreshAssets :
          job' = [job EXCEPT ![r] = [NoJob EXCEPT !.draft = d, !.token = k, !.work = w,
                                                  !.terms = drafts[d].terms, !.asset = a]]
    /\ UNCHANGED <<workers, drafts, shown, assets, traces>>

Registered(w) == \E a \in Assets : assets[a] # None /\ assets[a].work = w

\* The look-up of the original of a derivative, the previews and the analysis: each may
\* fail, and nothing of them is written.
Prepare(r) ==
    \/ Fail(r)
    \/ Goto(r, "anchoring") /\ UNCHANGED <<job, traces>>

\* The duplicate check comes first.
Check(r) ==
    /\ pc[r] = "checking"
    /\ IF Registered(job[r].work) THEN Fail(r) ELSE Prepare(r)
    /\ UNCHANGED <<workers, drafts, shown, assets>>

\* An external service answers, and leaves its trace, or fails the registration.
External(r, at, next, trace) ==
    /\ pc[r] = at
    /\ \/ Fail(r)
       \/ /\ Goto(r, next)
          /\ UNCHANGED job
          /\ traces' = [traces EXCEPT ![job[r].asset] = trace]
    /\ UNCHANGED <<workers, drafts, shown, assets>>

Marked(r, x) == [traces[job[r].asset] EXCEPT ![x] = job[r].work]

Anchor(r) == External(r, "anchoring", "certifying", Marked(r, "anchor"))

\* Certify_BestEffort carries on without a certificate.
Certify_BestEffort(r) == External(r, "certifying", "storing", traces[job[r].asset])

Certify(r) == External(r, "certifying", "storing", Marked(r, "cert"))

\* Previews, original and gallery.
Store(r) == External(r, "storing", "inserting", Marked(r, "original"))

\* One transaction.  The database checks the unique index; the original of a
\* derivative may be gone, or a supporting file may fail to be stored.
Insertable_NotUnique(w) == TRUE
Insertable(w) == ~Registered(w)

Insert(r) ==
    LET j == job[r]
    IN  /\ pc[r] = "inserting"
        /\ \/ Fail(r) /\ UNCHANGED assets
           \/ /\ Insertable(j.work)
              /\ assets' = [assets EXCEPT ![j.asset] = [work |-> j.work, terms |-> j.terms,
                                                        token |-> j.token]]
              /\ IF j.draft = None THEN Answer(r) ELSE Goto(r, "marking") /\ UNCHANGED job
              /\ UNCHANGED traces
        /\ UNCHANGED <<workers, drafts, shown>>

\* mark_executed: the draft is updated if it is still, or again, confirmed.
Markable(r) == drafts[job[r].draft].status = "confirmed"

Mark(r) ==
    /\ pc[r] = "marking"
    /\ drafts' = IF ~Markable(r) \/ assets[job[r].asset] = None THEN drafts
                 ELSE [drafts EXCEPT ![job[r].draft].status = "executed",
                                     ![job[r].draft].asset = job[r].asset]
    /\ Answer(r)
    /\ UNCHANGED <<workers, shown, assets, traces>>

\* delete_asset, one transaction: the draft keeps its status and loses the link.
Delete(a) ==
    /\ assets[a] # None
    /\ assets' = [assets EXCEPT ![a] = None]
    /\ drafts' = [d \in Drafts |->
                     IF drafts[d] = None THEN None
                     ELSE [drafts[d] EXCEPT !.asset = IF @ = a THEN None ELSE @]]
    /\ traces' = [traces EXCEPT ![a] = NoTrace]
    /\ UNCHANGED <<workers, shown, pc, job>>

\* The worker dies: what it wrote to the database stays.
Crash(r) ==
    /\ pc[r] \in Running
    /\ Fail(r)
    /\ UNCHANGED <<workers, drafts, shown, assets>>

----------------------------------------------------------------------------
Worker(r) ==
    \/ EndSave(r) \/ EndConfirm(r)
    \/ Check(r) \/ Anchor(r) \/ Certify(r) \/ Store(r) \/ Insert(r) \/ Mark(r)

Client(r) ==
    \/ \E d \in Drafts, w \in Works \cup {None}, t \in Terms \cup {None} :
          NewDraft(r, d, w, t) \/ BeginSave(r, d, w, t)
    \/ \E d \in Drafts : BeginConfirm(r, d)
    \/ \E w \in Works, t \in Terms : RegisterForm(r, w, t)
    \/ \E d \in Drafts, k \in Tokens, w \in Works : RegisterDraft(r, d, k, w)

Next ==
    \/ \E r \in Requests : Client(r) \/ Worker(r) \/ Crash(r)
    \/ \E a \in Assets : Delete(a)

Spec == Init /\ [][Next]_vars

Ripe(d) == drafts[d] # None /\ drafts[d].status = "confirmed" /\ drafts[d].terms \in Saleable

\* The confirmed draft's own files are sent again with its own token.
Retry(d) == \E r \in Requests : RegisterDraft(r, d, drafts[d].token, drafts[d].file)

\* The request goes on, or has made its asset.
Advances(r) == pc'[r] # "idle" \/ assets' # assets

\* Workers answer; no external service fails for ever for the same work; the browser
\* repeats the upload of a confirmed draft.
Fairness ==
    /\ \A r \in Requests : WF_vars(Worker(r))
    /\ \A r \in Requests, at \in Fallible, w \in Works :
          SF_vars(Worker(r) /\ pc[r] = at /\ job[r].work = w /\ Advances(r))
    /\ \A d \in Drafts : SF_vars(Ripe(d) /\ Retry(d))

FairSpec == Spec /\ Fairness

----------------------------------------------------------------------------
(***************************************************************************)
(* Properties.                                                             *)
(***************************************************************************)

\* Every asset in the shop is anchored and certified on Solana for its own content,
\* and its original is stored, whatever failed and was tried again before.
AssetsAreProven ==
    \A a \in Assets : assets[a] # None =>
        /\ traces[a].anchor = assets[a].work
        /\ traces[a].cert = assets[a].work
        /\ traces[a].original = assets[a].work

\* "Issues a confirmation token for one use": concurrent and repeated uploads with one
\* token make one asset.  consume itself does not see to it; it holds because a token
\* stays with the files of its draft, and the hash of the files is unique.
TokenRegistersOnce ==
    \A a, b \in Assets :
        (assets[a] # None /\ assets[b] # None /\ assets[a].token # None) =>
            (assets[a].token = assets[b].token => a = b)

\* "Only the values of the confirmed draft become registration metadata": an asset
\* registered with a token has the files and terms shown when the token was issued.
RegisteredAsConfirmed ==
    \A a \in Assets : assets[a] # None /\ assets[a].token # None =>
        /\ shown[assets[a].token].file = assets[a].work
        /\ shown[assets[a].token].terms = assets[a].terms

\* The same when there is one worker, in any order of saves, confirmations, uploads
\* with old tokens, deletions and crashes; and the draft is linked to that asset.
OneWorkerRegistersAsConfirmed ==
    Cardinality(workers) = 1 =>
        /\ RegisteredAsConfirmed
        /\ \A d \in Drafts : drafts[d] # None /\ drafts[d].status = "executed" /\ drafts[d].asset # None =>
              /\ assets[drafts[d].asset].token = drafts[d].token
              /\ assets[drafts[d].asset].work = drafts[d].file

\* A confirmed draft with valid terms that the browser keeps uploading ends up in the
\* shop, unless the creator takes the confirmation back.
ConfirmedIsRegistered ==
    \A d \in Drafts : 
        Ripe(d) ~> (drafts[d] # None /\ (Registered(drafts[d].file) \/ drafts[d].status = "collecting"))
=============================================================================
