------------------------- MODULE RegistrationProofs -------------------------
(***************************************************************************)
(* Proofs that every work in the shop is proven on Solana, and that one    *)
(* confirmation token registers one work, for any number of drafts, tokens *)
(* and concurrent requests, with crashes and deletions.                    *)
(*                                                                         *)
(* The first needs that two requests never hold one asset id, and that a   *)
(* request past a service has left its trace.  The second needs that all   *)
(* the rows and requests that bear a token bear one work with it.          *)
(*                                                                         *)
(* With one worker a work also has the files and the terms that its        *)
(* creator was shown: the last section has the invariant for that.         *)
(***************************************************************************)
EXTENDS Registration, FiniteSetTheorems, TLAPS

Job == [draft: Drafts \cup {None}, copy: Draft \cup {None}, work: Works \cup {None},
        terms: Terms \cup {None}, token: Tokens \cup {None}, asset: Assets \cup {None}]

\* What a request holds at its program point.
Holds(r) ==
    /\ pc[r] \in {"saving", "confirming"} =>
          job[r].draft \in Drafts /\ job[r].copy \in Draft
    /\ pc[r] = "confirming" => Ready(job[r].copy)
    /\ pc[r] \in Fallible \cup {"marking"} =>
          job[r].work \in Works /\ job[r].terms \in Terms /\ job[r].asset \in Assets
    /\ pc[r] = "marking" => job[r].draft \in Drafts

JobsOK == job \in [Requests -> Job] /\ \A r \in Requests : Holds(r)

\* A request names a draft that exists.
DraftsExist == \A r \in Requests : job[r].draft # None => drafts[job[r].draft] # None

\* Two requests never hold the same asset id.
IdsApart ==
    \A r, q \in Requests : r # q /\ job[r].asset # None => job[r].asset # job[q].asset

\* A registration in flight has no asset yet, and has left the traces of the services
\* it has passed.
TracesLeft ==
    \A r \in Requests :
        LET t == traces[job[r].asset]
        IN  /\ pc[r] \in Fallible => assets[job[r].asset] = None
            /\ pc[r] \in {"certifying", "storing", "inserting"} => t.anchor = job[r].work
            /\ pc[r] \in {"storing", "inserting"} => t.cert = job[r].work
            /\ pc[r] = "inserting" => t.original = job[r].work

\* A row or a request carries token k together with the files w.
Bears(k, w) ==
    \/ \E d \in Drafts : drafts[d] # None /\ drafts[d].token = k /\ drafts[d].file = w
    \/ \E r \in Requests : job[r].token = k /\ job[r].work = w
    \/ \E a \in Assets : assets[a] # None /\ assets[a].token = k /\ assets[a].work = w

OneWork == \A k \in Tokens, v, w \in Works \cup {None} : Bears(k, v) /\ Bears(k, w) => v = w

\* The unique index on the hash of the files.
WorksApart ==
    \A a, b \in Assets :
        assets[a] # None /\ assets[b] # None /\ assets[a].work = assets[b].work => a = b

IInv ==
    /\ TypeOK
    /\ JobsOK
    /\ DraftsExist
    /\ IdsApart
    /\ TracesLeft
    /\ AssetsAreProven
    /\ OneWork
    /\ WorksApart

----------------------------------------------------------------------------

\* The invariant holds before the first draft.
LEMMA InitIInv == Init => IInv
<1> SUFFICES ASSUME Init PROVE IInv
  OBVIOUS
<1> USE RegistrationNone DEF Init, NoJob, NoTrace
<1>1. TypeOK
  BY DEF TypeOK, Trace
<1>2. JobsOK
  BY DEF JobsOK, Holds, Job, Fallible
<1>3. DraftsExist /\ IdsApart
  BY DEF DraftsExist, IdsApart
<1>4. TracesLeft /\ AssetsAreProven /\ WorksApart
  BY DEF TracesLeft, AssetsAreProven, WorksApart, Fallible
<1>5. OneWork
  BY DEF OneWork, Bears
<1>6. QED
  BY <1>1, <1>2, <1>3, <1>4, <1>5 DEF IInv

\* The row a save writes is a row of a draft without a token.
LEMMA SavedRow ==
  ASSUME NEW j \in Job, j.copy \in Draft
  PROVE  Saved(j) \in Draft /\ Saved(j).token = None
BY ZenonT(60) DEF Saved, Job, Draft

\* A confirmed row is a row.
LEMMA ConfirmedRow ==
  ASSUME NEW row \in Draft, NEW k \in Tokens
  PROVE  [row EXCEPT !.status = "confirmed", !.token = k] \in Draft
BY DEF Draft

\* Every step keeps the types.
LEMMA NextTypeOK == IInv /\ [Next]_vars => TypeOK'
<1> SUFFICES ASSUME IInv, [Next]_vars PROVE TypeOK'
  OBVIOUS
<1> USE RegistrationNone DEF IInv, TypeOK, Goto, Answer
<1>1. ASSUME NEW r \in Requests, NEW d \in Drafts, NEW w \in Works \cup {None},
             NEW t \in Terms \cup {None}, NewDraft(r, d, w, t)
      PROVE  TypeOK'
  <2>1. [Blank EXCEPT !.file = w, !.terms = t] \in Draft
    BY DEF Blank, Draft
  <2>2. QED
    BY <1>1, <2>1 DEF NewDraft
<1>2. ASSUME NEW r \in Requests, NEW d \in Drafts, NEW w \in Works \cup {None},
             NEW t \in Terms \cup {None}, BeginSave(r, d, w, t)
      PROVE  TypeOK'
  BY <1>2 DEF BeginSave, Running
<1>3. ASSUME NEW r \in Requests, EndSave(r) PROVE TypeOK'
  <2>1. Saved(job[r]) \in Draft /\ job[r].draft \in Drafts
    BY <1>3, SavedRow DEF EndSave, JobsOK, Holds
  <2>2. QED
    BY <1>3, <2>1 DEF EndSave
<1>4. ASSUME NEW r \in Requests, NEW d \in Drafts, BeginConfirm(r, d) PROVE TypeOK'
  BY <1>4 DEF BeginConfirm, Running
<1>5. ASSUME NEW r \in Requests, EndConfirm(r) PROVE TypeOK'
  <2> DEFINE d == job[r].draft
             seen == [file |-> job[r].copy.file, terms |-> job[r].copy.terms]
  <2>1. d \in Drafts /\ drafts[d] # None /\ seen \in Shown
    BY <1>5 DEF EndConfirm, JobsOK, Holds, DraftsExist, Ready, Draft, Shown
  <2>2. PICK k \in FreshTokens :
              /\ drafts' = [drafts EXCEPT ![d].status = "confirmed", ![d].token = k]
              /\ shown' = [x \in Tokens |-> IF x = k THEN seen
                                            ELSE IF x \in FreshTokens THEN None ELSE shown[x]]
    BY <1>5 DEF EndConfirm
  <2>3. k \in Tokens
    BY DEF FreshTokens
  <2>4. drafts' = [drafts EXCEPT ![d] = [drafts[d] EXCEPT !.status = "confirmed", !.token = k]]
    BY <2>1, <2>2
  <2>5. [drafts[d] EXCEPT !.status = "confirmed", !.token = k] \in Draft
    BY <2>1, <2>3, ConfirmedRow
  <2>6. drafts' \in [Drafts -> Draft \cup {None}]
    BY <2>4, <2>5
  <2>7. shown' \in [Tokens -> Shown \cup {None}]
    BY <2>1, <2>2
  <2>8. QED
    BY <1>5, <2>6, <2>7 DEF EndConfirm
<1>6. ASSUME NEW r \in Requests, NEW w \in Works, NEW t \in Terms, RegisterForm(r, w, t)
      PROVE  TypeOK'
  BY <1>6 DEF RegisterForm, Running
<1>7. ASSUME NEW r \in Requests, NEW d \in Drafts, NEW k \in Tokens, NEW w \in Works,
             RegisterDraft(r, d, k, w)
      PROVE  TypeOK'
  BY <1>7 DEF RegisterDraft, Running
<1>8. ASSUME NEW r \in Requests, Fail(r) PROVE traces' \in [Assets -> Trace]
  BY <1>8 DEF Fail, NoTrace, Trace
<1>9. ASSUME NEW r \in Requests, Check(r) PROVE TypeOK'
  BY <1>8, <1>9 DEF Check, Prepare, Fail, Running
<1>10. ASSUME NEW r \in Requests, NEW at \in Fallible, NEW next \in Running, NEW t \in Trace,
              External(r, at, next, t)
       PROVE  TypeOK'
  BY <1>8, <1>10 DEF External, Fail, Running
<1>11. ASSUME NEW r \in Requests, Anchor(r) \/ Certify(r) \/ Store(r) PROVE TypeOK'
  <2>1. job[r].work \in Works /\ job[r].asset \in Assets
    BY <1>11 DEF Anchor, Certify, Store, External, JobsOK, Holds, Fallible
  <2>2. \A x \in {"anchor", "cert", "original"} : Marked(r, x) \in Trace
    BY <2>1 DEF Marked, Trace
  <2>3. QED
    BY <1>10, <1>11, <2>2 DEF Anchor, Certify, Store, Fallible, Running
<1>12. ASSUME NEW r \in Requests, Insert(r) PROVE TypeOK'
  <2>1. [work |-> job[r].work, terms |-> job[r].terms, token |-> job[r].token] \in Asset
    BY <1>12 DEF Insert, JobsOK, Holds, Job, Fallible, Asset
  <2>2. assets' \in [Assets -> Asset \cup {None}]
    BY <1>12, <2>1 DEF Insert
  <2>3. pc' \in [Requests -> {"idle"} \cup Running]
    BY <1>12 DEF Insert, Fail, Running
  <2>4. traces' \in [Assets -> Trace]
    BY <1>8, <1>12 DEF Insert
  <2>5. QED
    BY <1>12, <2>2, <2>3, <2>4 DEF Insert
<1>13. ASSUME NEW r \in Requests, Mark(r) PROVE TypeOK'
  <2> DEFINE d == job[r].draft
             row == [drafts[d] EXCEPT !.status = "executed", !.asset = job[r].asset]
  <2>1. d \in Drafts /\ drafts[d] \in Draft /\ job[r].asset \in Assets
    BY <1>13 DEF Mark, JobsOK, Holds, DraftsExist
  <2>2. row \in Draft
    BY <2>1 DEF Draft
  <2>3. drafts' \in {drafts, [drafts EXCEPT ![d] = row]}
    BY <1>13, <2>1 DEF Mark
  <2>4. QED
    BY <1>13, <2>1, <2>2, <2>3 DEF Mark
<1>14. ASSUME NEW a \in Assets, Delete(a) PROVE TypeOK'
  <2>1. \A d \in Drafts : drafts'[d] \in Draft \cup {None}
    BY <1>14 DEF Delete, Draft
  <2>2. QED
    BY <1>14, <2>1 DEF Delete, NoTrace, Trace
<1>15. ASSUME NEW r \in Requests, Crash(r) PROVE TypeOK'
  BY <1>8, <1>15 DEF Crash, Fail
<1>16. CASE UNCHANGED vars
  BY <1>16 DEF vars
<1>17. QED
  BY <1>1, <1>2, <1>3, <1>4, <1>5, <1>6, <1>7, <1>9, <1>11, <1>12, <1>13, <1>14, <1>15, <1>16
     DEF Next, Client, Worker

----------------------------------------------------------------------------
\* What happens to request r in a step: it is answered, it passes a service or the
\* insert, or it starts.
Answered(r) == pc'[r] = "idle" /\ job'[r] = NoJob

Passed(r) ==
    /\ job'[r] = job[r]
    /\ <<pc[r], pc'[r]>> \in {<<"checking", "anchoring">>, <<"anchoring", "certifying">>,
                              <<"certifying", "storing">>, <<"storing", "inserting">>,
                              <<"inserting", "marking">>}
    /\ pc'[r] = "marking" => job[r].draft # None

StartsOnDraft(r) ==
    LET j == job'[r]
    IN  /\ pc[r] = "idle" /\ pc'[r] \in {"saving", "confirming"}
        /\ j \in Job /\ j.draft \in Drafts /\ drafts[j.draft] # None /\ j.copy \in Draft
        /\ j.token = None /\ j.asset = None
        /\ pc'[r] = "confirming" => Ready(j.copy)

StartsAsset(r) ==
    LET j == job'[r]
    IN  /\ pc[r] = "idle" /\ pc'[r] = "checking"
        /\ j \in Job /\ j.work \in Works /\ j.terms \in Terms /\ j.asset \in FreshAssets
        /\ j.draft # None => drafts[j.draft] # None
        /\ j.token # None => Bears(j.token, j.work)

\* A step moves one request at most, in one of four ways.
LEMMA JobSteps ==
  ASSUME IInv, [Next]_vars
  PROVE  \/ UNCHANGED <<pc, job>>
         \/ \E r \in Requests :
               /\ pc' = [pc EXCEPT ![r] = pc'[r]] /\ job' = [job EXCEPT ![r] = job'[r]]
               /\ Answered(r) \/ Passed(r) \/ StartsOnDraft(r) \/ StartsAsset(r)
<1> DEFINE Moved(r) == /\ pc' = [pc EXCEPT ![r] = pc'[r]] /\ job' = [job EXCEPT ![r] = job'[r]]
                       /\ Answered(r) \/ Passed(r) \/ StartsOnDraft(r) \/ StartsAsset(r)
<1> USE DEF IInv, TypeOK, JobsOK, Goto, Answer
<1>1. ASSUME NEW r \in Requests, NEW d \in Drafts, NEW w \in Works \cup {None},
             NEW t \in Terms \cup {None}, BeginSave(r, d, w, t)
      PROVE  Moved(r)
  <2>1. job'[r] = [NoJob EXCEPT !.draft = d, !.copy = drafts[d], !.work = w, !.terms = t]
    BY <1>1 DEF BeginSave
  <2>2. StartsOnDraft(r)
    BY <1>1, <2>1 DEF BeginSave, StartsOnDraft, Free, NoJob, Job
  <2>3. QED
    BY <1>1, <2>2 DEF BeginSave
<1>2. ASSUME NEW r \in Requests, NEW d \in Drafts, BeginConfirm(r, d) PROVE Moved(r)
  <2>1. job'[r] = [NoJob EXCEPT !.draft = d, !.copy = drafts[d]]
    BY <1>2 DEF BeginConfirm
  <2>2. StartsOnDraft(r)
    BY <1>2, <2>1 DEF BeginConfirm, StartsOnDraft, Free, NoJob, Job
  <2>3. QED
    BY <1>2, <2>2 DEF BeginConfirm
<1>3. ASSUME NEW r \in Requests, NEW w \in Works, NEW t \in Terms, RegisterForm(r, w, t)
      PROVE  Moved(r)
  <2>1. PICK a \in FreshAssets :
              job' = [job EXCEPT ![r] = [NoJob EXCEPT !.work = w, !.terms = t, !.asset = a]]
    BY <1>3 DEF RegisterForm
  <2>2. job'[r] = [NoJob EXCEPT !.work = w, !.terms = t, !.asset = a]
    BY <2>1
  <2>3. StartsAsset(r)
    BY <1>3, <2>2 DEF RegisterForm, StartsAsset, Free, NoJob, Job, FreshAssets
  <2>4. QED
    BY <1>3, <2>1, <2>3 DEF RegisterForm
<1>4. ASSUME NEW r \in Requests, NEW d \in Drafts, NEW k \in Tokens, NEW w \in Works,
             RegisterDraft(r, d, k, w)
      PROVE  Moved(r)
  <2>1. Bears(k, w) /\ drafts[d] # None /\ drafts[d].terms \in Terms
    BY <1>4, SaleableAssumption DEF RegisterDraft, Consumable, Bears
  <2>2. PICK a \in FreshAssets :
              job' = [job EXCEPT ![r] = [NoJob EXCEPT !.draft = d, !.token = k, !.work = w,
                                                      !.terms = drafts[d].terms, !.asset = a]]
    BY <1>4 DEF RegisterDraft
  <2>3. job'[r] = [NoJob EXCEPT !.draft = d, !.token = k, !.work = w,
                                !.terms = drafts[d].terms, !.asset = a]
    BY <2>2
  <2>4. StartsAsset(r)
    BY <1>4, <2>1, <2>3, ZenonT(60) DEF RegisterDraft, StartsAsset, Free, NoJob, Job, FreshAssets
  <2>5. QED
    BY <1>4, <2>2, <2>4 DEF RegisterDraft
<1>5. ASSUME NEW r \in Requests, EndSave(r) \/ EndConfirm(r) \/ Mark(r) \/ Crash(r)
      PROVE  Moved(r)
  BY <1>5 DEF EndSave, EndConfirm, Mark, Crash, Fail, Answered
<1>6. ASSUME NEW r \in Requests, Check(r) PROVE Moved(r)
  BY <1>6 DEF Check, Prepare, Fail, Answered, Passed
<1>7. ASSUME NEW r \in Requests, Anchor(r) \/ Certify(r) \/ Store(r) PROVE Moved(r)
  BY <1>7 DEF Anchor, Certify, Store, External, Fail, Answered, Passed
<1>8. ASSUME NEW r \in Requests, Insert(r) PROVE Moved(r)
  BY <1>8 DEF Insert, Fail, Answered, Passed
<1>9. ASSUME NEW r \in Requests, Client(r) \/ Worker(r) \/ Crash(r)
      PROVE  UNCHANGED <<pc, job>> \/ Moved(r)
  BY <1>1, <1>2, <1>3, <1>4, <1>5, <1>6, <1>7, <1>8, <1>9 DEF Client, Worker, NewDraft
<1>10. QED
  BY <1>9 DEF Next, Delete, vars

\* A saved draft is there for good.
LEMMA DraftsStay ==
  ASSUME IInv, [Next]_vars, NEW d \in Drafts, drafts[d] # None
  PROVE  drafts'[d] # None
<1> USE RegistrationNone, RowsAssumption DEF IInv, TypeOK
<1>1. ASSUME NEW r \in Requests, EndSave(r) PROVE drafts'[d] # None
  <2>1. Saved(job[r]) # None
    BY <1>1, SavedRow DEF EndSave, JobsOK, Holds
  <2>2. QED
    BY <1>1, <2>1 DEF EndSave
<1>2. ASSUME NEW r \in Requests, EndConfirm(r) PROVE drafts'[d] # None
  <2>1. PICK k \in FreshTokens :
              drafts' = [drafts EXCEPT ![job[r].draft].status = "confirmed", ![job[r].draft].token = k]
    BY <1>2 DEF EndConfirm
  <2>2. k \in Tokens
    BY DEF FreshTokens
  <2>3. drafts'[d] \in Draft
    BY <2>1, <2>2 DEF Draft
  <2>4. QED
    BY <2>3
<1>3. ASSUME NEW r \in Requests, Mark(r) PROVE drafts'[d] # None
  <2>1. job[r].asset \in Assets
    BY <1>3 DEF Mark, JobsOK, Holds
  <2>2. drafts'[d] \in Draft
    BY <1>3, <2>1 DEF Mark, Draft
  <2>3. QED
    BY <2>2
<1>4. ASSUME NEW a \in Assets, Delete(a) PROVE drafts'[d] # None
  <2>1. drafts'[d] \in Draft
    BY <1>4 DEF Delete, Draft
  <2>2. QED
    BY <2>1
<1>5. QED
  BY <1>1, <1>2, <1>3, <1>4, ZenonT(60)
     DEF Next, Client, Worker, NewDraft, BeginSave, BeginConfirm, RegisterForm, RegisterDraft,
         Check, Prepare, Anchor, Certify, Store, External, Insert, Crash, vars

\* Every step keeps what requests hold, the drafts they name, and their ids apart.
LEMMA NextJobsOK == IInv /\ [Next]_vars => JobsOK' /\ DraftsExist' /\ IdsApart'
<1> SUFFICES ASSUME IInv, [Next]_vars PROVE JobsOK' /\ DraftsExist' /\ IdsApart'
  OBVIOUS
<1> USE RegistrationNone DEF IInv, JobsOK, Holds
<1>0. NoJob \in Job
  BY DEF NoJob, Job
<1>1. CASE UNCHANGED <<pc, job>>
  BY <1>1, DraftsStay DEF Job, DraftsExist, IdsApart
<1>2. ASSUME NEW r \in Requests,
             pc' = [pc EXCEPT ![r] = pc'[r]], job' = [job EXCEPT ![r] = job'[r]],
             Answered(r) \/ Passed(r) \/ StartsOnDraft(r) \/ StartsAsset(r)
      PROVE  JobsOK' /\ DraftsExist' /\ IdsApart'
  <2>1. job'[r] \in Job /\ Holds(r)'
    <3>1. CASE Answered(r)
      BY <1>0, <3>1 DEF Answered, Fallible
    <3>2. CASE Passed(r)
      BY <3>2 DEF Passed, Fallible, Job
    <3>3. CASE StartsOnDraft(r)
      BY <3>3 DEF StartsOnDraft, Fallible
    <3>4. CASE StartsAsset(r)
      BY <3>4 DEF StartsAsset, Fallible, FreshAssets
    <3>5. QED
      BY <1>2, <3>1, <3>2, <3>3, <3>4
  <2>2. job'[r].draft = None \/ drafts[job'[r].draft] # None
    BY <1>2 DEF Answered, Passed, StartsOnDraft, StartsAsset, NoJob, DraftsExist
  <2>3. job'[r].asset \in {None, job[r].asset} \cup FreshAssets
    BY <1>2 DEF Answered, Passed, StartsOnDraft, StartsAsset, NoJob
  <2>4. job' \in [Requests -> Job]
    BY <1>2, <2>1
  <2>5. JobsOK'
    <3>1. ASSUME NEW q \in Requests, q # r PROVE Holds(q)'
      <4>1. pc'[q] = pc[q] /\ job'[q] = job[q]
        BY <1>2, <3>1 DEF TypeOK
      <4>2. Holds(q)
        OBVIOUS
      <4>3. QED
        BY <4>1, <4>2
    <3>2. QED
      BY <2>1, <2>4, <3>1
  <2>6. DraftsExist'
    <3>1. ASSUME NEW q \in Requests, job'[q].draft # None
          PROVE  drafts'[job'[q].draft] # None
      <4>1. job'[q].draft \in Drafts /\ drafts[job'[q].draft] # None
        BY <1>2, <2>2, <2>4, <3>1 DEF DraftsExist, Job
      <4>2. QED
        BY <4>1, DraftsStay
    <3>2. QED
      BY <3>1 DEF DraftsExist
  <2>7. IdsApart'
    BY <1>2, <2>3 DEF IdsApart, FreshAssets
  <2>8. QED
    BY <2>5, <2>6, <2>7
<1>3. QED
  BY <1>1, <1>2, JobSteps

----------------------------------------------------------------------------
\* A failing request touches no traces but those of its own asset id, and none of an
\* asset in the shop.
LEMMA FailTraces ==
  ASSUME IInv, NEW r \in Requests, Fail(r), NEW a \in Assets,
         a # job[r].asset \/ assets[a] # None
  PROVE  traces'[a] = traces[a]
BY DEF Fail

\* A step changes the traces of an asset id only for the request that holds it, or with
\* the deletion of its asset.
LEMMA TracesOf ==
  ASSUME IInv, [Next]_vars, NEW a \in Assets, traces'[a] # traces[a]
  PROVE  \/ Delete(a)
         \/ \E r \in Requests : /\ job[r].asset = a
                                /\ (Fail(r) /\ assets[a] = None) \/ Anchor(r) \/ Certify(r) \/ Store(r)
<1> USE DEF IInv, TypeOK
<1>1. ASSUME NEW r \in Requests, Fail(r) PROVE job[r].asset = a /\ assets[a] = None
  BY <1>1, FailTraces
<1>2. ASSUME NEW r \in Requests, Anchor(r) \/ Certify(r) \/ Store(r)
      PROVE  job[r].asset = a
  BY <1>1, <1>2 DEF Anchor, Certify, Store, External
<1>3. ASSUME NEW b \in Assets, Delete(b) PROVE b = a
  BY <1>3 DEF Delete
<1>4. QED
  BY <1>1, <1>2, <1>3, ZenonT(60)
     DEF Next, Client, Worker, NewDraft, BeginSave, EndSave, BeginConfirm, EndConfirm,
         RegisterForm, RegisterDraft, Check, Prepare, Insert, Mark, Crash, vars

\* Assets come with an insert under the unique index, and go with a deletion.
LEMMA AssetsOf ==
  ASSUME IInv, [Next]_vars
  PROVE  \/ UNCHANGED assets
         \/ \E a \in Assets : Delete(a)
         \/ \E r \in Requests :
               LET j == job[r]
               IN  /\ pc[r] = "inserting" /\ pc'[r] \notin Fallible
                   /\ ~Registered(j.work)
                   /\ assets' = [assets EXCEPT ![j.asset] = [work |-> j.work, terms |-> j.terms,
                                                             token |-> j.token]]
                   /\ UNCHANGED traces
<1>1. ASSUME NEW r \in Requests, Insert(r)
      PROVE  \/ UNCHANGED assets
             \/ /\ pc[r] = "inserting" /\ pc'[r] \notin Fallible
                /\ ~Registered(job[r].work)
                /\ assets' = [assets EXCEPT ![job[r].asset] =
                                [work |-> job[r].work, terms |-> job[r].terms, token |-> job[r].token]]
                /\ UNCHANGED traces
  BY <1>1 DEF Insert, Insertable, IInv, TypeOK, Fallible, Goto, Answer
<1>2. QED
  BY <1>1, ZenonT(60)
     DEF Next, Client, Worker, NewDraft, BeginSave, EndSave, BeginConfirm, EndConfirm, RegisterForm,
         RegisterDraft, Check, Prepare, Anchor, Certify, Store, External, Mark, Crash, vars

\* Every step keeps the works in the shop proven and their hashes unique.
LEMMA NextAssetsAreProven == IInv /\ [Next]_vars => AssetsAreProven' /\ WorksApart'
<1> SUFFICES ASSUME IInv, [Next]_vars PROVE AssetsAreProven' /\ WorksApart'
  OBVIOUS
<1> USE RowsAssumption DEF IInv, TypeOK
<1>1. ASSUME NEW a \in Assets, Delete(a) PROVE AssetsAreProven' /\ WorksApart'
  BY <1>1 DEF Delete, AssetsAreProven, WorksApart
<1>2. ASSUME NEW r \in Requests, pc[r] = "inserting", ~Registered(job[r].work), UNCHANGED traces,
             assets' = [assets EXCEPT ![job[r].asset] =
                          [work |-> job[r].work, terms |-> job[r].terms, token |-> job[r].token]]
      PROVE  AssetsAreProven' /\ WorksApart'
  BY <1>2 DEF JobsOK, Holds, Fallible, TracesLeft, Registered, AssetsAreProven, WorksApart
<1>3. CASE UNCHANGED assets /\ \A a \in Assets : ~Delete(a)
  <2>1. ASSUME NEW a \in Assets, assets[a] # None PROVE traces'[a] = traces[a]
    <3>1. ASSUME NEW r \in Requests, job[r].asset = a PROVE pc[r] \notin Fallible
      BY <2>1, <3>1 DEF TracesLeft
    <3>2. QED
      BY <1>3, <2>1, <3>1, TracesOf DEF Anchor, Certify, Store, External, Fallible
  <2>2. QED
    BY <1>3, <2>1 DEF AssetsAreProven, WorksApart
<1>4. QED
  BY <1>1, <1>2, <1>3, AssetsOf

\* A request that passes a service leaves its trace, and others do not touch it.
LEMMA NextTracesLeft == IInv /\ [Next]_vars => TracesLeft'
<1> SUFFICES ASSUME IInv, [Next]_vars, NEW q \in Requests, pc'[q] \in Fallible
             PROVE  LET t == traces'[job'[q].asset]
                    IN  /\ assets'[job'[q].asset] = None
                        /\ pc'[q] \in {"certifying", "storing", "inserting"} => t.anchor = job'[q].work
                        /\ pc'[q] \in {"storing", "inserting"} => t.cert = job'[q].work
                        /\ pc'[q] = "inserting" => t.original = job'[q].work
  BY DEF TracesLeft, Fallible
<1> USE RegistrationNone DEF IInv, TypeOK
<1>1. CASE pc'[q] = "checking" /\ pc[q] # "checking"
  <2>1. job'[q].asset \in FreshAssets
    BY <1>1, JobSteps DEF Answered, Passed, StartsOnDraft, StartsAsset
  <2>2. assets'[job'[q].asset] = None
    BY <2>1, AssetsOf DEF FreshAssets, Delete
  <2>3. QED
    BY <1>1, <2>2
<1>2. CASE pc[q] \in Fallible
  <2> DEFINE a == job[q].asset
  <2>1. job'[q] = job[q] /\ a \in Assets /\ assets[a] = None
    <3>1. job'[q] = job[q]
      <4>1. ASSUME NEW r \in Requests,
                   pc' = [pc EXCEPT ![r] = pc'[r]], job' = [job EXCEPT ![r] = job'[r]],
                   Answered(r) \/ Passed(r) \/ StartsOnDraft(r) \/ StartsAsset(r)
            PROVE  job'[q] = job[q]
        BY <1>2, <4>1 DEF Answered, Passed, StartsOnDraft, StartsAsset, Fallible, JobsOK
      <4>2. QED
        BY <4>1, JobSteps
    <3>2. QED
      BY <1>2, <3>1 DEF JobsOK, Holds, TracesLeft
  <2>2. assets'[a] = None
    BY <1>2, <2>1, AssetsOf DEF Delete, IdsApart, Fallible
  <2>3. CASE pc'[q] = pc[q]
    <3>1. ~Fail(q) /\ ~Anchor(q) /\ ~Certify(q) /\ ~Store(q)
      BY <1>2, <2>3 DEF Fail, Answer, Goto, Anchor, Certify, Store, External, Fallible
    <3>2. traces'[a] = traces[a]
      BY <2>1, <3>1, TracesOf DEF IdsApart, Delete
    <3>3. QED
      BY <2>1, <2>2, <2>3, <3>2 DEF TracesLeft
  <2>4. CASE pc'[q] # pc[q]
    <3>1. Check(q) \/ Anchor(q) \/ Certify(q) \/ Store(q)
      <4>1. ASSUME NEW r \in Requests, EndSave(r) \/ EndConfirm(r) \/ Insert(r) \/ Mark(r) \/ Crash(r)
            PROVE  FALSE
        BY <1>2, <2>4, <4>1, ZenonT(60)
           DEF EndSave, EndConfirm, Insert, Mark, Crash, Fail, Answer, Goto, Fallible
      <4>2. ASSUME NEW r \in Requests, Client(r)
            PROVE  FALSE
        BY <1>2, <2>4, <4>2
           DEF Client, NewDraft, BeginSave, BeginConfirm, RegisterForm, RegisterDraft, Free, Goto, Fallible
      <4>3. ASSUME NEW r \in Requests, Check(r) \/ Anchor(r) \/ Certify(r) \/ Store(r)
            PROVE  r = q
        BY <2>4, <4>3 DEF Check, Prepare, Anchor, Certify, Store, External, Fail, Answer, Goto
      <4>4. QED
        BY <2>4, <4>1, <4>2, <4>3 DEF Next, Worker, Delete, vars
    <3>2. CASE Check(q)
      BY <2>1, <2>2, <3>2 DEF Check, Prepare, Fail, Answer, Goto
    <3>3. CASE Anchor(q)
      BY <2>1, <2>2, <3>3 DEF Anchor, External, Marked, Fail, Answer, Goto, Fallible, Trace
    <3>4. CASE Certify(q)
      BY <2>1, <2>2, <3>4 DEF Certify, External, Marked, Fail, Answer, Goto, Fallible, Trace, TracesLeft
    <3>5. CASE Store(q)
      BY <2>1, <2>2, <3>5 DEF Store, External, Marked, Fail, Answer, Goto, Fallible, Trace, TracesLeft
    <3>6. QED
      BY <3>1, <3>2, <3>3, <3>4, <3>5
  <2>5. QED
    BY <2>3, <2>4
<1>3. QED
  BY <1>1, <1>2, JobSteps DEF Answered, Passed, StartsOnDraft, StartsAsset, Fallible

----------------------------------------------------------------------------
\* A row keeps its files as long as it keeps its token; a token that comes to a row was
\* borne by nothing, and nothing else changes with it but the request being answered.
LEMMA TokensOf ==
  ASSUME IInv, [Next]_vars, NEW d \in Drafts, drafts'[d] # None, drafts'[d].token # None
  PROVE  \/ /\ drafts[d] # None
            /\ drafts'[d].token = drafts[d].token
            /\ drafts'[d].file = drafts[d].file
         \/ \E r \in Requests : /\ EndConfirm(r) /\ job[r].draft = d
                                /\ drafts'[d].token \in FreshTokens
                                /\ drafts'[d].file = drafts[d].file
<1> USE RegistrationNone, RowsAssumption DEF IInv, TypeOK
<1>1. ASSUME NEW r \in Requests, NEW e \in Drafts, NEW w \in Works \cup {None},
             NEW t \in Terms \cup {None}, NewDraft(r, e, w, t), drafts'[d] # drafts[d]
      PROVE  drafts'[d].token = None
  BY <1>1 DEF NewDraft, Blank
<1>2. ASSUME NEW r \in Requests, EndSave(r), drafts'[d] # drafts[d]
      PROVE  drafts'[d].token = None
  BY <1>2, SavedRow DEF EndSave, JobsOK, Holds
<1>3. ASSUME NEW r \in Requests, EndConfirm(r), drafts'[d] # drafts[d]
      PROVE  /\ job[r].draft = d
             /\ drafts'[d].token \in FreshTokens
             /\ drafts'[d].file = drafts[d].file
  <2>1. PICK k \in FreshTokens :
              drafts' = [drafts EXCEPT ![job[r].draft].status = "confirmed", ![job[r].draft].token = k]
    BY <1>3 DEF EndConfirm
  <2>2. job[r].draft = d /\ drafts[d] \in Draft
    BY <1>3, <2>1 DEF EndConfirm, JobsOK, Holds, DraftsExist
  <2>3. QED
    BY <2>1, <2>2 DEF Draft
<1>4. ASSUME NEW r \in Requests, Mark(r), drafts'[d] # drafts[d]
      PROVE  /\ drafts[d] # None
             /\ drafts'[d].token = drafts[d].token
             /\ drafts'[d].file = drafts[d].file
  <2>1. job[r].draft = d /\ drafts[d] \in Draft
    BY <1>4 DEF Mark, JobsOK, Holds, DraftsExist
  <2>2. drafts' = [drafts EXCEPT ![d].status = "executed", ![d].asset = job[r].asset]
    BY <1>4, <2>1 DEF Mark
  <2>3. QED
    BY <2>1, <2>2 DEF Draft
<1>5. ASSUME NEW a \in Assets, Delete(a)
      PROVE  /\ drafts[d] # None
             /\ drafts'[d].token = drafts[d].token
             /\ drafts'[d].file = drafts[d].file
  BY <1>5 DEF Delete, Draft
<1>6. CASE drafts'[d] = drafts[d]
  BY <1>6
<1>7. CASE drafts'[d] # drafts[d]
  BY <1>1, <1>2, <1>3, <1>4, <1>5, <1>7, ZenonT(60)
     DEF Next, Client, Worker, BeginSave, BeginConfirm, RegisterForm, RegisterDraft, Check, Prepare, Anchor,
         Certify, Store, External, Insert, Crash, vars
<1>8. QED
  BY <1>6, <1>7

\* A fresh token is borne by nothing.
LEMMA FreshIsUnborne ==
  ASSUME NEW k \in FreshTokens, NEW w
  PROVE  ~Bears(k, w)
BY DEF FreshTokens, Bears

\* A request bears what it bore, or a token that was borne by the draft it starts with.
LEMMA RequestBears ==
  ASSUME IInv, [Next]_vars, NEW r \in Requests, job'[r].token # None
  PROVE  Bears(job'[r].token, job'[r].work)
<1> USE RegistrationNone DEF IInv
<1>1. ASSUME job'[r] = job[r] PROVE Bears(job'[r].token, job'[r].work)
  BY <1>1 DEF Bears
<1>2. ASSUME NEW q \in Requests, job' = [job EXCEPT ![q] = job'[q]],
             Answered(q) \/ Passed(q) \/ StartsOnDraft(q) \/ StartsAsset(q)
      PROVE  Bears(job'[r].token, job'[r].work)
  BY <1>1, <1>2 DEF Answered, Passed, StartsOnDraft, StartsAsset, NoJob, JobsOK
<1>3. QED
  BY <1>1, <1>2, JobSteps

\* After a step a work bears its token with files that the token was borne with before.
LEMMA AssetBears ==
  ASSUME IInv, [Next]_vars, NEW a \in Assets, assets'[a] # None
  PROVE  Bears(assets'[a].token, assets'[a].work)
<1> USE DEF IInv, TypeOK
<1>1. CASE assets'[a] = assets[a]
  BY <1>1 DEF Bears
<1>2. ASSUME NEW b \in Assets, Delete(b) PROVE assets'[a] = assets[a]
  BY <1>2 DEF Delete
<1>3. ASSUME NEW r \in Requests,
             assets' = [assets EXCEPT ![job[r].asset] =
                          [work |-> job[r].work, terms |-> job[r].terms, token |-> job[r].token]],
             assets'[a] # assets[a]
      PROVE  Bears(assets'[a].token, assets'[a].work)
  BY <1>3 DEF Bears
<1>4. QED
  BY <1>1, <1>2, <1>3, AssetsOf

\* Every step keeps one set of files to a token.
LEMMA NextOneWork == IInv /\ [Next]_vars => OneWork'
<1> SUFFICES ASSUME IInv, [Next]_vars, NEW k \in Tokens,
                    NEW v \in Works \cup {None}, NEW w \in Works \cup {None},
                    Bears(k, v)', Bears(k, w)'
             PROVE  v = w
  BY DEF OneWork
<1> USE RegistrationNone DEF IInv
<1>1. CASE k \notin FreshTokens
  <2>1. ASSUME NEW x, Bears(k, x)' PROVE Bears(k, x)
    <3>1. ASSUME NEW d \in Drafts, drafts'[d] # None, drafts'[d].token = k, drafts'[d].file = x
          PROVE  Bears(k, x)
      BY <1>1, <3>1, TokensOf DEF Bears
    <3>2. QED
      BY <2>1, <3>1, RequestBears, AssetBears DEF Bears
  <2>2. QED
    BY <2>1 DEF OneWork
<1>2. CASE k \in FreshTokens
  <2>1. ASSUME NEW x, Bears(k, x)'
        PROVE  \E r \in Requests : EndConfirm(r) /\ drafts'[job[r].draft].token = k
                                   /\ x = drafts[job[r].draft].file
    <3>1. ASSUME NEW r \in Requests, job'[r].token = k PROVE FALSE
      BY <1>2, <3>1, RequestBears, FreshIsUnborne
    <3>2. ASSUME NEW a \in Assets, assets'[a] # None, assets'[a].token = k PROVE FALSE
      BY <1>2, <3>2, AssetBears, FreshIsUnborne
    <3>3. PICK d \in Drafts : drafts'[d] # None /\ drafts'[d].token = k /\ drafts'[d].file = x
      BY <2>1, <3>1, <3>2 DEF Bears
    <3>4. ~(drafts[d] # None /\ drafts[d].token = k)
      BY <1>2 DEF FreshTokens
    <3>5. drafts'[d].token # None
      BY <3>3
    <3>6. PICK r \in Requests : /\ EndConfirm(r) /\ job[r].draft = d
                                /\ drafts'[d].file = drafts[d].file
      BY <3>3, <3>4, <3>5, TokensOf
    <3>7. QED
      BY <3>3, <3>6
  <2>2. ASSUME NEW r \in Requests, NEW q \in Requests, EndConfirm(r), EndConfirm(q),
               drafts'[job[r].draft].token = k, drafts'[job[q].draft].token = k
        PROVE  r = q
    BY <2>2 DEF EndConfirm, Answer, Goto, TypeOK
  <2>3. QED
    BY <1>2, <2>1, <2>2
<1>3. QED
  BY <1>1, <1>2

----------------------------------------------------------------------------

\* Every step keeps the invariant.
LEMMA NextIInv == IInv /\ [Next]_vars => IInv'
BY NextTypeOK, NextJobsOK, NextTracesLeft, NextAssetsAreProven, NextOneWork DEF IInv

\* The inductive invariant of registration.
THEOREM Invariance == Spec => []IInv
<1>1. Init => IInv
  BY InitIInv
<1>2. IInv /\ [Next]_vars => IInv'
  BY NextIInv
<1>3. QED
  BY <1>1, <1>2, PTL DEF Spec

\* Rows keep their types under every interleaving of saves, confirmations, uploads,
\* deletions and crashes.
THEOREM TypeCorrect == Spec => []TypeOK
<1>1. IInv => TypeOK
  BY DEF IInv
<1>2. QED
  BY <1>1, Invariance, PTL

\* Every work in the shop is anchored, certified and stored, for any number of works and
\* concurrent requests: whatever fails on the way to the insert leaves no row.
THEOREM ShopIsProven == Spec => []AssetsAreProven
<1>1. IInv => AssetsAreProven
  BY DEF IInv
<1>2. QED
  BY <1>1, Invariance, PTL

\* A confirmation token registers at most one work, although nothing uses it up before
\* the registration ends: all its bearers carry the same files, whose hash is unique.
THEOREM OneTokenOneWork == Spec => []TokenRegistersOnce
<1>1. IInv => TokenRegistersOnce
  <2>1. ASSUME IInv, NEW a \in Assets, NEW b \in Assets, assets[a] # None, assets[b] # None,
               assets[a].token # None, assets[a].token = assets[b].token
        PROVE  a = b
    <3>1. Bears(assets[a].token, assets[a].work) /\ Bears(assets[a].token, assets[b].work)
      BY <2>1 DEF Bears
    <3>2. assets[a].token \in Tokens /\ assets[a].work \in Works /\ assets[b].work \in Works
      BY <2>1 DEF IInv, TypeOK, Asset
    <3>3. assets[a].work = assets[b].work
      BY <2>1, <3>1, <3>2 DEF IInv, OneWork
    <3>4. QED
      BY <2>1, <3>3 DEF IInv, WorksApart
  <2>2. QED
    BY <2>1 DEF TokenRegistersOnce
<1>2. QED
  BY <1>1, Invariance, PTL

----------------------------------------------------------------------------
(***************************************************************************)
(* One worker: requests run one after the other, so what a request has     *)
(* read is still so when it writes, and every bearer of a token bears it   *)
(* with what the creator was shown.  Only deletions come in between.       *)
(***************************************************************************)

\* Token k was issued when the creator was shown the files w and the terms t.
AsShown(k, w, t) == shown[k] # None /\ shown[k].file = w /\ shown[k].terms = t

\* Only workers run, and what is answered is forgotten.
WorkersRun ==
    \A r \in Requests : /\ pc[r] # "idle" => r \in workers
                        /\ pc[r] = "idle" => job[r] = NoJob

\* A confirmation shows what the draft still says.
ConfirmsCurrent ==
    \A r \in Requests : pc[r] = "confirming" =>
        LET d == job[r].draft
        IN  job[r].copy.file = drafts[d].file /\ job[r].copy.terms = drafts[d].terms

\* Rows and requests that bear a token bear it with what was shown.
DraftsAsShown ==
    \A d \in Drafts : drafts[d] # None /\ drafts[d].token # None =>
        AsShown(drafts[d].token, drafts[d].file, drafts[d].terms)
JobsAsShown ==
    \A r \in Requests : job[r].token # None => AsShown(job[r].token, job[r].work, job[r].terms)
AssetsAsShown ==
    \A a \in Assets : assets[a] # None /\ assets[a].token # None =>
        AsShown(assets[a].token, assets[a].work, assets[a].terms)

\* The draft of a registration stays as it was consumed, up to the link of an older asset.
DraftIsHeld ==
    \A r \in Requests : pc[r] \in Fallible \cup {"marking"} /\ job[r].draft # None =>
        LET d == job[r].draft
        IN  drafts[d].token = job[r].token /\ drafts[d].file = job[r].work

\* Asset a, if it is there, is the one registered with token k and the files w.
IsAssetOf(a, k, w) == assets[a] # None => assets[a].token = k /\ assets[a].work = w

MarksItsAsset ==
    \A r \in Requests : pc[r] = "marking" => IsAssetOf(job[r].asset, job[r].token, job[r].work)

LinkedIsOwn ==
    \A d \in Drafts : drafts[d] # None /\ drafts[d].status = "executed" /\ drafts[d].asset # None =>
        /\ assets[drafts[d].asset] # None
        /\ IsAssetOf(drafts[d].asset, drafts[d].token, drafts[d].file)

InOrder ==
    /\ ConfirmsCurrent
    /\ DraftsAsShown
    /\ JobsAsShown
    /\ AssetsAsShown
    /\ DraftIsHeld
    /\ MarksItsAsset
    /\ LinkedIsOwn

OneInv == WorkersRun /\ (Cardinality(workers) = 1 => InOrder)

\* The invariant of one worker holds before the first draft.
LEMMA InitOneInv == Init => OneInv
<1> SUFFICES ASSUME Init PROVE OneInv
  OBVIOUS
<1> USE RegistrationNone DEF Init, NoJob
<1>1. WorkersRun
  BY DEF WorkersRun
<1>2. ConfirmsCurrent /\ DraftsAsShown /\ JobsAsShown /\ AssetsAsShown
  BY DEF ConfirmsCurrent, DraftsAsShown, JobsAsShown, AssetsAsShown
<1>3. DraftIsHeld /\ MarksItsAsset /\ LinkedIsOwn
  BY DEF DraftIsHeld, MarksItsAsset, LinkedIsOwn, Fallible
<1>4. QED
  BY <1>1, <1>2, <1>3 DEF OneInv, InOrder

\* Every step keeps requests to the workers there are.
LEMMA NextWorkersRun == IInv /\ WorkersRun /\ [Next]_vars => WorkersRun'
<1> SUFFICES ASSUME IInv, WorkersRun, [Next]_vars, NEW q \in Requests
             PROVE  /\ pc'[q] # "idle" => q \in workers'
                    /\ pc'[q] = "idle" => job'[q] = NoJob
  BY DEF WorkersRun
<1> USE DEF IInv, TypeOK, JobsOK, Goto, Answer, WorkersRun
<1>1. ASSUME NEW r \in Requests, Client(r) 
      PROVE  /\ pc'[q] # "idle" => q \in workers'
             /\ pc'[q] = "idle" => job'[q] = NoJob
  BY <1>1 DEF Client, NewDraft, BeginSave, BeginConfirm, RegisterForm, RegisterDraft, Free
<1>2. ASSUME NEW r \in Requests, Worker(r) \/ Crash(r)
      PROVE  /\ pc'[q] # "idle" => q \in workers'
             /\ pc'[q] = "idle" => job'[q] = NoJob
  <2>1. UNCHANGED workers
    BY <1>2 DEF Worker, EndSave, EndConfirm, Check, Prepare, Anchor, Certify, Store, External, Insert,
                Mark, Crash
  <2>2. CASE EndSave(r) \/ EndConfirm(r) \/ Mark(r) \/ Crash(r)
    BY <2>1, <2>2 DEF EndSave, EndConfirm, Mark, Crash, Fail
  <2>3. CASE Check(r) \/ Anchor(r) \/ Certify(r) \/ Store(r) \/ Insert(r)
    BY <2>1, <2>3 DEF Check, Prepare, Anchor, Certify, Store, External, Insert, Fail
  <2>4. QED
    BY <1>2, <2>2, <2>3 DEF Worker
<1>3. QED
  BY <1>1, <1>2 DEF Next, Delete, vars

\* The others have nothing to do while the worker runs a request.
LEMMA OthersRest ==
  ASSUME IInv, WorkersRun, Cardinality(workers) = 1, NEW r \in workers, NEW q \in Requests, q # r
  PROVE  pc[q] = "idle" /\ job[q] = NoJob
<1>1. IsFiniteSet(workers)
  BY RequestsAssumption, FS_Subset DEF IInv, TypeOK
<1>2. PICK w : workers = {w}
  BY <1>1, FS_Singleton
<1>3. QED
  BY <1>2 DEF WorkersRun

\* Requests come and go one at a time: only request r has to be looked at after its step.
LEMMA OnlyOneMoves ==
  ASSUME IInv, WorkersRun, Cardinality(workers) = 1, [Next]_vars,
         NEW r \in Requests, Client(r) \/ Worker(r) \/ Crash(r), NEW q \in Requests, q # r
  PROVE  pc'[q] = "idle" /\ job'[q] = NoJob
<1> USE DEF IInv, TypeOK, JobsOK, Goto, Answer
<1>1. r \in workers
  <2>1. CASE Client(r)
    BY <2>1 DEF Client, NewDraft, BeginSave, BeginConfirm, RegisterForm, RegisterDraft, Free
  <2>2. CASE Worker(r) \/ Crash(r)
    BY <2>2 DEF Worker, EndSave, EndConfirm, Check, Anchor, Certify, Store, External, Insert, Mark,
                Crash, Running, WorkersRun
  <2>3. QED
    BY <2>1, <2>2
<1>2. pc[q] = "idle" /\ job[q] = NoJob
  BY <1>1, OthersRest
<1>3. CASE Client(r)
  BY <1>2, <1>3 DEF Client, NewDraft, BeginSave, BeginConfirm, RegisterForm, RegisterDraft
<1>4. CASE EndSave(r) \/ EndConfirm(r) \/ Mark(r) \/ Crash(r)
  BY <1>2, <1>4 DEF EndSave, EndConfirm, Mark, Crash, Fail
<1>5. CASE Check(r) \/ Anchor(r) \/ Certify(r) \/ Store(r) \/ Insert(r)
  BY <1>2, <1>5 DEF Check, Prepare, Anchor, Certify, Store, External, Insert, Fail
<1>6. QED
  BY <1>3, <1>4, <1>5 DEF Worker

\* Every step of one worker, and every deletion in between, keeps what was shown in order.
LEMMA NextInOrder ==
  ASSUME IInv, OneInv, Cardinality(workers) = 1, [Next]_vars
  PROVE  InOrder'
<1> USE RegistrationNone, RowsAssumption
<1>0. InOrder /\ WorkersRun /\ TypeOK /\ JobsOK
  BY DEF OneInv, IInv
<1>a. ASSUME NEW r \in Requests, Client(r) \/ Worker(r) \/ Crash(r), NEW q \in Requests, q # r
      PROVE  pc'[q] = "idle" /\ job'[q].token = None /\ job'[q].draft = None
  BY <1>0, <1>a, OnlyOneMoves DEF NoJob
<1>1. ASSUME NEW r \in Requests, NEW d \in Drafts, NEW w \in Works \cup {None},
             NEW t \in Terms \cup {None}, NewDraft(r, d, w, t)
      PROVE  InOrder'
  <2> DEFINE row == [Blank EXCEPT !.file = w, !.terms = t]
  <2>1. row.token = None /\ row.status = "collecting"
    BY DEF Blank
  <2>2. \A e \in Drafts : drafts'[e] # None => drafts'[e] = drafts[e] \/ drafts'[e] = row
    BY <1>0, <1>1 DEF NewDraft, TypeOK
  <2>3. \A e \in Drafts : drafts[e] # None => drafts'[e] = drafts[e]
    BY <1>0, <1>1 DEF NewDraft, TypeOK
  <2> HIDE DEF row
  <2>4. ConfirmsCurrent' /\ DraftIsHeld'
    BY <1>0, <1>1, <2>3 DEF NewDraft, InOrder, ConfirmsCurrent, DraftIsHeld, IInv, DraftsExist, JobsOK, Job, Holds
  <2>5. DraftsAsShown' /\ LinkedIsOwn'
    <3>1. DraftsAsShown /\ LinkedIsOwn /\ UNCHANGED <<shown, assets>>
      BY <1>0, <1>1 DEF NewDraft, InOrder
    <3>2. DraftsAsShown'
      BY <2>1, <2>2, <3>1 DEF DraftsAsShown, AsShown
    <3>3. LinkedIsOwn'
      BY <2>1, <2>2, <3>1 DEF LinkedIsOwn, IsAssetOf
    <3>4. QED
      BY <3>2, <3>3
  <2>6. JobsAsShown' /\ AssetsAsShown' /\ MarksItsAsset'
    BY <1>0, <1>1 DEF NewDraft, InOrder, JobsAsShown, AssetsAsShown, AsShown, MarksItsAsset, IsAssetOf
  <2>7. QED
    BY <2>4, <2>5, <2>6 DEF InOrder
<1>2. ASSUME NEW r \in Requests, NEW d \in Drafts, NEW w \in Works \cup {None},
             NEW t \in Terms \cup {None}, BeginSave(r, d, w, t)
      PROVE  InOrder'
  <2>1. pc'[r] = "saving" /\ job'[r].token = None /\ UNCHANGED <<drafts, shown, assets>>
    BY <1>0, <1>2 DEF BeginSave, Goto, TypeOK, JobsOK, NoJob
  <2>2. \A q \in Requests : pc'[q] \in {"idle", "saving"} /\ job'[q].token = None
    BY <1>2, <1>a, <2>1 DEF Client
  <2>3. QED
    BY <1>0, <2>1, <2>2 DEF InOrder, ConfirmsCurrent, DraftsAsShown, JobsAsShown, AssetsAsShown,
                            DraftIsHeld, MarksItsAsset, LinkedIsOwn, AsShown, IsAssetOf, Fallible
<1>3. ASSUME NEW r \in Requests, EndSave(r) PROVE InOrder'
  <2>1. pc'[r] = "idle" /\ job'[r].token = None /\ UNCHANGED <<shown, assets>>
    BY <1>0, <1>3 DEF EndSave, Answer, Goto, TypeOK, JobsOK, NoJob
  <2>2. \A q \in Requests : pc'[q] = "idle" /\ job'[q].token = None
    BY <1>3, <1>a, <2>1 DEF Worker
  <2>3. Saved(job[r]).token = None /\ Saved(job[r]).status = "collecting"
    BY <1>0, <1>3 DEF EndSave, JobsOK, Holds, Saved, Draft
  <2>4. \A e \in Drafts : drafts'[e] = drafts[e] \/ drafts'[e] = Saved(job[r])
    BY <1>0, <1>3 DEF EndSave, TypeOK
  <2>5. QED
    BY <1>0, <2>1, <2>2, <2>3, <2>4 DEF InOrder, ConfirmsCurrent, DraftsAsShown, JobsAsShown,
          AssetsAsShown, DraftIsHeld, MarksItsAsset, LinkedIsOwn, AsShown, IsAssetOf, Fallible
<1>4. ASSUME NEW r \in Requests, NEW d \in Drafts, BeginConfirm(r, d) PROVE InOrder'
  <2>1. /\ pc'[r] = "confirming" /\ job'[r].token = None /\ job'[r].draft = d
        /\ job'[r].copy = drafts[d] /\ UNCHANGED <<drafts, shown, assets>>
    BY <1>0, <1>4 DEF BeginConfirm, Goto, TypeOK, JobsOK, NoJob
  <2>2. \A q \in Requests : (q = r \/ pc'[q] = "idle") /\ job'[q].token = None
    BY <1>4, <1>a, <2>1 DEF Client
  <2>3. QED
    BY <1>0, <2>1, <2>2 DEF InOrder, ConfirmsCurrent, DraftsAsShown, JobsAsShown, AssetsAsShown,
                            DraftIsHeld, MarksItsAsset, LinkedIsOwn, AsShown, IsAssetOf, Fallible
<1>5. ASSUME NEW r \in Requests, EndConfirm(r) PROVE InOrder'
  <2> DEFINE d == job[r].draft
             seen == [file |-> job[r].copy.file, terms |-> job[r].copy.terms]
  <2>1. PICK k \in FreshTokens :
              /\ drafts' = [drafts EXCEPT ![d].status = "confirmed", ![d].token = k]
              /\ shown' = [x \in Tokens |-> IF x = k THEN seen
                                            ELSE IF x \in FreshTokens THEN None ELSE shown[x]]
    BY <1>5 DEF EndConfirm
  <2>2. pc'[r] = "idle" /\ job'[r].token = None /\ UNCHANGED assets
    BY <1>0, <1>5 DEF EndConfirm, Answer, Goto, TypeOK, JobsOK, NoJob
  <2>3. \A q \in Requests : pc'[q] = "idle" /\ job'[q].token = None
    BY <1>5, <1>a, <2>2 DEF Worker
  <2>4. d \in Drafts /\ drafts[d] \in Draft
    BY <1>0, <1>5 DEF EndConfirm, JobsOK, Holds, IInv, DraftsExist, TypeOK
  <2>5. /\ drafts'[d].status = "confirmed" /\ drafts'[d].token = k
        /\ drafts'[d].file = drafts[d].file /\ drafts'[d].terms = drafts[d].terms
        /\ \A e \in Drafts : e # d => drafts'[e] = drafts[e]
    BY <1>0, <2>1, <2>4 DEF TypeOK, Draft
  <2>6. seen \in Shown /\ seen.file = drafts[d].file /\ seen.terms = drafts[d].terms
    BY <1>0, <1>5, <2>4 DEF EndConfirm, InOrder, ConfirmsCurrent, JobsOK, Holds, Ready, Draft, Shown
  <2>7. k \in Tokens /\ shown'[k] = seen /\ seen # None
    BY <2>1, <2>6 DEF FreshTokens
  <2>8. \A x \in Tokens \ FreshTokens : shown'[x] = shown[x]
    BY <2>1
  <2> HIDE DEF d, seen
  <2>9. DraftsAsShown'
    <3>1. ASSUME NEW e \in Drafts, e # d, drafts[e] # None, drafts[e].token # None
          PROVE  AsShown(drafts[e].token, drafts[e].file, drafts[e].terms)'
      <4>1. drafts[e].token \in Tokens \ FreshTokens
        BY <1>0, <3>1 DEF TypeOK, Draft, FreshTokens
      <4>2. AsShown(drafts[e].token, drafts[e].file, drafts[e].terms)
        BY <1>0, <3>1 DEF InOrder, DraftsAsShown
      <4>3. QED
        BY <2>5, <2>8, <3>1, <4>1, <4>2 DEF AsShown
    <3>2. QED
      BY <2>4, <2>5, <2>6, <2>7, <3>1 DEF DraftsAsShown, AsShown
  <2>10. AssetsAsShown'
    <3>1. ASSUME NEW a \in Assets, assets[a] # None, assets[a].token # None
          PROVE  assets[a].token \in Tokens \ FreshTokens
      BY <1>0, <3>1 DEF TypeOK, Asset, FreshTokens
    <3>2. QED
      BY <1>0, <2>2, <2>8, <3>1 DEF InOrder, AssetsAsShown, AsShown
  <2>11. LinkedIsOwn'
    BY <1>0, <2>2, <2>4, <2>5 DEF InOrder, LinkedIsOwn, IsAssetOf
  <2>12. QED
    BY <2>3, <2>9, <2>10, <2>11 DEF InOrder, ConfirmsCurrent, JobsAsShown, DraftIsHeld,
                                    MarksItsAsset, Fallible
<1>6. ASSUME NEW r \in Requests, NEW w \in Works, NEW t \in Terms, RegisterForm(r, w, t)
      PROVE  InOrder'
  <2>1. /\ pc'[r] = "checking" /\ job'[r].token = None /\ job'[r].draft = None
        /\ UNCHANGED <<drafts, shown, assets>>
    BY <1>0, <1>6 DEF RegisterForm, Goto, TypeOK, JobsOK, NoJob
  <2>2. \A q \in Requests : /\ pc'[q] \in {"idle", "checking"}
                             /\ job'[q].token = None /\ job'[q].draft = None
    BY <1>6, <1>a, <2>1 DEF Client
  <2>3. QED
    BY <1>0, <2>1, <2>2 DEF InOrder, ConfirmsCurrent, DraftsAsShown, JobsAsShown, AssetsAsShown,
                            DraftIsHeld, MarksItsAsset, LinkedIsOwn, AsShown, IsAssetOf
<1>7. ASSUME NEW r \in Requests, NEW d \in Drafts, NEW k \in Tokens, NEW w \in Works,
             RegisterDraft(r, d, k, w)
      PROVE  InOrder'
  <2>1. PICK a \in FreshAssets :
              job' = [job EXCEPT ![r] = [NoJob EXCEPT !.draft = d, !.token = k, !.work = w,
                                                      !.terms = drafts[d].terms, !.asset = a]]
    BY <1>7, ZenonT(30) DEF RegisterDraft
  <2>2. /\ job'[r].token = k /\ job'[r].draft = d /\ job'[r].work = w
        /\ job'[r].terms = drafts[d].terms
    BY <1>0, <2>1 DEF JobsOK, NoJob
  <2>3. pc'[r] = "checking" /\ UNCHANGED <<drafts, shown, assets>>
    BY <1>0, <1>7 DEF RegisterDraft, Goto, TypeOK
  <2>4. \A q \in Requests : q # r => /\ pc'[q] = "idle" /\ job'[q].token = None
    BY <1>7, <1>a DEF Client
  <2>5. drafts[d] # None /\ drafts[d].token = k /\ drafts[d].file = w
    BY <1>7 DEF RegisterDraft, Consumable
  <2>6. AsShown(k, w, drafts[d].terms)
    BY <1>0, <2>5 DEF InOrder, DraftsAsShown
  <2>7. JobsAsShown'
    BY <2>2, <2>3, <2>4, <2>6 DEF JobsAsShown, AsShown
  <2>8. DraftIsHeld'
    BY <2>2, <2>3, <2>4, <2>5 DEF DraftIsHeld, Fallible
  <2>9. ConfirmsCurrent' /\ MarksItsAsset'
    BY <2>3, <2>4 DEF ConfirmsCurrent, MarksItsAsset
  <2>10. DraftsAsShown' /\ AssetsAsShown' /\ LinkedIsOwn'
    BY <1>0, <2>3 DEF InOrder, DraftsAsShown, AssetsAsShown, LinkedIsOwn, AsShown, IsAssetOf
  <2>11. QED
    BY <2>7, <2>8, <2>9, <2>10 DEF InOrder
<1>8. ASSUME NEW r \in Requests, UNCHANGED <<drafts, shown, assets>>,
             Worker(r) \/ Crash(r), job'[r] = NoJob /\ pc'[r] = "idle"
      PROVE  InOrder'
  <2>1. \A q \in Requests : pc'[q] = "idle" /\ job'[q].token = None
    BY <1>8, <1>a DEF NoJob
  <2>2. QED
    BY <1>0, <1>8, <2>1 DEF InOrder, ConfirmsCurrent, DraftsAsShown, JobsAsShown, AssetsAsShown,
                            DraftIsHeld, MarksItsAsset, LinkedIsOwn, AsShown, IsAssetOf, Fallible
<1>9. ASSUME NEW r \in Requests, UNCHANGED <<drafts, shown, assets>>, Worker(r),
             job'[r] = job[r], pc[r] \in Fallible, pc'[r] \in Fallible
      PROVE  InOrder'
  <2>1. \A q \in Requests : q # r => pc'[q] = "idle" /\ job'[q].token = None
    BY <1>9, <1>a
  <2>2. QED
    BY <1>0, <1>9, <2>1 DEF InOrder, ConfirmsCurrent, DraftsAsShown, JobsAsShown, AssetsAsShown,
                            DraftIsHeld, MarksItsAsset, LinkedIsOwn, AsShown, IsAssetOf, Fallible
<1>10. ASSUME NEW r \in Requests, Check(r) \/ Anchor(r) \/ Certify(r) \/ Store(r) \/ Crash(r)
       PROVE  InOrder'
  <2>1. UNCHANGED <<drafts, shown, assets>>
    BY <1>10 DEF Check, Anchor, Certify, Store, External, Crash
  <2>2. CASE Fail(r)
    BY <1>0, <1>8, <1>10, <2>1, <2>2 DEF Fail, Answer, Goto, TypeOK, JobsOK, Worker
  <2>3. CASE ~Fail(r)
    <3>1. job'[r] = job[r] /\ pc[r] \in Fallible /\ pc'[r] \in Fallible
      BY <1>0, <1>10, <2>3 DEF Check, Prepare, Anchor, Certify, Store, External, Crash, Goto, TypeOK, Fallible
    <3>2. ~Crash(r)
      BY <2>3 DEF Crash
    <3>3. QED
      BY <1>9, <1>10, <2>1, <3>1, <3>2 DEF Worker
  <2>4. QED
    BY <2>2, <2>3
<1>11. ASSUME NEW r \in Requests, Insert(r) PROVE InOrder'
  <2> DEFINE j == job[r]
             row == [work |-> j.work, terms |-> j.terms, token |-> j.token]
  <2>1. CASE Fail(r) /\ UNCHANGED assets
    BY <1>0, <1>8, <1>11, <2>1 DEF Insert, Fail, Answer, Goto, TypeOK, JobsOK, Worker
  <2>2. CASE assets' = [assets EXCEPT ![j.asset] = row]
    <3>1. j.asset \in Assets /\ assets[j.asset] = None /\ UNCHANGED <<drafts, shown>>
      BY <1>0, <1>11 DEF Insert, JobsOK, Holds, Fallible, IInv, TracesLeft
    <3>2. \A a \in Assets : assets'[a] = IF a = j.asset THEN row ELSE assets[a]
      BY <1>0, <2>2, <3>1 DEF TypeOK
    <3>3. \/ job'[r] = NoJob /\ pc'[r] = "idle"
          \/ job'[r] = job[r] /\ pc'[r] = "marking"
      BY <1>0, <1>11, <2>2 DEF Insert, Fail, Answer, Goto, TypeOK, JobsOK
    <3>4. \A q \in Requests : q # r => pc'[q] = "idle" /\ job'[q].token = None
      BY <1>11, <1>a DEF Worker
    <3>5. pc[r] = "inserting"
      BY <1>11 DEF Insert
    <3>6. JobsAsShown' /\ ConfirmsCurrent' /\ DraftIsHeld' /\ DraftsAsShown'
      BY <1>0, <3>1, <3>3, <3>4, <3>5 DEF InOrder, JobsAsShown, ConfirmsCurrent, DraftIsHeld,
                                          DraftsAsShown, AsShown, NoJob, Fallible
    <3>7. AssetsAsShown'
      BY <1>0, <3>1, <3>2 DEF InOrder, JobsAsShown, AssetsAsShown, AsShown
    <3>8. MarksItsAsset'
      BY <3>1, <3>2, <3>3, <3>4 DEF MarksItsAsset, IsAssetOf
    <3>9. LinkedIsOwn'
      BY <1>0, <3>1, <3>2 DEF InOrder, LinkedIsOwn, IsAssetOf, TypeOK, Draft
    <3>10. QED
      BY <3>6, <3>7, <3>8, <3>9 DEF InOrder
  <2>3. QED
    BY <1>11, <2>1, <2>2 DEF Insert
<1>12. ASSUME NEW r \in Requests, Mark(r) PROVE InOrder'
  <2> DEFINE d == job[r].draft
  <2>1. pc'[r] = "idle" /\ job'[r] = NoJob /\ UNCHANGED <<shown, assets>>
    BY <1>0, <1>12 DEF Mark, Answer, Goto, TypeOK, JobsOK
  <2>2. CASE UNCHANGED drafts
    BY <1>8, <1>12, <2>1, <2>2 DEF Worker
  <2>3. CASE /\ drafts' = [drafts EXCEPT ![d].status = "executed", ![d].asset = job[r].asset]
             /\ assets[job[r].asset] # None
    <3>1. d \in Drafts /\ drafts[d] \in Draft /\ d # None
      BY <1>0, <1>12 DEF Mark, JobsOK, Holds, IInv, DraftsExist, TypeOK
    <3>2. /\ drafts'[d].token = drafts[d].token /\ drafts'[d].asset = job[r].asset
          /\ drafts'[d].file = drafts[d].file /\ drafts'[d].terms = drafts[d].terms
          /\ \A e \in Drafts : e # d => drafts'[e] = drafts[e]
      BY <1>0, <2>3, <3>1 DEF TypeOK, Draft
    <3>3. drafts[d].token = job[r].token /\ drafts[d].file = job[r].work
      BY <1>0, <1>12, <3>1 DEF Mark, InOrder, DraftIsHeld
    <3>4. IsAssetOf(job[r].asset, drafts[d].token, drafts[d].file)
      BY <1>0, <1>12, <3>3 DEF Mark, InOrder, MarksItsAsset
    <3>5. \A q \in Requests : pc'[q] = "idle" /\ job'[q].token = None
      BY <1>12, <1>a, <2>1 DEF Worker, NoJob
    <3>6. LinkedIsOwn'
      <4>1. LinkedIsOwn /\ UNCHANGED assets
        BY <1>0, <2>1 DEF InOrder
      <4>2. assets[job[r].asset] # None
        BY <2>3
      <4>3. QED
        BY <3>2, <3>4, <4>1, <4>2 DEF LinkedIsOwn, IsAssetOf
    <3>7. DraftsAsShown'
      BY <1>0, <2>1, <3>1, <3>2 DEF InOrder, DraftsAsShown, AsShown
    <3>8. AssetsAsShown'
      BY <1>0, <2>1 DEF InOrder, AssetsAsShown, AsShown
    <3>9. QED
      BY <3>5, <3>6, <3>7, <3>8 DEF InOrder, ConfirmsCurrent, JobsAsShown, DraftIsHeld,
                                    MarksItsAsset, Fallible
  <2>4. QED
    BY <1>12, <2>2, <2>3 DEF Mark
<1>13. ASSUME NEW a \in Assets, Delete(a) PROVE InOrder'
  <2>1. UNCHANGED <<shown, pc, job>> /\ \A b \in Assets : assets'[b] = IF b = a THEN None ELSE assets[b]
    BY <1>0, <1>13 DEF Delete, TypeOK
  <2>2. \A d \in Drafts :
           /\ drafts[d] = None <=> drafts'[d] = None
           /\ drafts[d] # None => /\ drafts'[d].status = drafts[d].status
                                  /\ drafts'[d].token = drafts[d].token
                                  /\ drafts'[d].file = drafts[d].file
                                  /\ drafts'[d].terms = drafts[d].terms
                                  /\ drafts'[d].asset = IF drafts[d].asset = a THEN None ELSE drafts[d].asset
    BY <1>0, <1>13 DEF Delete, TypeOK, Draft
  <2>3. ConfirmsCurrent' /\ DraftIsHeld'
    BY <1>0, <2>1, <2>2 DEF InOrder, ConfirmsCurrent, DraftIsHeld, IInv, DraftsExist, JobsOK, Holds, Job
  <2>4. DraftsAsShown' /\ LinkedIsOwn'
    BY <1>0, <2>1, <2>2 DEF InOrder, DraftsAsShown, AsShown, LinkedIsOwn, IsAssetOf, TypeOK, Draft
  <2>5. JobsAsShown' /\ AssetsAsShown' /\ MarksItsAsset'
    BY <1>0, <2>1 DEF InOrder, JobsAsShown, AssetsAsShown, AsShown, MarksItsAsset, IsAssetOf, JobsOK, Holds
  <2>6. QED
    BY <2>3, <2>4, <2>5 DEF InOrder
<1>14. CASE UNCHANGED vars
  BY <1>0, <1>14 DEF vars, InOrder, ConfirmsCurrent, DraftsAsShown, JobsAsShown, AssetsAsShown,
                     DraftIsHeld, MarksItsAsset, LinkedIsOwn, AsShown, IsAssetOf
<1>15. QED
  BY <1>1, <1>2, <1>3, <1>4, <1>5, <1>6, <1>7, <1>10, <1>11, <1>12, <1>13, <1>14
     DEF Next, Client, Worker

\* With one worker a work registered with a token has the files and terms its creator was
\* shown, and an executed draft is linked to the work registered with it, in any order of
\* saves, confirmations, uploads with old tokens, deletions and crashes.
THEOREM OneWorkerIsEnough == Spec => []OneWorkerRegistersAsConfirmed
<1>1. IInv /\ OneInv /\ [Next]_vars => OneInv'
  <2>1. SUFFICES ASSUME IInv, OneInv, [Next]_vars PROVE OneInv'
    OBVIOUS
  <2>2. UNCHANGED workers
    BY <2>1, ZenonT(30)
       DEF Next, Client, Worker, NewDraft, BeginSave, EndSave, BeginConfirm, EndConfirm, RegisterForm,
           RegisterDraft, Check, Anchor, Certify, Store, External, Insert, Mark, Crash, Delete, vars
  <2>3. QED
    BY <2>1, <2>2, NextWorkersRun, NextInOrder DEF OneInv
<1>2. IInv /\ OneInv => OneWorkerRegistersAsConfirmed
  BY DEF IInv, OneInv, InOrder, AssetsAsShown, AsShown, LinkedIsOwn, IsAssetOf,
         OneWorkerRegistersAsConfirmed, RegisteredAsConfirmed
<1>3. QED
  BY <1>1, <1>2, InitOneInv, Invariance, PTL DEF Spec
=============================================================================
