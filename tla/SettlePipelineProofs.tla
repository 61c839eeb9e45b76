------------------------ MODULE SettlePipelineProofs ------------------------
(***************************************************************************)
(* Proofs that the settlement pipeline licenses, certifies and distributes *)
(* only what was paid, for any number of payments, works and concurrent    *)
(* requests, while prices move, works and parents are deleted and workers  *)
(* die.                                                                    *)
(*                                                                         *)
(* A request checks the payment once and then trusts the copy it holds.    *)
(* That is sound because a confirmed transaction never changes, and        *)
(* because a work may lose its parent but never gets one.                  *)
(***************************************************************************)
EXTENDS SettlePipeline, TLAPS

\* A memo is there exactly when the payment is native SOL.
MemosAreSol ==
    \A s \in Sigs : chain[s] # None => (chain[s].memo = None <=> chain[s].currency = "USDC")

\* What a request at point p knows: the parent it read is one of the registration, it
\* has checked its payment, holds a License, and distributes for a derivative work only.
JobIsSound(j) ==
    /\ j.derived => j.asset \in Derivatives
    /\ j.asset \in derived => j.derived
    /\ j.asset \notin Derivatives => ~j.derived
    /\ j.at # "verify" => Matches(j)
    /\ j.at = "save" => j.cert \in Nat
    /\ j.at \in {"certify", "save", "read", "send", "record"} => j.held \in Assets
    /\ j.at \in {"read", "send", "record"} => j.derived
    /\ j.at = "record" /\ j.sent => transfers[<<j.sig, j.role>>] > 0

JobsAreSound == \A r \in Requests : req[r] # None => JobIsSound(req[r])

IInv ==
    /\ TypeOK
    /\ certs \in Seq([asset: Assets, sig: Sigs])
    /\ MemosAreSol
    /\ JobsAreSound
    /\ LicenseIsPaid
    /\ CertificatesArePaid
    /\ SettledLegsWereSent

----------------------------------------------------------------------------

\* The invariant holds before the first request.
LEMMA InitIInv == Init => IInv
<1> SUFFICES ASSUME Init PROVE IInv
  OBVIOUS
<1>1. TypeOK /\ certs \in Seq([asset: Assets, sig: Sigs])
  BY DerivativesAssumption, BoundsAssumption DEF Init, TypeOK
<1>2. MemosAreSol /\ JobsAreSound /\ LicenseIsPaid /\ CertificatesArePaid
  BY DEF Init, MemosAreSol, JobsAreSound, LicenseIsPaid, CertificatesArePaid
<1>3. SettledLegsWereSent
  BY DEF Init, SettledLegsWereSent, Roles
<1>4. QED
  BY <1>1, <1>2, <1>3 DEF IInv

----------------------------------------------------------------------------
(***************************************************************************)
(* Each part of the state, and the steps that change it.                   *)
(***************************************************************************)

\* The world moves one way: transactions stay, parents and works go.
LEMMA WorkersLeaveWorld ==
  ASSUME NEW r \in Requests, Worker(r) \/ Crash(r)
  PROVE  UNCHANGED world
BY DEF Worker, Verify, Look, Insert, Certify, Memo, SaveCertificate, Royalty, ReadLeg, Transfer,
       RecordLeg, Crash

\* Payments stay as they are, works and parents only vanish.
LEMMA WorldMoves ==
  ASSUME IInv, [Next]_vars
  PROVE  /\ derived' \subseteq derived
         /\ live' \subseteq live
         /\ \A s \in Sigs : chain[s] # None => chain'[s] = chain[s]
         /\ price' \in [Assets -> Amounts]
         /\ chain' \in [Sigs -> Tx \cup {None}]
         /\ MemosAreSol'
<1> USE DEF IInv, TypeOK, MemosAreSol
<1>1. ASSUME NEW s \in Sigs, NEW t \in Tx, Pay(s, t)
      PROVE  /\ \A x \in Sigs : chain[x] # None => chain'[x] = chain[x]
             /\ chain' \in [Sigs -> Tx \cup {None}]
             /\ MemosAreSol'
             /\ UNCHANGED <<derived, live, price>>
  BY <1>1 DEF Pay
<1>2. ASSUME NEW a \in Assets, Delete(a) \/ Orphan(a) \/ \E m \in Amounts : Reprice(a, m)
      PROVE  /\ derived' \subseteq derived
             /\ live' \subseteq live
             /\ price' \in [Assets -> Amounts]
             /\ UNCHANGED chain
  BY <1>2 DEF Delete, Orphan, Reprice
<1>3. ASSUME UNCHANGED chain PROVE MemosAreSol'
  BY <1>3
<1>4. ASSUME UNCHANGED world PROVE UNCHANGED <<price, live, derived, chain>>
  BY <1>4 DEF world
<1>5. CASE UNCHANGED world
  BY <1>3, <1>4, <1>5
<1>6. ASSUME NEW r \in Requests, NEW c, NEW a, NEW s, NEW m, Receive(r, c, a, s, m)
      PROVE  UNCHANGED world
  BY <1>6 DEF Receive
<1>7. QED
  BY <1>1, <1>2, <1>3, <1>5, <1>6, WorkersLeaveWorld DEF Next, vars, world

\* What was sent stays sent.
LEMMA TransfersGrow ==
  ASSUME IInv, [Next]_vars
  PROVE  /\ transfers' \in [Sigs \X Roles -> Nat]
         /\ unheard' \in [Sigs \X Roles -> 0..MaxLost]
         /\ \A l \in Sigs \X Roles : transfers'[l] >= transfers[l]
<1>1. /\ transfers \in [Sigs \X Roles -> Nat] /\ unheard \in [Sigs \X Roles -> 0..MaxLost]
      /\ req \in [Requests -> Job \cup {None}]
  BY DEF IInv, TypeOK
<1>2. ASSUME NEW r \in Requests, NEW role \in Roles, Transfer(r, role)
      PROVE  /\ transfers' \in [Sigs \X Roles -> Nat]
             /\ unheard' \in [Sigs \X Roles -> 0..MaxLost]
             /\ \A l \in Sigs \X Roles : transfers'[l] >= transfers[l]
  <2>1. <<req[r].sig, role>> \in Sigs \X Roles
    BY <1>1, <1>2 DEF Transfer, Job
  <2>2. UNCHANGED transfers
        \/ transfers' = [transfers EXCEPT ![<<req[r].sig, role>>] = @ + 1]
    BY <1>2 DEF Transfer
  <2>3. \/ UNCHANGED unheard
        \/ /\ unheard[<<req[r].sig, role>>] < MaxLost
           /\ unheard' = [unheard EXCEPT ![<<req[r].sig, role>>] = @ + 1]
    BY <1>2 DEF Transfer
  <2>4. unheard' \in [Sigs \X Roles -> 0..MaxLost]
    BY <1>1, <2>1, <2>3, BoundsAssumption
  <2>5. QED
    BY <1>1, <2>1, <2>2, <2>4
<1>3. CASE UNCHANGED <<transfers, unheard>>
  <2>1. \A l \in Sigs \X Roles : transfers[l] \in Nat /\ transfers'[l] = transfers[l]
    BY <1>1, <1>3
  <2>2. QED
    BY <1>1, <1>3, <2>1
<1>4. \/ UNCHANGED <<transfers, unheard>>
      \/ \E r \in Requests, role \in Roles : Transfer(r, role)
  <2>1. ASSUME NEW r \in Requests, Worker(r) \/ Crash(r)
        PROVE  UNCHANGED <<transfers, unheard>> \/ \E role \in Roles : Transfer(r, role)
    BY <2>1, ZenonT(60)
       DEF Worker, Verify, Look, Insert, Certify, Memo, SaveCertificate, Royalty, ReadLeg, RecordLeg,
           Crash, tables
  <2>2. ASSUME NEW a \in Assets, NEW m, Delete(a) \/ Orphan(a) \/ Reprice(a, m)
        PROVE  UNCHANGED <<transfers, unheard>>
    BY <2>2 DEF Delete, Orphan, Reprice, tables
  <2>3. ASSUME NEW s, NEW t, Pay(s, t) PROVE UNCHANGED <<transfers, unheard>>
    BY <2>3 DEF Pay, tables
  <2>4. ASSUME NEW r \in Requests, NEW c, NEW a, NEW s, NEW m, Receive(r, c, a, s, m)
        PROVE  UNCHANGED <<transfers, unheard>>
    BY <2>4 DEF Receive, tables
  <2>5. UNCHANGED vars => UNCHANGED <<transfers, unheard>>
    BY DEF vars, tables
  <2>6. QED
    BY <2>1, <2>2, <2>3, <2>4, <2>5, ZenonT(60) DEF Next
<1>5. QED
  BY <1>2, <1>3, <1>4

\* What a request knows stays true.
LEMMA SoundStays ==
  ASSUME IInv, [Next]_vars, NEW j \in Job, JobIsSound(j)
  PROVE  JobIsSound(j)'
<1>1. Matches(j) => Matches(j)'
  BY WorldMoves DEF Matches, Job
<1>2. <<j.sig, j.role>> \in Sigs \X Roles
  BY DEF Job
<1>3. transfers[<<j.sig, j.role>>] > 0 => transfers'[<<j.sig, j.role>>] > 0
  BY <1>2, TransfersGrow DEF IInv, TypeOK
<1>4. QED
  BY <1>1, <1>3, WorldMoves DEF JobIsSound

\* A step of r answers r, or leaves it with a job that is as sound.
Goes(r, k) == req' = [req EXCEPT ![r] = k]

\* A request that begins holds a sound copy,
LEMMA Received ==
  ASSUME IInv, NEW r \in Requests, NEW c \in {"USDC", "SOL"}, NEW a \in Assets, NEW s \in Sigs,
         NEW m \in Amounts, Receive(r, c, a, s, m)
  PROVE  \E k \in Job : Goes(r, k) /\ JobIsSound(k)
<1> DEFINE k == [at |-> "verify", currency |-> c, asset |-> a, derived |-> a \in derived,
                 sig |-> s, amount |-> m, held |-> None, fresh |-> FALSE, cert |-> None,
                 role |-> "original", sent |-> FALSE]
<1>1. k \in Job
  BY DEF Job, Places, Roles
<1>2. JobIsSound(k)
  BY DEF JobIsSound, IInv, TypeOK
<1>3. QED
  BY <1>1, <1>2 DEF Goes, Receive

\* and one that goes on ends, or holds a sound copy again.
LEMMA Worked ==
  ASSUME IInv, [Next]_vars, NEW r \in Requests, Worker(r)
  PROVE  Goes(r, None) \/ \E k \in Job : Goes(r, k) /\ JobIsSound(k)'
<1> DEFINE j == req[r]
           Moved == Goes(r, None) \/ \E k \in Job : Goes(r, k) /\ JobIsSound(k)'
<1> USE DEF IInv, Goes, Goto, Answer
<1>1. j \in Job /\ JobIsSound(j)
  BY DEF Worker, Verify, Look, Insert, Certify, Memo, SaveCertificate, Royalty, ReadLeg, Transfer,
         RecordLeg, TypeOK, JobsAreSound
<1>2. ASSUME Answer(r) PROVE Moved
  BY <1>2
<1>3. ASSUME NEW k \in Job, JobIsSound(k), Goes(r, k) PROVE Moved
  BY <1>3, SoundStays
<1> USE DEF Job, Places, Roles, JobIsSound, Matches
<1>4. CASE Verify(r)
  <2> DEFINE k == [j EXCEPT !.at = "look"]
  <2>1. ASSUME Matches(j), Goto(r, "look") PROVE Moved
    <3>1. k \in Job /\ JobIsSound(k) /\ Goes(r, k)
      BY <1>1, <2>1
    <3>2. QED
      BY <1>3, <3>1
  <2>2. QED
    BY <1>2, <1>4, <2>1 DEF Verify
<1>5. CASE Look(r)
  <2> DEFINE l == licenses[j.sig]
             k == IF l = None THEN [j EXCEPT !.at = "insert"]
                  ELSE [j EXCEPT !.at = "certify", !.held = l.asset]
  <2>1. l \in License \cup {None} /\ j.at = "look"
    BY <1>1, <1>5 DEF Look, TypeOK
  <2>2. k \in Job /\ JobIsSound(k)
    BY <1>1, <2>1 DEF License
  <2>3. Goes(r, k)
    BY <1>1, <1>5 DEF Look, TypeOK
  <2> HIDE DEF k, Goes
  <2>4. QED
    BY <1>3, <2>2, <2>3
<1>6. CASE Insert(r)
  <2> DEFINE k == [j EXCEPT !.at = "certify", !.held = j.asset, !.fresh = TRUE]
  <2>1. k \in Job /\ JobIsSound(k)
    BY <1>1, <1>6 DEF Insert
  <2>2. Answer(r) \/ Goes(r, k)
    BY <1>1, <1>6 DEF Insert, TypeOK
  <2>3. QED
    BY <1>2, <1>3, <2>1, <2>2
<1>7. ASSUME AfterCertificate(r), j.at \in {"certify", "save"} PROVE Moved
  <2> DEFINE k == [j EXCEPT !.at = "read"]
  <2>1. ASSUME Distributes(j), Goto(r, "read") PROVE Moved
    <3>1. k \in Job /\ JobIsSound(k) /\ Goes(r, k)
      BY <1>1, <1>7, <2>1 DEF Distributes
    <3>2. QED
      BY <1>3, <3>1
  <2>2. QED
    BY <1>2, <1>7, <2>1 DEF AfterCertificate
<1>8. CASE Certify(r)
  <2>1. ASSUME NEW n \in Nat, Goes(r, [j EXCEPT !.at = "save", !.cert = n]) PROVE Moved
    <3> DEFINE k == [j EXCEPT !.at = "save", !.cert = n]
    <3>1. k \in Job /\ JobIsSound(k)
      BY <1>1, <1>8 DEF Certify, Memo
    <3>2. QED
      BY <1>3, <2>1, <3>1
  <2>2. Len(certs) + 1 \in Nat
    OBVIOUS
  <2>3. req' = [req EXCEPT ![r] = [j EXCEPT !.at = "save", !.cert = Len(certs) + 1]]
          \/ AfterCertificate(r)
    BY <1>1, <1>8 DEF Certify, Memo, TypeOK
  <2>4. QED
    BY <1>7, <1>8, <2>1, <2>2, <2>3 DEF Certify, Memo
<1>9. CASE SaveCertificate(r)
  BY <1>7, <1>9 DEF SaveCertificate
<1>10. ASSUME NEW role \in Roles, AfterLeg(r, role), j.at \in {"read", "record"} PROVE Moved
  <2> DEFINE k == [j EXCEPT !.at = "read", !.role = "secondary"]
  <2>1. ASSUME Goes(r, k) PROVE Moved
    <3>1. k \in Job /\ JobIsSound(k)
      BY <1>1, <1>10
    <3>2. QED
      BY <1>3, <2>1, <3>1
  <2>2. Answer(r) \/ Goes(r, k)
    BY <1>1, <1>10 DEF AfterLeg, TypeOK
  <2> HIDE DEF k, Goes, Answer, JobIsSound
  <2>3. QED
    BY <1>2, <2>1, <2>2
<1>11. ASSUME NEW role \in Roles, ReadLeg(r, role) PROVE Moved
  <2> DEFINE k == [j EXCEPT !.at = "send"]
  <2>1. ASSUME Goto(r, "send") PROVE Moved
    <3>1. k \in Job /\ JobIsSound(k) /\ Goes(r, k)
      BY <1>1, <1>11, <2>1 DEF ReadLeg
    <3> HIDE DEF k, Goes, JobIsSound, IInv
    <3>2. QED
      BY <1>3, <3>1
  <2>2. QED
    BY <1>10, <1>11, <2>1 DEF ReadLeg
<1>12. ASSUME NEW role \in Roles, Transfer(r, role) PROVE Moved
  <2> DEFINE k(b) == [j EXCEPT !.at = "record", !.sent = b]
  <2>1. PICK h \in Job : h = k(FALSE) /\ JobIsSound(h)
    <3>1. k(FALSE) \in Job /\ JobIsSound(k(FALSE))
      BY <1>1, <1>12 DEF Transfer
    <3> HIDE DEF k, JobIsSound
    <3>2. QED
      BY <3>1
  <2>2. ASSUME Goes(r, k(FALSE)) PROVE Moved
    <3> HIDE DEF k, Goes, JobIsSound, IInv
    <3>1. Goes(r, h)
      BY <2>1, <2>2
    <3>2. QED
      BY <1>3, <2>1, <3>1
  <2>3. ASSUME Goes(r, k(TRUE)), transfers' = [transfers EXCEPT ![<<j.sig, role>>] = @ + 1]
        PROVE  Moved
    <3>1. JobIsSound(h)'
      BY <2>1, SoundStays
    <3>2. transfers'[<<h.sig, h.role>>] > 0
      <4>1. h.sig = j.sig /\ h.role = role /\ <<j.sig, role>> \in Sigs \X Roles
        BY <1>1, <1>12, <2>1 DEF Transfer
      <4>2. QED
        BY <2>3, <4>1 DEF TypeOK
    <3> DEFINE g == [h EXCEPT !.sent = TRUE]
    <3>3. g \in Job /\ JobIsSound(g)'
      <4>1. g \in Job /\ g.sent
        OBVIOUS
      <4>2. /\ g.at = h.at /\ g.currency = h.currency /\ g.asset = h.asset
            /\ g.derived = h.derived /\ g.sig = h.sig /\ g.amount = h.amount
            /\ g.held = h.held /\ g.cert = h.cert /\ g.role = h.role
        OBVIOUS
      <4> HIDE DEF g
      <4>3. Matches(h)' => Matches(g)'
        BY <4>2
      <4>4. QED
        BY <3>1, <3>2, <4>1, <4>2, <4>3
    <3>4. g = k(TRUE)
      BY <1>1, <2>1
    <3>5. QED
      BY <2>3, <3>3, <3>4
  <2>4. QED
    BY <1>1, <1>12, <2>2, <2>3 DEF Transfer, TypeOK
<1>13. ASSUME NEW role \in Roles, RecordLeg(r, role) PROVE Moved
  BY <1>2, <1>10, <1>13 DEF RecordLeg
<1>14. QED
  BY <1>4, <1>5, <1>6, <1>8, <1>9, <1>11, <1>12, <1>13 DEF Worker, Royalty

\* The jobs after a step.
LEMMA NextJobs == IInv /\ [Next]_vars => req' \in [Requests -> Job \cup {None}] /\ JobsAreSound'
<1> SUFFICES ASSUME IInv, [Next]_vars
             PROVE  req' \in [Requests -> Job \cup {None}] /\ JobsAreSound'
  OBVIOUS
<1>1. req \in [Requests -> Job \cup {None}] /\ JobsAreSound
  BY DEF IInv, TypeOK
<1>2. ASSUME NEW q \in Requests, req[q] # None, req'[q] = req[q] PROVE JobIsSound(req[q])'
  <2>1. PICK j \in Job : j = req[q]
    BY <1>1, <1>2
  <2>2. JobIsSound(j)'
    BY <1>1, <1>2, <2>1, SoundStays DEF JobsAreSound
  <2>3. QED
    BY <1>2, <2>1, <2>2 DEF JobIsSound, Matches
<1>3. CASE UNCHANGED req
  BY <1>1, <1>2, <1>3 DEF JobsAreSound
<1>4. ASSUME NEW r \in Requests, Goes(r, None) \/ \E k \in Job : Goes(r, k) /\ JobIsSound(k)'
      PROVE  req' \in [Requests -> Job \cup {None}] /\ JobsAreSound'
  <2>1. CASE Goes(r, None)
    BY <1>1, <1>2, <2>1 DEF Goes, JobsAreSound
  <2>2. ASSUME NEW k \in Job, Goes(r, k), JobIsSound(k)'
        PROVE  req' \in [Requests -> Job \cup {None}] /\ JobsAreSound'
    <3>1. JobIsSound(req[r])'
      BY <1>1, <2>2 DEF Goes, JobIsSound, Matches
    <3>2. QED
      BY <1>1, <1>2, <2>2, <3>1 DEF Goes, JobsAreSound
  <2>3. QED
    BY <1>4, <2>1, <2>2
<1>5. ASSUME NEW r \in Requests, Crash(r) PROVE Goes(r, None)
  BY <1>5 DEF Crash, Answer, Goes
<1>6. ASSUME NEW r \in Requests, NEW c \in {"USDC", "SOL"}, NEW a \in Assets, NEW s \in Sigs,
             NEW m \in Amounts, Receive(r, c, a, s, m)
      PROVE  \E k \in Job : Goes(r, k) /\ JobIsSound(k)'
  BY <1>6, Received, SoundStays
<1>7. QED
  BY <1>3, <1>4, <1>5, <1>6, Worked DEF Next, Delete, Orphan, Reprice, Pay, vars

\* Licenses come with an insert or a saved certificate, and go with a deletion.
LEMMA NextLicenses ==
    IInv /\ [Next]_vars =>
        /\ licenses' \in [Sigs -> License \cup {None}]
        /\ \A s \in Sigs : licenses'[s] # None => licenses'[s].asset \in live'
        /\ LicenseIsPaid'
<1> SUFFICES ASSUME IInv, [Next]_vars
             PROVE  /\ licenses' \in [Sigs -> License \cup {None}]
                    /\ \A s \in Sigs : licenses'[s] # None =>
                          /\ licenses'[s].asset \in live'
                          /\ chain'[s] # None /\ chain'[s].amount = licenses'[s].price
                          /\ chain'[s].memo \in {None, licenses'[s].asset}
                          /\ licenses'[s].asset \in derived' => chain'[s].payee = "escrow"
                          /\ licenses'[s].asset \notin Derivatives => chain'[s].payee = "seller"
  BY DEF LicenseIsPaid
<1> DEFINE Paid(s, l) == /\ l.asset \in Assets
                         /\ chain'[s] # None /\ chain'[s].amount = l.price
                         /\ chain'[s].memo \in {None, l.asset}
                         /\ l.asset \in derived' => chain'[s].payee = "escrow"
                         /\ l.asset \notin Derivatives => chain'[s].payee = "seller"
<1>1. /\ licenses \in [Sigs -> License \cup {None}]
      /\ \A s \in Sigs : licenses[s] # None => licenses[s].asset \in live
      /\ \A s \in Sigs : licenses[s] # None => Paid(s, licenses[s])
  BY WorldMoves DEF IInv, TypeOK, LicenseIsPaid, License
<1>2. CASE UNCHANGED <<licenses, live>>
  BY <1>1, <1>2
<1>3. ASSUME NEW a \in Assets, Delete(a)
      PROVE  /\ licenses' \in [Sigs -> License \cup {None}]
             /\ \A s \in Sigs : licenses'[s] # None =>
                   licenses'[s] = licenses[s] /\ licenses[s].asset \in live'
  BY <1>1, <1>3 DEF Delete
<1>4. ASSUME NEW r \in Requests, Insert(r), licenses' # licenses
      PROVE  /\ licenses' = [licenses EXCEPT ![req[r].sig] = NewLicense(req[r])]
             /\ req[r].sig \in Sigs /\ NewLicense(req[r]) \in License
             /\ req[r].asset \in live /\ UNCHANGED live
             /\ Paid(req[r].sig, NewLicense(req[r]))
  <2> DEFINE j == req[r]
  <2>1. j \in Job /\ JobIsSound(j) /\ j.at = "insert"
    BY <1>4 DEF Insert, IInv, TypeOK, JobsAreSound
  <2>2. NewLicense(j) \in License
    BY <2>1 DEF NewLicense, License, Job
  <2>3. Matches(j) /\ chain'[j.sig] = chain[j.sig]
    BY <2>1, WorldMoves DEF JobIsSound, Matches, Job
  <2>4. chain[j.sig].memo \in {None, j.asset}
    BY <2>1, <2>3 DEF Matches, IInv, MemosAreSol, Job
  <2>5. Paid(j.sig, NewLicense(j))
    BY <2>1, <2>2, <2>3, <2>4, WorldMoves DEF NewLicense, License, Matches, JobIsSound, PayTo
  <2>6. QED
    BY <1>4, <2>1, <2>2, <2>5 DEF Insert, Job, world
<1>5. ASSUME NEW r \in Requests, SaveCertificate(r), licenses' # licenses
      PROVE  /\ UNCHANGED live
             /\ licenses' \in [Sigs -> License \cup {None}]
             /\ \A s \in Sigs : licenses'[s] # None =>
                   /\ licenses[s] # None
                   /\ licenses'[s].asset = licenses[s].asset
                   /\ licenses'[s].price = licenses[s].price
  <2> DEFINE j == req[r]
  <2>1. j \in Job /\ j.cert \in Nat
    BY <1>5 DEF SaveCertificate, IInv, TypeOK, JobsAreSound, JobIsSound
  <2>2. HeldRow(r) /\ licenses' = [licenses EXCEPT ![j.sig] = [@ EXCEPT !.certificate = j.cert]]
    BY <1>1, <1>5 DEF SaveCertificate
  <2>3. licenses[j.sig] \in License
    BY <1>1, <2>1, <2>2 DEF HeldRow, Job
  <2> DEFINE l == [licenses[j.sig] EXCEPT !.certificate = j.cert]
  <2>4. l \in License /\ l.asset = licenses[j.sig].asset /\ l.price = licenses[j.sig].price
    BY <2>1, <2>3 DEF License
  <2>5. licenses' = [licenses EXCEPT ![j.sig] = l] /\ licenses[j.sig] # None /\ j.sig \in Sigs
    BY <1>1, <2>1, <2>2 DEF HeldRow, Job
  <2>6. UNCHANGED live
    BY <1>5 DEF SaveCertificate, world
  <2> HIDE DEF l
  <2>7. QED
    BY <1>1, <2>4, <2>5, <2>6
<1>6. UNCHANGED <<licenses, live>> \/ (\E a \in Assets : Delete(a))
      \/ \E r \in Requests : (Insert(r) \/ SaveCertificate(r)) /\ licenses' # licenses
  <2>1. ASSUME NEW r \in Requests, Worker(r) \/ Crash(r) PROVE UNCHANGED live
    BY <2>1, WorkersLeaveWorld DEF world
  <2>2. ASSUME NEW r \in Requests, Worker(r) \/ Crash(r), licenses' # licenses
        PROVE  Insert(r) \/ SaveCertificate(r)
    BY <2>2 DEF Worker, Verify, Look, Certify, Memo, Royalty, ReadLeg, Transfer, RecordLeg, Crash, tables
  <2>3. QED
    BY <2>1, <2>2 DEF Next, Orphan, Reprice, Pay, Receive, tables, world, vars
<1>7. QED
  <2>1. CASE UNCHANGED <<licenses, live>>
    BY <1>1, <2>1
  <2>2. ASSUME NEW a \in Assets, Delete(a)
        PROVE  /\ licenses' \in [Sigs -> License \cup {None}]
               /\ \A s \in Sigs : licenses'[s] # None =>
                     licenses'[s].asset \in live' /\ Paid(s, licenses'[s])
    BY <1>1, <1>3, <2>2
  <2>3. ASSUME NEW r \in Requests, Insert(r), licenses' # licenses
        PROVE  /\ licenses' \in [Sigs -> License \cup {None}]
               /\ \A s \in Sigs : licenses'[s] # None =>
                     licenses'[s].asset \in live' /\ Paid(s, licenses'[s])
    <3> DEFINE l == NewLicense(req[r])
    <3>1. l \in License /\ l.asset \in live' /\ Paid(req[r].sig, l)
      BY <1>4, <2>3 DEF NewLicense
    <3>2. licenses' = [licenses EXCEPT ![req[r].sig] = l] /\ req[r].sig \in Sigs /\ UNCHANGED live
      BY <1>4, <2>3
    <3> HIDE DEF l, Paid
    <3>3. QED
      <4>1. ASSUME NEW s \in Sigs, licenses'[s] # None
            PROVE  licenses'[s].asset \in live' /\ Paid(s, licenses'[s])
        <5>1. CASE s = req[r].sig
          BY <1>1, <3>1, <3>2, <5>1
        <5>2. CASE s # req[r].sig
          BY <1>1, <3>2, <4>1, <5>2
        <5>3. QED
          BY <5>1, <5>2
      <4>2. QED
        BY <1>1, <3>1, <3>2, <4>1
  <2>4. ASSUME NEW r \in Requests, SaveCertificate(r), licenses' # licenses
        PROVE  /\ licenses' \in [Sigs -> License \cup {None}]
               /\ \A s \in Sigs : licenses'[s] # None =>
                     licenses'[s].asset \in live' /\ Paid(s, licenses'[s])
    BY <1>1, <1>5, <2>4
  <2>5. QED
    BY <1>6, <2>1, <2>2, <2>3, <2>4

\* A certificate is issued by a request that has checked its payment.
LEMMA NextCertificates ==
    IInv /\ [Next]_vars => certs' \in Seq([asset: Assets, sig: Sigs]) /\ CertificatesArePaid'
<1> SUFFICES ASSUME IInv, [Next]_vars
             PROVE  certs' \in Seq([asset: Assets, sig: Sigs]) /\ CertificatesArePaid'
  OBVIOUS
<1> DEFINE Paid(c) == /\ chain'[c.sig] # None
                      /\ chain'[c.sig].memo \in {None, c.asset}
                      /\ c.asset \in derived' => chain'[c.sig].payee = "escrow"
                      /\ c.asset \notin Derivatives => chain'[c.sig].payee = "seller"
<1>1. certs \in Seq([asset: Assets, sig: Sigs]) /\ \A k \in DOMAIN certs : Paid(certs[k])
  <2>1. certs \in Seq([asset: Assets, sig: Sigs]) /\ CertificatesArePaid
    BY DEF IInv
  <2>2. ASSUME NEW k \in DOMAIN certs PROVE certs[k] \in [asset: Assets, sig: Sigs]
    <3> DEFINE C == [asset: Assets, sig: Sigs]
    <3>1. certs \in Seq(C) /\ k \in 1..Len(certs)
      BY <2>1
    <3> HIDE DEF C
    <3>2. certs[k] \in C
      BY <3>1
    <3>3. QED
      BY <3>2 DEF C
  <2>3. ASSUME NEW k \in DOMAIN certs PROVE Paid(certs[k])
    BY <2>1, <2>2, WorldMoves DEF CertificatesArePaid
  <2>4. QED
    BY <2>1, <2>3
<1>2. ASSUME NEW r \in Requests, Certify(r), certs' # certs
      PROVE  certs' \in Seq([asset: Assets, sig: Sigs]) /\ \A k \in DOMAIN certs' : Paid(certs'[k])
  <2> DEFINE j == req[r]
             c == [asset |-> j.asset, sig |-> j.sig]
  <2>1. j \in Job /\ JobIsSound(j) /\ j.at = "certify" /\ certs' = Append(certs, c)
    BY <1>2 DEF Certify, Memo, IInv, TypeOK, JobsAreSound
  <2>2. Matches(j) /\ chain'[j.sig] = chain[j.sig]
    BY <2>1, WorldMoves DEF JobIsSound, Matches, Job
  <2>3. chain[j.sig].memo \in {None, j.asset}
    BY <2>1, <2>2 DEF Matches, IInv, MemosAreSol, Job
  <2>4. c \in [asset: Assets, sig: Sigs] /\ Paid(c)
    BY <2>1, <2>2, <2>3, WorldMoves DEF Matches, JobIsSound, PayTo, Job
  <2> HIDE DEF Paid, c
  <2>5. QED
    BY <1>1, <2>1, <2>4
<1>3. certs' = certs \/ \E r \in Requests : Certify(r)
  BY ZenonT(60)
  DEF Next, Reprice, Delete, Orphan, Pay, Receive, Worker, Verify, Look, Insert, SaveCertificate,
         Royalty, ReadLeg, Transfer, RecordLeg, Crash, tables, vars
<1>4. QED
  BY <1>1, <1>2, <1>3 DEF CertificatesArePaid

\* A leg is recorded as settled by the request that sent it, and is sent only by a request
\* that has checked a payment to the escrow.
LEMMA NextLegs ==
    IInv /\ [Next]_vars =>
        legs' \in SUBSET (Sigs \X Roles \X {"settled", "failed"}) /\ SettledLegsWereSent'
<1> SUFFICES ASSUME IInv, [Next]_vars
             PROVE  legs' \in SUBSET (Sigs \X Roles \X {"settled", "failed"}) /\ SettledLegsWereSent'
  OBVIOUS
<1>1. /\ legs \in SUBSET (Sigs \X Roles \X {"settled", "failed"})
      /\ transfers \in [Sigs \X Roles -> Nat]
      /\ SettledLegsWereSent
  BY DEF IInv, TypeOK
<1>2. ASSUME NEW r \in Requests, NEW role \in Roles, RecordLeg(r, role), legs' # legs
      PROVE  /\ legs' = legs \cup {<<req[r].sig, role, LegStatus(r)>>}
             /\ req[r].sig \in Sigs /\ LegStatus(r) \in {"settled", "failed"}
             /\ LegStatus(r) = "settled" => transfers[<<req[r].sig, role>>] > 0
  <2>1. req[r] \in Job /\ JobIsSound(req[r])
    BY <1>2 DEF RecordLeg, IInv, TypeOK, JobsAreSound
  <2>2. QED
    BY <1>2, <2>1 DEF RecordLeg, LegStatus, JobIsSound, Job
<1>3. ASSUME NEW r \in Requests, NEW role \in Roles, Transfer(r, role)
      PROVE  /\ req[r].sig \in Sigs
             /\ chain[req[r].sig] # None /\ chain[req[r].sig].payee = "escrow"
             /\ transfers' = transfers
                \/ transfers' = [transfers EXCEPT ![<<req[r].sig, role>>] = @ + 1]
             /\ UNCHANGED legs
  <2>1. req[r] \in Job /\ JobIsSound(req[r])
    BY <1>3 DEF Transfer, IInv, TypeOK, JobsAreSound
  <2>2. QED
    BY <1>3, <2>1 DEF Transfer, JobIsSound, Matches, PayTo, Job
<1>4. legs' \subseteq legs \/ \E r \in Requests, role \in Roles : RecordLeg(r, role) /\ legs' # legs
  BY ZenonT(60)
  DEF Next, Reprice, Delete, Orphan, Pay, Receive, Worker, Verify, Look, Insert, Certify, Memo,
         SaveCertificate, Royalty, ReadLeg, Transfer, Crash, tables, vars
<1>5. UNCHANGED transfers \/ \E r \in Requests, role \in Roles : Transfer(r, role)
  BY Zenon
  DEF Next, Reprice, Delete, Orphan, Pay, Receive, Worker, Verify, Look, Insert, Certify, Memo,
         SaveCertificate, Royalty, ReadLeg, RecordLeg, Crash, tables, vars
<1>6. legs' \in SUBSET (Sigs \X Roles \X {"settled", "failed"})
  <2>1. ASSUME NEW r \in Requests, NEW role \in Roles, RecordLeg(r, role), legs' # legs
        PROVE  legs' \in SUBSET (Sigs \X Roles \X {"settled", "failed"})
    <3>1. <<req[r].sig, role, LegStatus(r)>> \in Sigs \X Roles \X {"settled", "failed"}
      BY <1>2, <2>1
    <3>2. QED
      BY <1>1, <1>2, <2>1, <3>1
  <2>2. QED
    BY <1>1, <1>4, <2>1
<1>7. ASSUME NEW s \in Sigs, NEW role \in Roles, <<s, role, "settled">> \in legs'
      PROVE  transfers'[<<s, role>>] > 0
  <2>1. transfers[<<s, role>>] > 0
    <3>1. ASSUME NEW r \in Requests, NEW role2 \in Roles, RecordLeg(r, role2), legs' # legs
          PROVE  transfers[<<s, role>>] > 0
      <4>1. CASE <<s, role, "settled">> \in legs
        BY <1>1, <4>1 DEF SettledLegsWereSent
      <4>2. CASE <<s, role, "settled">> = <<req[r].sig, role2, LegStatus(r)>>
        BY <1>2, <3>1, <4>2
      <4>3. QED
        BY <1>2, <1>7, <3>1, <4>1, <4>2
    <3>2. QED
      BY <1>1, <1>4, <1>7, <3>1 DEF SettledLegsWereSent
  <2>2. transfers'[<<s, role>>] >= transfers[<<s, role>>] /\ transfers'[<<s, role>>] \in Nat
    BY TransfersGrow
  <2>3. QED
    BY <1>1, <2>1, <2>2
<1>8. ASSUME NEW s \in Sigs, NEW role \in Roles, transfers'[<<s, role>>] > 0
      PROVE  chain'[s] # None /\ chain'[s].payee = "escrow"
  <2>1. chain[s] # None /\ chain[s].payee = "escrow"
    BY <1>1, <1>3, <1>5, <1>8 DEF SettledLegsWereSent
  <2>2. QED
    BY <2>1, WorldMoves
<1>9. QED
  BY <1>6, <1>7, <1>8 DEF SettledLegsWereSent

\* Every step keeps the types.
LEMMA NextTypeOK == IInv /\ [Next]_vars => TypeOK'
<1> SUFFICES ASSUME IInv, [Next]_vars PROVE TypeOK'
  OBVIOUS
<1>1. crashes' \in 0..MaxCrashes
  <2>1. crashes \in 0..MaxCrashes
    BY DEF IInv, TypeOK
  <2>2. crashes' = crashes \/ (crashes < MaxCrashes /\ crashes' = crashes + 1)
    BY ZenonT(60)
    DEF Next, Reprice, Delete, Orphan, Pay, Receive, Worker, Verify, Look, Insert, Certify, Memo,
           SaveCertificate, Royalty, ReadLeg, Transfer, RecordLeg, Crash, vars
  <2>3. QED
    BY <2>1, <2>2, BoundsAssumption
<1>2. live' \in SUBSET Assets /\ derived' \in SUBSET Derivatives
  BY WorldMoves DEF IInv, TypeOK
<1>3. \A k \in DOMAIN certs' : certs'[k] \in [asset: Assets, sig: Sigs]
  <2> DEFINE C == [asset: Assets, sig: Sigs]
  <2>1. certs' \in Seq(C)
    BY NextCertificates
  <2> HIDE DEF C
  <2>2. \A k \in DOMAIN certs' : certs'[k] \in C
    BY <2>1
  <2>3. QED
    BY <2>2 DEF C
<1>4. QED
  BY <1>1, <1>2, <1>3, WorldMoves, TransfersGrow, NextJobs, NextLicenses, NextLegs DEF TypeOK

----------------------------------------------------------------------------
\* The inductive invariant of the pipeline.
THEOREM Invariance == Spec => []IInv
<1>1. Init => IInv
  BY InitIInv
<1>2. IInv /\ [Next]_vars => IInv'
  BY WorldMoves, NextJobs, NextLicenses, NextCertificates, NextLegs, NextTypeOK DEF IInv
<1>3. QED
  BY <1>1, <1>2, PTL DEF Spec

\* Every variable keeps its type, and the asset of a License is there.
THEOREM TypeCorrect == Spec => []TypeOK
<1>1. IInv => TypeOK
  BY DEF IInv
<1>2. QED
  BY <1>1, Invariance, PTL

\* A License stands for a transaction that paid its price to the right payee, although
\* prices, parents and payments change between verification and insertion.
THEOREM LicensesArePaidFor == Spec => []LicenseIsPaid
<1>1. IInv => LicenseIsPaid
  BY DEF IInv
<1>2. QED
  BY <1>1, Invariance, PTL

\* A certificate memo names a work that its payment paid for, also on a replay.
THEOREM CertificatesArePaidFor == Spec => []CertificatesArePaid
<1>1. IInv => CertificatesArePaid
  BY DEF IInv
<1>2. QED
  BY <1>1, Invariance, PTL

\* A royalty leg that says it is settled was sent, out of a payment to the escrow.
THEOREM RoyaltiesWereSent == Spec => []SettledLegsWereSent
<1>1. IInv => SettledLegsWereSent
  BY DEF IInv
<1>2. QED
  BY <1>1, Invariance, PTL

----------------------------------------------------------------------------
(***************************************************************************)
(* One request at a time: between the look at a leg and its record nobody  *)
(* else sends it.                                                          *)
(***************************************************************************)

\* The transfer of a leg is made and not written down yet.
Unrecorded(s, role) ==
    \E r \in Requests : /\ req[r] # None /\ req[r].at = "record" /\ req[r].sent
                        /\ req[r].sig = s /\ req[r].role = role

\* Of the transfers of a leg at most one was reported, and that one is on record or about
\* to be.
SentOnce(s, role) ==
    LET l == <<s, role>>
    IN  transfers[l] # unheard[l] =>
            /\ transfers[l] = unheard[l] + 1
            /\ <<s, role, "settled">> \in legs \/ Unrecorded(s, role)

\* A request past the grant works on a License that is there, and sends what is not settled.
KnowsItsLeg(r) ==
    /\ req[r].at \in {"certify", "save", "read", "send", "record"} => HeldRow(r)
    /\ req[r].at = "send" => <<req[r].sig, req[r].role, "settled">> \notin legs

LegsKept ==
    /\ \A s \in Sigs, role \in Roles : SentOnce(s, role)
    /\ \A r \in Requests : req[r] # None => KnowsItsLeg(r)

\* A world without crashes and deletions after a step had none before it.
LEMMA NextUndisturbed ==
  ASSUME IInv, [Next]_vars, Undisturbed'
  PROVE  /\ Undisturbed
         /\ \A a \in Assets : ~Delete(a)
         /\ \A r \in Requests : ~Crash(r)
<1>1. live = Assets
  BY WorldMoves DEF IInv, TypeOK, Undisturbed
<1>2. ASSUME NEW a \in Assets, Delete(a) PROVE FALSE
  BY <1>2 DEF Delete, Undisturbed
<1>3. crashes \in Nat /\ crashes' = 0
  BY BoundsAssumption DEF IInv, TypeOK, Undisturbed
<1>4. ASSUME NEW r \in Requests, Crash(r) PROVE FALSE
  BY <1>3, <1>4 DEF Crash
<1>5. crashes' = crashes
  BY <1>4, ZenonT(60)
     DEF Next, Reprice, Delete, Orphan, Pay, Receive, Worker, Verify, Look, Insert, Certify, Memo,
         SaveCertificate, Royalty, ReadLeg, Transfer, RecordLeg, vars
<1>6. QED
  BY <1>1, <1>2, <1>3, <1>4, <1>5 DEF Undisturbed

\* Every step of one request keeps legs sent once, and written down or in its hand.
LEMMA NextLegsKept ==
  ASSUME NEW r0, Requests = {r0}, IInv, LegsKept, [Next]_vars, Undisturbed, Undisturbed'
  PROVE  LegsKept'
<1> USE NoneAssumption DEF IInv, TypeOK
<1>0. /\ transfers \in [Sigs \X Roles -> Nat] /\ unheard \in [Sigs \X Roles -> Nat]
      /\ req \in [Requests -> Job \cup {None}]
  BY BoundsAssumption
<1>1. CASE UNCHANGED <<licenses, legs, transfers, unheard, req>>
  <2>1. \A s \in Sigs, role \in Roles : SentOnce(s, role)'
    BY <1>1 DEF LegsKept, SentOnce, Unrecorded
  <2>2. \A r \in Requests : req'[r] # None => KnowsItsLeg(r)'
    BY <1>1 DEF LegsKept, KnowsItsLeg, HeldRow
  <2>3. QED
    BY <2>1, <2>2 DEF LegsKept
\* Steps that neither send nor record.
<1>2. ASSUME NEW r \in Requests, UNCHANGED <<legs, transfers, unheard>>, req[r] = None \/ req[r].at # "record",
             req'[r] # None => KnowsItsLeg(r)'
      PROVE  LegsKept'
  <2>1. \A s \in Sigs, role \in Roles : ~Unrecorded(s, role)
    BY <1>2 DEF Unrecorded
  <2>2. \A s \in Sigs, role \in Roles : SentOnce(s, role)'
    BY <1>2, <2>1 DEF LegsKept, SentOnce
  <2>3. QED
    BY <1>2, <2>2 DEF LegsKept
<1>3. ASSUME NEW r \in Requests, NEW c \in {"USDC", "SOL"}, NEW a \in Assets, NEW s \in Sigs,
             NEW m \in Amounts, Receive(r, c, a, s, m)
      PROVE  LegsKept'
  <2>1. req'[r].at = "verify"
    BY <1>3 DEF Receive
  <2>2. QED
    BY <1>2, <1>3, <2>1 DEF Receive, tables, KnowsItsLeg
<1>4. ASSUME NEW r \in Requests, Verify(r) \/ Look(r) PROVE LegsKept'
  <2>1. req[r] \in Job /\ UNCHANGED <<licenses, legs, transfers, unheard>>
    BY <1>4 DEF Verify, Look, tables
  <2>2. req'[r] # None => KnowsItsLeg(r)'
    <3>1. CASE Verify(r)
      <4>1. req'[r] = None \/ req'[r].at = "look"
        BY <1>0, <2>1, <3>1 DEF Verify, Goto, Answer, Job
      <4>2. QED
        BY <4>1 DEF KnowsItsLeg
    <3>2. CASE Look(r)
      <4>1. \/ req'[r].at = "insert"
            \/ /\ req'[r].at = "certify" /\ req'[r].sig = req[r].sig
               /\ licenses[req[r].sig] # None /\ req'[r].held = licenses[req[r].sig].asset
        BY <1>0, <2>1, <3>2 DEF Look, Job
      <4>2. QED
        BY <2>1, <4>1 DEF KnowsItsLeg, HeldRow
    <3>3. QED
      BY <1>4, <3>1, <3>2
  <2>3. QED
    BY <1>2, <1>4, <2>1, <2>2 DEF Verify, Look
<1>5. ASSUME NEW r \in Requests, Insert(r) PROVE LegsKept'
  <2>1. req[r] \in Job /\ UNCHANGED <<legs, transfers, unheard>>
    BY <1>5 DEF Insert
  <2>2. req'[r] # None => KnowsItsLeg(r)'
    <3>1. CASE Answer(r)
      BY <1>5, <3>1 DEF Answer
    <3>2. CASE /\ licenses' = [licenses EXCEPT ![req[r].sig] = NewLicense(req[r])]
               /\ req' = [req EXCEPT ![r].at = "certify", ![r].held = req[r].asset, ![r].fresh = TRUE]
      <4>1. /\ req'[r].at = "certify" /\ req'[r].held = req[r].asset /\ req'[r].sig = req[r].sig
        BY <2>1, <3>2 DEF Job
      <4>2. NewLicense(req[r]) \in License /\ NewLicense(req[r]).asset = req[r].asset
        BY <2>1 DEF NewLicense, License, Job
      <4>3. licenses'[req[r].sig] = NewLicense(req[r])
        BY <2>1, <3>2 DEF Job
      <4>4. QED
        BY <4>1, <4>2, <4>3 DEF KnowsItsLeg, HeldRow
    <3>3. QED
      BY <1>5, <3>1, <3>2 DEF Insert
  <2>3. QED
    BY <1>2, <1>5, <2>1, <2>2 DEF Insert
<1>6. ASSUME NEW r \in Requests, req[r] # None, req[r].at # "record", UNCHANGED <<legs, transfers, unheard>>,
             licenses'[req[r].sig] \in License, licenses'[req[r].sig].asset = req[r].held,
             AfterCertificate(r) \/ \E n \in Nat : req' = [req EXCEPT ![r].at = "save", ![r].cert = n]
      PROVE  LegsKept'
  <2>1. req[r] \in Job
    BY <1>6
  <2>2. \/ req'[r] = None
        \/ req'[r].at \in {"read", "save"} /\ req'[r].sig = req[r].sig /\ req'[r].held = req[r].held
    BY <1>6, <2>1 DEF AfterCertificate, Goto, Answer, Job
  <2>3. QED
    BY <1>2, <1>6, <2>2 DEF KnowsItsLeg, HeldRow
<1>7. ASSUME NEW r \in Requests, Certify(r) PROVE LegsKept'
  <2>1. req[r] # None /\ req[r].at = "certify" /\ UNCHANGED <<licenses, legs, transfers, unheard>>
    BY <1>7 DEF Certify
  <2>2. licenses[req[r].sig] \in License /\ licenses[req[r].sig].asset = req[r].held
    <3>1. HeldRow(r) /\ req[r].sig \in Sigs
      BY <1>0, <2>1 DEF LegsKept, KnowsItsLeg, Job
    <3>2. QED
      BY <3>1 DEF HeldRow
  <2>3. AfterCertificate(r) \/ \E n \in Nat : req' = [req EXCEPT ![r].at = "save", ![r].cert = n]
    <3>1. Len(certs) + 1 \in Nat
      OBVIOUS
    <3>2. AfterCertificate(r) \/ req' = [req EXCEPT ![r].at = "save", ![r].cert = Len(certs) + 1]
      BY <1>7 DEF Certify
    <3> DEFINE n == Len(certs) + 1
    <3> HIDE DEF n
    <3>3. n \in Nat /\ (AfterCertificate(r) \/ req' = [req EXCEPT ![r].at = "save", ![r].cert = n])
      BY <3>1, <3>2 DEF n
    <3>4. QED
      BY <3>3
  <2>4. QED
    BY <1>6, <2>1, <2>2, <2>3
<1>8. ASSUME NEW r \in Requests, SaveCertificate(r) PROVE LegsKept'
  <2> DEFINE l == licenses[req[r].sig]
  <2>1. /\ req[r] # None /\ req[r].at = "save" /\ UNCHANGED <<legs, transfers, unheard>>
        /\ req[r] \in Job /\ HeldRow(r) /\ AfterCertificate(r)
    BY <1>8 DEF SaveCertificate, LegsKept, KnowsItsLeg
  <2>2. l \in License /\ l.asset = req[r].held
    BY <2>1 DEF HeldRow, Job
  <2>3. licenses'[req[r].sig] = [l EXCEPT !.certificate = req[r].cert]
    BY <1>8, <2>1 DEF SaveCertificate, Job
  <2>4. licenses'[req[r].sig] \in License /\ licenses'[req[r].sig].asset = l.asset
    BY <2>1, <2>2, <2>3 DEF License, Job
  <2>5. QED
    BY <1>6, <2>1, <2>2, <2>4
\* The legs.
<1>9. ASSUME NEW r \in Requests, NEW role \in Roles, req[r] # None, AfterLeg(r, role), HeldRow(r),
             UNCHANGED licenses
      PROVE  /\ req'[r] # None => KnowsItsLeg(r)'
             /\ \A s \in Sigs, x \in Roles : ~Unrecorded(s, x)'
  <2>1. req'[r] = None \/ (req'[r].at = "read" /\ req'[r].sig = req[r].sig /\ req'[r].held = req[r].held)
    BY <1>0, <1>9 DEF AfterLeg, Answer, Job
  <2>2. QED
    BY <1>9, <2>1 DEF KnowsItsLeg, HeldRow, Unrecorded
<1>10. ASSUME NEW r \in Requests, NEW role \in Roles, ReadLeg(r, role) PROVE LegsKept'
  <2>1. /\ req[r] # None /\ req[r].at = "read" /\ req[r].role = role /\ req[r] \in Job
        /\ UNCHANGED <<licenses, legs, transfers, unheard>> /\ HeldRow(r)
    BY <1>10 DEF ReadLeg, tables, LegsKept, KnowsItsLeg
  <2>2. CASE AfterLeg(r, role)
    BY <1>2, <1>9, <2>1, <2>2
  <2>3. CASE <<req[r].sig, role, "settled">> \notin legs /\ Goto(r, "send")
    <3>1. /\ req'[r].at = "send" /\ req'[r].sig = req[r].sig /\ req'[r].held = req[r].held
          /\ req'[r].role = role
      BY <2>1, <2>3 DEF Goto, Job
    <3>2. KnowsItsLeg(r)'
      BY <2>1, <2>3, <3>1 DEF KnowsItsLeg, HeldRow
    <3>3. QED
      BY <1>2, <2>1, <3>2
  <2>4. QED
    BY <1>10, <2>2, <2>3 DEF ReadLeg
<1>11. ASSUME NEW r \in Requests, NEW role \in Roles, Transfer(r, role) PROVE LegsKept'
  <2> DEFINE leg == <<req[r].sig, role>>
  <2>1. /\ req[r] # None /\ req[r].at = "send" /\ req[r].role = role /\ req[r] \in Job
        /\ UNCHANGED <<licenses, legs>> /\ HeldRow(r) /\ <<req[r].sig, role, "settled">> \notin legs
    BY <1>11 DEF Transfer, LegsKept, KnowsItsLeg
  <2>2. leg \in Sigs \X Roles /\ req[r].sig \in Sigs
    BY <2>1 DEF Job
  <2>3. \A s \in Sigs, x \in Roles : ~Unrecorded(s, x)
    BY <2>1 DEF Unrecorded
  <2>4. transfers[leg] = unheard[leg]
    BY <1>0, <2>1, <2>2, <2>3 DEF LegsKept, SentOnce
  <2>5. /\ req'[r].at = "record" /\ req'[r].sig = req[r].sig /\ req'[r].held = req[r].held
        /\ req'[r].role = role /\ req'[r] # None
    <3>1. \/ req' = [req EXCEPT ![r] = [req[r] EXCEPT !.at = "record", !.sent = TRUE]]
          \/ req' = [req EXCEPT ![r] = [req[r] EXCEPT !.at = "record", !.sent = FALSE]]
      BY <1>11 DEF Transfer
    <3>2. PICK b \in BOOLEAN : req' = [req EXCEPT ![r] = [req[r] EXCEPT !.at = "record", !.sent = b]]
      BY <3>1, Zenon
    <3> DEFINE k == [req[r] EXCEPT !.at = "record", !.sent = b]
    <3>3. req'[r] = k
      BY <1>0, <3>2
    <3>4. k \in Job
      BY <2>1 DEF Job, Places
    <3>5. k.at = "record" /\ k.sig = req[r].sig /\ k.held = req[r].held /\ k.role = req[r].role
      BY <2>1 DEF Job
    <3> HIDE DEF k
    <3>6. k # None
      BY <3>4
    <3>7. QED
      BY <2>1, <3>3, <3>5, <3>6
  <2>6. KnowsItsLeg(r)'
    BY <2>1, <2>5 DEF KnowsItsLeg, HeldRow
  <2>7. ASSUME NEW s \in Sigs, NEW x \in Roles PROVE SentOnce(s, x)'
    <3>1. CASE UNCHANGED <<transfers, unheard>>
      BY <2>1, <2>3, <3>1 DEF LegsKept, SentOnce
    <3>2. CASE /\ transfers' = [transfers EXCEPT ![leg] = @ + 1]
               /\ req' = [req EXCEPT ![r].at = "record", ![r].sent = TRUE]
               /\ UNCHANGED unheard
      <4>1. CASE <<s, x>> = leg
        <5>1. transfers'[<<s, x>>] = unheard'[<<s, x>>] + 1
          BY <1>0, <2>2, <2>4, <3>2, <4>1
        <5>2. req'[r].sent
          BY <1>0, <2>1, <3>2 DEF Job
        <5>3. Unrecorded(s, x)'
          BY <2>5, <4>1, <5>2 DEF Unrecorded
        <5>4. QED
          BY <5>1, <5>3 DEF SentOnce
      <4>2. CASE <<s, x>> # leg
        <5>1. transfers'[<<s, x>>] = transfers[<<s, x>>] /\ unheard'[<<s, x>>] = unheard[<<s, x>>]
          BY <1>0, <2>2, <3>2, <4>2
        <5>2. QED
          BY <2>1, <2>3, <5>1 DEF LegsKept, SentOnce
      <4>3. QED
        BY <4>1, <4>2
    <3>3. CASE /\ transfers' = [transfers EXCEPT ![leg] = @ + 1]
               /\ unheard' = [unheard EXCEPT ![leg] = @ + 1]
      <4>1. CASE <<s, x>> = leg
        <5>1. transfers'[<<s, x>>] = unheard'[<<s, x>>]
          BY <1>0, <2>2, <2>4, <3>3, <4>1
        <5>2. QED
          BY <5>1 DEF SentOnce
      <4>2. CASE <<s, x>> # leg
        <5>1. transfers'[<<s, x>>] = transfers[<<s, x>>] /\ unheard'[<<s, x>>] = unheard[<<s, x>>]
          BY <1>0, <2>2, <3>3, <4>2
        <5>2. QED
          BY <2>1, <2>3, <5>1 DEF LegsKept, SentOnce
      <4>3. QED
        BY <4>1, <4>2
    <3>4. QED
      BY <1>11, <3>1, <3>2, <3>3 DEF Transfer
  <2>8. QED
    BY <2>5, <2>6, <2>7 DEF LegsKept
<1>12. ASSUME NEW r \in Requests, NEW role \in Roles, RecordLeg(r, role) PROVE LegsKept'
  <2>1. /\ req[r] # None /\ req[r].at = "record" /\ req[r].role = role /\ req[r] \in Job
        /\ UNCHANGED <<licenses, transfers, unheard>> /\ HeldRow(r) /\ AfterLeg(r, role)
        /\ legs' = legs \cup {<<req[r].sig, role, LegStatus(r)>>}
    BY <1>12 DEF RecordLeg, LegsKept, KnowsItsLeg
  <2>2. req'[r] # None => KnowsItsLeg(r)'
    BY <1>9, <2>1
  <2>3. ASSUME NEW s \in Sigs, NEW x \in Roles, transfers[<<s, x>>] # unheard[<<s, x>>]
        PROVE  <<s, x, "settled">> \in legs'
    <3>1. CASE Unrecorded(s, x)
      <4>1. req[r].sent /\ req[r].sig = s /\ role = x
        BY <2>1, <3>1 DEF Unrecorded
      <4>2. QED
        BY <2>1, <4>1 DEF LegStatus
    <3>2. CASE ~Unrecorded(s, x)
      BY <2>1, <2>3, <3>2 DEF LegsKept, SentOnce
    <3>3. QED
      BY <3>1, <3>2
  <2>4. \A s \in Sigs, x \in Roles : SentOnce(s, x)'
    BY <2>1, <2>3 DEF LegsKept, SentOnce
  <2>5. QED
    BY <2>2, <2>4 DEF LegsKept
<1>13. ASSUME NEW a \in Assets, Orphan(a) \/ \E m \in Amounts : Reprice(a, m)
       PROVE  UNCHANGED <<licenses, legs, transfers, unheard, req>>
  BY <1>13 DEF Orphan, Reprice, tables
<1>14. ASSUME NEW s \in Sigs, NEW t \in Tx, Pay(s, t)
       PROVE  UNCHANGED <<licenses, legs, transfers, unheard, req>>
  BY <1>14 DEF Pay, tables
<1>15. CASE UNCHANGED vars
  BY <1>1, <1>15 DEF vars
<1>16. QED
  BY <1>1, <1>3, <1>4, <1>5, <1>7, <1>8, <1>10, <1>11, <1>12, <1>13, <1>14, <1>15, NextUndisturbed
     DEF Next, Worker, Royalty

\* With one request at a time a royalty leg is paid once, and again at most for each call
\* that raised although it had sent, for any number of payments, works and such calls,
\* while no worker dies and no work is deleted: a request sends only what no record says is
\* settled, and records as settled what it knows to be sent.
THEOREM RoyaltyIsPaidOnce ==
  ASSUME NEW r0, Requests = {r0}
  PROVE  Spec => []RoyaltyPaidOnce
<1> DEFINE Inv == Undisturbed => LegsKept
<1>1. Init => Inv
  BY DEF Init, LegsKept, SentOnce
<1>2. IInv /\ Inv /\ [Next]_vars => Inv'
  BY NextUndisturbed, NextLegsKept
<1>3. IInv /\ Inv => RoyaltyPaidOnce
  <2> SUFFICES ASSUME IInv, LegsKept, NEW s \in Sigs, NEW role \in Roles
               PROVE  transfers[<<s, role>>] <= 1 + unheard[<<s, role>>]
    BY DEF RoyaltyPaidOnce
  <2>1. transfers[<<s, role>>] \in Nat /\ unheard[<<s, role>>] \in Nat
    BY BoundsAssumption DEF IInv, TypeOK
  <2>2. SentOnce(s, role)
    BY DEF LegsKept
  <2>3. QED
    BY <2>1, <2>2 DEF SentOnce
<1>4. QED
  BY <1>1, <1>2, <1>3, Invariance, PTL DEF Spec
=============================================================================
