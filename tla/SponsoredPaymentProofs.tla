----------------------- MODULE SponsoredPaymentProofs -----------------------
(***************************************************************************)
(* Proofs about SponsoredPayment, for every set of intents, requests,      *)
(* transactions, assets and prices and every number of crashes.            *)
(***************************************************************************)
EXTENDS SponsoredPayment, TLAPS

\* The transactions and rows that others refer to exist.
References ==
    /\ \A r \in Requests : job[r] # None => intents[job[r].intent] # None
    /\ \A s \in Sigs : chain[s] # None => intents[chain[s].memo] # None

\* A request past the Solana check holds a final matching payment.
VerifiedIsPaid ==
    \A r \in Requests : pc[r] \in {"verified"} \cup InBlock =>
        Final(job[r].sig) /\ Pays(job[r].sig, job[r].intent)

\* The row lock admits one block per intent, and inside it the row carries no
\* other signature than the block's own.
BlockExclusive ==
    /\ \A r, q \in Requests :
          pc[r] \in InBlock /\ pc[q] \in InBlock /\ job[r].intent = job[q].intent => r = q
    /\ \A r \in Requests : pc[r] \in InBlock =>
          intents[job[r].intent].sig \in {None, job[r].sig}

\* The inductive invariant: BoundIffLicensed alone is not inductive, since Commit
\* keeps it only because of what the request learnt before and during its block.
IInv ==
    /\ TypeOK
    /\ References
    /\ VerifiedIsPaid
    /\ BlockExclusive
    /\ LicenseBacked
    /\ BoundIffLicensed
    /\ MemosFollowPayment

\* With no row, no transaction and no request under way the invariant holds.
LEMMA InitIInv == Init => IInv
<1> SUFFICES ASSUME Init PROVE IInv
  OBVIOUS
<1> USE NoneAssumption, CrashesAssumption DEF Init
<1>1. TypeOK
  BY DEF TypeOK, Answers
<1>2. References
  BY DEF References
<1>3. VerifiedIsPaid /\ BlockExclusive
  BY DEF VerifiedIsPaid, BlockExclusive, InBlock
<1>4. LicenseBacked /\ BoundIffLicensed /\ MemosFollowPayment
  BY DEF LicenseBacked, BoundIffLicensed, MemosFollowPayment
<1>5. QED
  BY <1>1, <1>2, <1>3, <1>4 DEF IInv

\* Every step writes values of the right type: a request only touches rows that
\* exist (References), so that no write reaches a field of None.
LEMMA NextTypeOK == TypeOK /\ References /\ [Next]_vars => TypeOK'
<1> SUFFICES ASSUME TypeOK, References, [Next]_vars PROVE TypeOK'
  OBVIOUS
<1> USE NoneAssumption, CrashesAssumption
      DEF TypeOK, Row, Tx, License, Job, Status, Answers, Running, InBlock, Goto
<1>1. ASSUME NEW a \in Assets, NEW p \in Prices, Reprice(a, p) PROVE TypeOK'
  BY <1>1 DEF Reprice
<1>2. ASSUME NEW i \in Intents, NEW a \in Assets, CreateIntent(i, a) PROVE TypeOK'
  <2>1. NewIntent(a) \in Row
    BY DEF NewIntent
  <2>2. Swept(a) \in [Intents -> Row \cup {None}]
    <3>1. ASSUME NEW j \in Intents
          PROVE  (IF j \in Stale(a) THEN [intents[j] EXCEPT !.status = "expired"]
                                    ELSE intents[j]) \in Row \cup {None}
      BY DEF Stale
    <3>2. QED
      BY <3>1 DEF Swept
  <2>3. intents' \in [Intents -> Row \cup {None}]
    BY <1>2, <2>1, <2>2 DEF CreateIntent
  <2>4. QED
    BY <1>2, <2>3 DEF CreateIntent
<1>3. ASSUME NEW i \in Intents, PassDeadline(i) PROVE TypeOK'
  BY <1>3 DEF PassDeadline
<1>4. ASSUME NEW s \in Sigs, NEW i \in Intents, NEW m \in Prices, SendPayment(s, i, m)
      PROVE TypeOK'
  BY <1>4 DEF SendPayment, Built
<1>5. ASSUME NEW s \in Sigs, Finalize(s) PROVE TypeOK'
  <2>1. chain[s] \in Tx
    BY <1>5 DEF Finalize
  <2>2. [chain[s] EXCEPT !.final = TRUE] \in Tx
    BY <2>1
  <2>3. chain' \in [Sigs -> Tx \cup {None}]
    BY <1>5, <2>2 DEF Finalize
  <2>4. QED
    BY <1>5, <2>3 DEF Finalize
<1>6. ASSUME NEW r \in Requests, NEW i \in Intents, NEW s \in Sigs, Receive(r, i, s)
      PROVE TypeOK'
  BY <1>6 DEF Receive, Loaded
<1>7. ASSUME NEW r \in Requests, Screen(r) PROVE TypeOK'
  BY <1>7 DEF Screen, ResponseFor
<1>8. ASSUME NEW r \in Requests, Expire(r) PROVE TypeOK'
  BY <1>8 DEF Expire, References
<1>9. ASSUME NEW r \in Requests, Probe(r) PROVE TypeOK'
  BY <1>9 DEF Probe
<1>10. ASSUME NEW r \in Requests, Lock(r) PROVE TypeOK'
  BY <1>10 DEF Lock, ResponseFor
<1>11. ASSUME NEW r \in Requests, Certify(r) PROVE TypeOK'
  BY <1>11 DEF Certify
<1>12. ASSUME NEW r \in Requests, Commit(r) PROVE TypeOK'
  <2>1. job[r] \in Job /\ intents[job[r].intent] \in Row
    BY <1>12 DEF Commit, References
  <2>2. LicenseFor(r) \in License
    BY <2>1 DEF LicenseFor
  <2>3. LicenseAfter(r) \in License
    <3>1. (LicenseFor(r).certified \/ certified[r]) \in BOOLEAN
      OBVIOUS
    <3>2. QED
      BY <2>2, <3>1 DEF LicenseAfter
  <2>4. licenses' \in [Sigs -> License \cup {None}]
    BY <1>12, <2>1, <2>3 DEF Commit
  <2>5. intents' \in [Intents -> Row \cup {None}]
    <3>1. SettledRow(intents[job[r].intent], job[r].sig) \in Row
      BY <2>1 DEF SettledRow
    <3>2. QED
      BY <1>12, <2>1, <3>1 DEF Commit
  <2>6. QED
    BY <1>12, <2>4, <2>5 DEF Commit
<1>13. ASSUME NEW r \in Requests, Crash(r) PROVE TypeOK'
  BY <1>13 DEF Crash
<1>14. CASE UNCHANGED vars
  BY <1>14 DEF vars
<1>15. QED
  BY <1>1, <1>2, <1>3, <1>4, <1>5, <1>6, <1>7, <1>8, <1>9, <1>10, <1>11, <1>12, <1>13,
     <1>14 DEF Next, Environment, Worker

\* Which steps write the intent rows, and which the chain.
LEMMA Writers ==
    [Next]_vars =>
      /\ \/ intents' = intents
         \/ \E i \in Intents, a \in Assets : CreateIntent(i, a)
         \/ \E r \in Requests : Expire(r) \/ Commit(r)
      /\ \/ chain' = chain
         \/ \E s \in Sigs, i \in Intents, m \in Prices : SendPayment(s, i, m)
         \/ \E s \in Sigs : Finalize(s)
<1>1. ASSUME NEW r \in Requests, Worker(r) \/ Crash(r)
      PROVE  /\ chain' = chain
             /\ intents' = intents \/ Expire(r) \/ Commit(r)
  BY <1>1 DEF Worker, Screen, Expire, Probe, Lock, Certify, Commit, Crash
<1>2. ASSUME NEW r \in Requests, NEW i \in Intents, NEW s \in Sigs, Receive(r, i, s)
      PROVE  UNCHANGED <<intents, chain>>
  BY <1>2 DEF Receive
<1>3. CASE Environment
  BY <1>3 DEF Environment, Reprice, CreateIntent, PassDeadline, SendPayment, Built, Finalize
<1>4. CASE UNCHANGED vars
  BY <1>4 DEF vars
<1>5. QED
  BY <1>1, <1>2, <1>3, <1>4 DEF Next

\* What no step undoes: a row keeps its asset and amount, a transaction keeps its
\* memo and amount, and a final one stays final.
RowKept(i) ==
    intents[i] # None => /\ intents'[i] # None
                         /\ intents'[i].asset = intents[i].asset
                         /\ intents'[i].amount = intents[i].amount
TxKept(s) ==
    chain[s] # None => /\ chain'[s] # None
                       /\ chain'[s].memo = chain[s].memo
                       /\ chain'[s].amount = chain[s].amount
                       /\ chain[s].final => chain'[s].final

\* No step of the create handler, of a settlement or of the chain rewrites what a
\* payment was checked against.
LEMMA Frozen ==
    TypeOK /\ References /\ [Next]_vars =>
      (\A i \in Intents : RowKept(i)) /\ (\A s \in Sigs : TxKept(s))
<1> SUFFICES ASSUME TypeOK, References, [Next]_vars
             PROVE  (\A i \in Intents : RowKept(i)) /\ (\A s \in Sigs : TxKept(s))
  OBVIOUS
<1>1. ASSUME NEW i \in Intents PROVE RowKept(i)
  <2>0. intents \in [Intents -> Row \cup {None}]
    BY DEF TypeOK
  <2>1. ASSUME NEW j \in Intents, NEW a \in Assets, CreateIntent(j, a) PROVE RowKept(i)
    <3> SUFFICES ASSUME intents[i] # None PROVE RowKept(i)
      BY DEF RowKept
    <3>1. i # j /\ intents'[i] = Swept(a)[i]
      BY <2>0, <2>1 DEF CreateIntent, Swept
    <3>2. Swept(a)[i] = intents[i] \/ Swept(a)[i] = [intents[i] EXCEPT !.status = "expired"]
      BY DEF Swept
    <3>3. intents[i] \in Row
      BY <2>0
    <3>4. QED
      BY <3>1, <3>2, <3>3, NoneAssumption DEF RowKept, Row, Status
  <2>2. ASSUME NEW r \in Requests, Expire(r) PROVE RowKept(i)
    BY <2>0, <2>2, NoneAssumption DEF Expire, RowKept, Row, Status
  <2>3. ASSUME NEW r \in Requests, Commit(r) PROVE RowKept(i)
    <3>1. job[r] \in Job
      BY <2>3 DEF Commit, TypeOK
    <3>2. CASE i # job[r].intent
      BY <2>0, <2>3, <3>1, <3>2 DEF Commit, Job, RowKept
    <3>3. CASE i = job[r].intent /\ intents[i] # None
      <4>1. intents[i] \in Row /\ intents'[i] = SettledRow(intents[i], job[r].sig)
        BY <2>0, <2>3, <3>1, <3>3 DEF Commit, Job
      <4>2. SettledRow(intents[i], job[r].sig) \in Row
        BY <3>1, <4>1 DEF SettledRow, Row, Status, Job
      <4>3. QED
        BY <4>1, <4>2, NoneAssumption DEF RowKept, SettledRow, Row
    <3>4. QED
      BY <3>2, <3>3 DEF RowKept
  <2>4. ASSUME intents' = intents PROVE RowKept(i)
    BY <2>4 DEF RowKept
  <2>5. QED
    BY <2>1, <2>2, <2>3, <2>4, Writers
<1>2. ASSUME NEW s \in Sigs PROVE TxKept(s)
  <2>0. chain \in [Sigs -> Tx \cup {None}]
    BY DEF TypeOK
  <2>1. ASSUME NEW u \in Sigs, NEW i \in Intents, NEW m \in Prices, SendPayment(u, i, m)
        PROVE  TxKept(s)
    BY <2>0, <2>1 DEF SendPayment, Built, TxKept
  <2>2. ASSUME NEW u \in Sigs, Finalize(u) PROVE TxKept(s)
    BY <2>0, <2>2, NoneAssumption DEF Finalize, TxKept, Tx
  <2>3. ASSUME chain' = chain PROVE TxKept(s)
    BY <2>3 DEF TxKept
  <2>4. QED
    BY <2>1, <2>2, <2>3, Writers
<1>3. QED
  BY <1>1, <1>2

\* The points of a request past the Solana check.
Held == {"verified"} \cup InBlock

\* Only the end of a block writes Licenses, and only Certify issues memos.
LEMMA LedgerWriters ==
    [Next]_vars =>
      /\ licenses' = licenses \/ \E r \in Requests : Commit(r)
      /\ memos' = memos \/ \E r \in Requests : Certify(r)
<1>1. ASSUME NEW r \in Requests, Worker(r) \/ Crash(r)
      PROVE  /\ licenses' = licenses \/ Commit(r)
             /\ memos' = memos \/ Certify(r)
  BY <1>1 DEF Worker, Screen, Expire, Probe, Lock, Certify, Commit, Crash
<1>2. ASSUME NEW r \in Requests, NEW i \in Intents, NEW s \in Sigs, Receive(r, i, s)
      PROVE  licenses' = licenses /\ memos' = memos
  BY <1>2 DEF Receive
<1>3. CASE Environment
  BY <1>3 DEF Environment, Reprice, CreateIntent, PassDeadline, SendPayment, Built, Finalize
<1>4. CASE UNCHANGED vars
  BY <1>4 DEF vars
<1>5. QED
  BY <1>1, <1>2, <1>3, <1>4 DEF Next

\* A request gets past the Solana check, and into its block, in one way only.
LEMMA Entering ==
    ASSUME TypeOK, [Next]_vars, NEW q \in Requests, pc'[q] \in Held
    PROVE  /\ job'[q] = job[q]
           /\ \/ pc[q] \in Held
              \/ Final(job[q].sig) /\ Pays(job[q].sig, job[q].intent) /\ pc'[q] = "verified"
           /\ pc'[q] \in InBlock =>
                \/ pc[q] \in InBlock
                \/ /\ Lock(q)
                   /\ ~RowLocked(job[q].intent)
                   /\ intents[job[q].intent].sig \in {None, job[q].sig}
<1> DEFINE Enters ==
      /\ job'[q] = job[q]
      /\ \/ pc[q] \in Held
         \/ Final(job[q].sig) /\ Pays(job[q].sig, job[q].intent) /\ pc'[q] = "verified"
      /\ pc'[q] \in InBlock =>
           \/ pc[q] \in InBlock
           \/ /\ Lock(q)
              /\ ~RowLocked(job[q].intent)
              /\ intents[job[q].intent].sig \in {None, job[q].sig}
<1>0. pc \in [Requests -> Answers \cup Running] /\ job \in [Requests -> Job \cup {None}]
  BY DEF TypeOK
<1> USE DEF Held, InBlock, Goto
<1>1. ASSUME NEW r \in Requests, Worker(r) \/ Crash(r) PROVE Enters
  <2>1. ASSUME Screen(r) PROVE Enters
    BY <1>0, <2>1 DEF Screen, ResponseFor
  <2>2. ASSUME Expire(r) PROVE Enters
    BY <1>0, <2>2 DEF Expire
  <2>3. ASSUME Probe(r) PROVE Enters
    BY <1>0, <2>3 DEF Probe
  <2>4. ASSUME Lock(r) PROVE Enters
    BY <1>0, <2>4 DEF Lock, ResponseFor
  <2>5. ASSUME Certify(r) PROVE Enters
    BY <1>0, <2>5 DEF Certify
  <2>6. ASSUME Commit(r) PROVE Enters
    BY <1>0, <2>6 DEF Commit
  <2>7. ASSUME Crash(r) PROVE Enters
    BY <1>0, <2>7 DEF Crash
  <2>8. QED
    BY <1>1, <2>1, <2>2, <2>3, <2>4, <2>5, <2>6, <2>7 DEF Worker
<1>2. ASSUME NEW r \in Requests, NEW i \in Intents, NEW s \in Sigs, Receive(r, i, s)
      PROVE  Enters
  BY <1>0, <1>2 DEF Receive
<1>3. ASSUME Environment PROVE Enters
  BY <1>3 DEF Environment, Reprice, CreateIntent, PassDeadline, SendPayment, Built, Finalize
<1>4. ASSUME UNCHANGED vars PROVE Enters
  BY <1>4 DEF vars
<1>5. Enters
  BY <1>1, <1>2, <1>3, <1>4 DEF Next
<1>6. QED
  BY <1>5

\* The signature a row is bound to changes only when its own block commits.
LEMMA Binding ==
    ASSUME TypeOK, References, [Next]_vars, NEW i \in Intents, intents[i] # None
    PROVE  \/ intents'[i].sig = intents[i].sig
           \/ \E r \in Requests : Commit(r) /\ job[r].intent = i /\ intents'[i].sig = job[r].sig
<1> DEFINE Bound == \/ intents'[i].sig = intents[i].sig
                    \/ \E r \in Requests :
                         Commit(r) /\ job[r].intent = i /\ intents'[i].sig = job[r].sig
<1>0. intents \in [Intents -> Row \cup {None}] /\ intents[i] \in Row
  BY DEF TypeOK
<1>1. ASSUME NEW j \in Intents, NEW a \in Assets, CreateIntent(j, a) PROVE Bound
  <2>1. i # j /\ intents'[i] = Swept(a)[i]
    BY <1>0, <1>1 DEF CreateIntent, Swept
  <2>2. Swept(a)[i] = intents[i] \/ Swept(a)[i] = [intents[i] EXCEPT !.status = "expired"]
    BY DEF Swept
  <2>3. QED
    BY <1>0, <2>1, <2>2 DEF Row
<1>2. ASSUME NEW r \in Requests, Expire(r) PROVE Bound
  BY <1>0, <1>2 DEF Expire, Row
<1>3. ASSUME NEW r \in Requests, Commit(r) PROVE Bound
  <2>1. job[r] \in Job
    BY <1>3 DEF Commit, TypeOK
  <2>2. CASE job[r].intent = i
    <3>1. intents'[i].sig = job[r].sig
      BY <1>0, <1>3, <2>1, <2>2 DEF Commit, SettledRow, Row
    <3>2. QED
      BY <1>3, <2>2, <3>1
  <2>3. CASE job[r].intent # i
    BY <1>0, <1>3, <2>1, <2>3 DEF Commit
  <2>4. QED
    BY <2>2, <2>3
<1>4. ASSUME intents' = intents PROVE Bound
  BY <1>4
<1>5. Bound
  BY <1>1, <1>2, <1>3, <1>4, Writers
<1>6. QED
  BY <1>5

\* A row starts unbound.
LEMMA Created ==
    ASSUME TypeOK, References, [Next]_vars, NEW i \in Intents, intents[i] = None,
           ~ \E r \in Requests : Commit(r)
    PROVE  intents'[i] = None \/ intents'[i].sig = None
<1>0. intents \in [Intents -> Row \cup {None}]
  BY DEF TypeOK
<1>1. ASSUME NEW j \in Intents, NEW a \in Assets, CreateIntent(j, a)
      PROVE  intents'[i] = None \/ intents'[i].sig = None
  <2>1. Swept(a)[i] = None
    BY DEF Swept, Stale
  <2>2. intents'[i] \in {Swept(a)[i], NewIntent(a)}
    BY <1>0, <1>1 DEF CreateIntent, Swept
  <2>3. QED
    BY <2>1, <2>2 DEF NewIntent
<1>2. ASSUME NEW r \in Requests, Expire(r) PROVE intents'[i] = None
  <2>1. job[r] \in Job /\ intents[job[r].intent] # None
    BY <1>2 DEF Expire, TypeOK, References
  <2>2. QED
    BY <1>0, <1>2, <2>1 DEF Expire, Job
<1>3. QED
  BY <1>1, <1>2, Writers

\* Rows and transactions are never removed: intents protect their assets, and a
\* request and a memo name a row that is there.
LEMMA NextReferences == TypeOK /\ References /\ [Next]_vars => References'
<1> SUFFICES ASSUME TypeOK, References, [Next]_vars PROVE References'
  OBVIOUS
<1>0. /\ job \in [Requests -> Job \cup {None}]
      /\ chain \in [Sigs -> Tx \cup {None}]
  BY DEF TypeOK
<1>1. \A i \in Intents : intents[i] # None => intents'[i] # None
  BY Frozen DEF RowKept
<1>2. ASSUME NEW q \in Requests, job'[q] # None PROVE intents'[job'[q].intent] # None
  <2>1. \/ job' = job
        \/ \E r \in Requests, i \in Intents, s \in Sigs : Receive(r, i, s)
    BY DEF Next, Environment, Reprice, CreateIntent, PassDeadline, SendPayment, Built, Finalize,
           Worker, Screen, Expire, Probe, Lock, Certify, Commit, Crash, vars
  <2>2. CASE job' = job
    BY <1>0, <1>1, <1>2, <2>2 DEF References, Job
  <2>3. ASSUME NEW r \in Requests, NEW i \in Intents, NEW s \in Sigs, Receive(r, i, s)
        PROVE  intents'[job'[q].intent] # None
    BY <1>0, <1>1, <1>2, <2>3 DEF References, Job, Receive, Loaded
  <2>4. QED
    BY <2>1, <2>2, <2>3
<1>3. ASSUME NEW s \in Sigs, chain'[s] # None PROVE intents'[chain'[s].memo] # None
  <2>1. ASSUME NEW u \in Sigs, NEW i \in Intents, NEW m \in Prices, SendPayment(u, i, m)
        PROVE  intents'[chain'[s].memo] # None
    BY <1>0, <1>1, <1>3, <2>1 DEF SendPayment, Built, References, Tx
  <2>2. ASSUME NEW u \in Sigs, Finalize(u) PROVE intents'[chain'[s].memo] # None
    BY <1>0, <1>1, <1>3, <2>2, NoneAssumption DEF Finalize, References, Tx
  <2>3. ASSUME chain' = chain PROVE intents'[chain'[s].memo] # None
    BY <1>0, <1>1, <1>3, <2>3, NoneAssumption DEF References, Tx
  <2>4. QED
    BY <2>1, <2>2, <2>3, Writers
<1>4. QED
  BY <1>2, <1>3 DEF References

\* The verdict of the Solana check stays true while the request waits for the row
\* lock, since amounts are frozen and final transactions do not change.
LEMMA NextVerifiedIsPaid ==
    TypeOK /\ References /\ VerifiedIsPaid /\ [Next]_vars => VerifiedIsPaid'
<1> SUFFICES ASSUME TypeOK, References, VerifiedIsPaid, [Next]_vars,
                    NEW q \in Requests, pc'[q] \in Held
             PROVE  Final(job[q].sig)' /\ Pays(job[q].sig, job[q].intent)'
  BY DEF VerifiedIsPaid, Held, InBlock
<1>1. job'[q] = job[q] /\ Final(job[q].sig) /\ Pays(job[q].sig, job[q].intent)
  BY Entering DEF VerifiedIsPaid, Held
<1>2. job[q] # None
  <2>1. pc'[q] # "idle" /\ TypeOK'
    BY NextTypeOK DEF Held, InBlock
  <2>2. QED
    BY <1>1, <2>1 DEF TypeOK
<1>3. job[q] \in Job /\ intents[job[q].intent] # None
  BY <1>2 DEF TypeOK, References
<1>4. RowKept(job[q].intent) /\ TxKept(job[q].sig)
  BY <1>3, Frozen DEF Job
<1>5. QED
  BY <1>1, <1>3, <1>4 DEF Final, Pays, RowKept, TxKept

\* The lock is taken only when no other block holds it, and no other step than the
\* holder's own Commit binds the row.
LEMMA NextBlockExclusive ==
    TypeOK /\ References /\ BlockExclusive /\ [Next]_vars => BlockExclusive'
<1> SUFFICES ASSUME TypeOK, References, BlockExclusive, [Next]_vars PROVE BlockExclusive'
  OBVIOUS
<1>1. ASSUME NEW r \in Requests, pc'[r] \in InBlock
      PROVE  /\ job'[r] = job[r] /\ job[r] \in Job
             /\ intents[job[r].intent] # None
             /\ \/ pc[r] \in InBlock
                \/ Lock(r) /\ ~RowLocked(job[r].intent)
             /\ intents[job[r].intent].sig \in {None, job[r].sig}
  <2>1. job'[r] = job[r]
    BY <1>1, Entering DEF Held
  <2>2. job[r] # None
    <3>1. TypeOK' /\ pc'[r] # "idle"
      BY <1>1, NextTypeOK DEF InBlock
    <3>2. QED
      BY <2>1, <3>1 DEF TypeOK
  <2>3. QED
    BY <1>1, <2>1, <2>2, Entering DEF Held, TypeOK, References, BlockExclusive
<1>2. ASSUME NEW r \in Requests, NEW q \in Requests, pc'[r] \in InBlock, pc'[q] \in InBlock,
             job'[r].intent = job'[q].intent
      PROVE  r = q
  <2>1. CASE pc[r] \in InBlock /\ pc[q] \in InBlock
    BY <1>1, <1>2, <2>1 DEF BlockExclusive
  <2>2. ASSUME Lock(r) PROVE r = q
    <3>1. r # q => pc'[q] = pc[q]
      BY <2>2 DEF Lock, Goto, TypeOK
    <3>2. QED
      BY <1>1, <1>2, <2>2, <3>1 DEF RowLocked, Lock, InBlock
  <2>3. ASSUME Lock(q) PROVE r = q
    <3>1. r # q => pc'[r] = pc[r]
      BY <2>3 DEF Lock, Goto, TypeOK
    <3>2. QED
      BY <1>1, <1>2, <2>3, <3>1 DEF RowLocked, Lock, InBlock
  <2>4. QED
    BY <1>1, <1>2, <2>1, <2>2, <2>3
<1>3. ASSUME NEW r \in Requests, pc'[r] \in InBlock
      PROVE  intents'[job'[r].intent].sig \in {None, job'[r].sig}
  <2>1. \/ intents'[job[r].intent].sig = intents[job[r].intent].sig
        \/ \E q \in Requests : Commit(q) /\ job[q].intent = job[r].intent
    BY <1>1, <1>3, Binding DEF Job
  <2>2. ASSUME NEW q \in Requests, Commit(q), job[q].intent = job[r].intent
        PROVE  FALSE
    <3>1. pc[q] \in InBlock /\ pc'[q] \notin InBlock /\ (r # q => pc'[r] = pc[r])
      BY <2>2 DEF Commit, Goto, TypeOK, InBlock
    <3>2. QED
      BY <1>3, <2>2, <3>1 DEF BlockExclusive
  <2>3. QED
    BY <1>1, <1>3, <2>1, <2>2
<1>4. QED
  BY <1>2, <1>3 DEF BlockExclusive

\* What a committing request knows.
LEMMA AtCommit ==
    ASSUME IInv, NEW r \in Requests, Commit(r)
    PROVE  /\ job[r] \in Job
           /\ intents[job[r].intent] \in Row
           /\ Final(job[r].sig) /\ Pays(job[r].sig, job[r].intent)
           /\ intents[job[r].intent].sig \in {None, job[r].sig}
           /\ intents' = [intents EXCEPT ![job[r].intent] = SettledRow(@, job[r].sig)]
           /\ chain' = chain
           /\ licenses'[job[r].sig].asset = LicenseFor(r).asset
           /\ licenses'[job[r].sig].price = LicenseFor(r).price
           /\ LicenseFor(r).certified => licenses'[job[r].sig].certified
           /\ licenses'[job[r].sig] # None
           /\ \A s \in Sigs : s # job[r].sig => licenses'[s] = licenses[s]
           /\ LicenseFor(r).asset = intents[job[r].intent].asset
           /\ LicenseFor(r).price = intents[job[r].intent].amount
<1> USE DEF IInv
<1>1. job[r] \in Job /\ intents[job[r].intent] \in Row
  BY DEF TypeOK, References, Commit, Job
<1>2. Final(job[r].sig) /\ Pays(job[r].sig, job[r].intent)
  BY DEF Commit, VerifiedIsPaid, InBlock
<1>3. intents[job[r].intent].sig \in {None, job[r].sig}
  BY DEF Commit, BlockExclusive, InBlock
<1>4. /\ LicenseFor(r) \in License
      /\ LicenseFor(r).asset = intents[job[r].intent].asset
      /\ LicenseFor(r).price = intents[job[r].intent].amount
  BY <1>1, <1>2 DEF LicenseFor, LicenseBacked, Pays, TypeOK, License, Row, Job
<1>5. licenses' = [licenses EXCEPT ![job[r].sig] = LicenseAfter(r)]
  BY DEF Commit
<1>6. LicenseAfter(r) \in License
  <2>1. (LicenseFor(r).certified \/ certified[r]) \in BOOLEAN
    OBVIOUS
  <2>2. QED
    BY <1>4, <2>1 DEF License, LicenseAfter
<1>7. licenses'[job[r].sig] = LicenseAfter(r)
  BY <1>1, <1>5 DEF TypeOK, Job
<1>8. /\ licenses'[job[r].sig].asset = LicenseFor(r).asset
      /\ licenses'[job[r].sig].price = LicenseFor(r).price
      /\ LicenseFor(r).certified => licenses'[job[r].sig].certified
      /\ licenses'[job[r].sig] # None
  BY <1>4, <1>6, <1>7, NoneAssumption DEF License, LicenseAfter
<1>9. \A s \in Sigs : s # job[r].sig => licenses'[s] = licenses[s]
  BY <1>1, <1>5 DEF TypeOK, Job
<1>10. chain' = chain /\ intents' = [intents EXCEPT ![job[r].intent] = SettledRow(@, job[r].sig)]
  BY DEF Commit
<1>11. QED
  BY <1>1, <1>2, <1>3, <1>4, <1>8, <1>9, <1>10

\* Commit licenses what the Solana check verified, on the frozen terms of the row;
\* no other step touches what a License rests on.
LEMMA NextLicenseBacked == IInv /\ [Next]_vars => LicenseBacked'
<1> SUFFICES ASSUME IInv, [Next]_vars, NEW s \in Sigs, licenses'[s] # None
             PROVE  /\ Pays(s, chain[s].memo)' /\ Final(s)'
                    /\ licenses'[s].asset = intents'[chain'[s].memo].asset
                    /\ licenses'[s].price = intents'[chain'[s].memo].amount
  BY DEF LicenseBacked
<1>1. \/ licenses'[s] = licenses[s]
      \/ \E r \in Requests : Commit(r) /\ job[r].sig = s
  <2>1. ASSUME NEW r \in Requests, Commit(r), job[r].sig # s
        PROVE  licenses'[s] = licenses[s]
    BY <2>1, AtCommit
  <2>2. QED
    BY <2>1, LedgerWriters
<1>2. /\ Final(s) /\ Pays(s, chain[s].memo)
      /\ licenses'[s].asset = intents[chain[s].memo].asset
      /\ licenses'[s].price = intents[chain[s].memo].amount
  <2>1. CASE licenses'[s] = licenses[s]
    BY <2>1 DEF IInv, LicenseBacked
  <2>2. ASSUME NEW r \in Requests, Commit(r), job[r].sig = s
        PROVE  /\ Final(s) /\ Pays(s, chain[s].memo)
               /\ licenses'[s].asset = intents[chain[s].memo].asset
               /\ licenses'[s].price = intents[chain[s].memo].amount
    BY <2>2, AtCommit DEF Pays
  <2>3. QED
    BY <1>1, <2>1, <2>2
<1>3. chain[s] \in Tx /\ intents[chain[s].memo] # None
  BY <1>2 DEF IInv, TypeOK, References, Final
<1>4. RowKept(chain[s].memo) /\ TxKept(s)
  BY <1>3, Frozen DEF IInv, Tx
<1>5. QED
  BY <1>2, <1>3, <1>4 DEF Final, Pays, RowKept, TxKept

\* The intent of a payment that has a License exists and is bound to it.
LEMMA LicensedIntent ==
    ASSUME IInv, NEW s \in Sigs, licenses[s] # None
    PROVE  chain[s] \in Tx /\ intents[chain[s].memo] # None /\ intents[chain[s].memo].sig = s
<1>1. chain[s] # None
  BY DEF IInv, LicenseBacked, Final
<1>2. chain[s] \in Tx
  BY <1>1 DEF IInv, TypeOK
<1>3. chain[s].memo \in Intents
  BY <1>2 DEF Tx
<1>4. QED
  BY <1>2, <1>3 DEF IInv, BoundIffLicensed

\* Commit writes the License and the bound signature together; the row lock keeps
\* the row unbound, or bound to the same signature, until then.
LEMMA NextBoundIffLicensed == IInv /\ [Next]_vars => BoundIffLicensed'
<1> SUFFICES ASSUME IInv, [Next]_vars, NEW i \in Intents, NEW s \in Sigs
             PROVE  (intents'[i] # None /\ intents'[i].sig = s)
                      <=> (licenses'[s] # None /\ chain'[s].memo = i)
  BY DEF BoundIffLicensed
<1>1. ASSUME NEW r \in Requests, Commit(r)
      PROVE  (intents'[i] # None /\ intents'[i].sig = s)
               <=> (licenses'[s] # None /\ chain'[s].memo = i)
  <2>1. job[r] \in Job /\ intents[job[r].intent] \in Row /\ job[r].intent = chain[job[r].sig].memo
    BY <1>1, AtCommit DEF Pays
  <2>2. intents \in [Intents -> Row \cup {None}]
    BY DEF IInv, TypeOK
  <2>3. CASE i = job[r].intent
    <3>1. intents'[i] # None /\ intents'[i].sig = job[r].sig
      <4>1. intents'[i] = [intents[i] EXCEPT !.status = "settled", !.sig = job[r].sig]
        BY <1>1, <2>1, <2>2, <2>3, AtCommit DEF Job, SettledRow
      <4>2. [intents[i] EXCEPT !.status = "settled", !.sig = job[r].sig] \in Row
        BY <2>1, <2>3 DEF Row, Status, Job
      <4>3. intents'[i] # None
        BY <4>1, <4>2, NoneAssumption
      <4>4. intents'[i].sig = job[r].sig
        <5>1. intents[i] \in Row
          BY <2>1, <2>3
        <5>2. QED
          BY <4>1, <5>1 DEF Row
      <4>5. QED
        BY <4>3, <4>4
    <3>2. CASE s = job[r].sig
      BY <1>1, <2>1, <2>3, <3>1, <3>2, AtCommit
    <3>3. CASE s # job[r].sig
      <4>1. licenses'[s] = licenses[s] /\ chain' = chain
        BY <1>1, <3>3, AtCommit
      <4>2. ~(licenses[s] # None /\ chain[s].memo = i)
        <5>1. intents[i].sig \in {None, job[r].sig} /\ s # None
          BY <1>1, <2>3, AtCommit, NoneAssumption
        <5>2. QED
          BY <3>3, <5>1, LicensedIntent
      <4>3. QED
        BY <3>1, <3>3, <4>1, <4>2
    <3>4. QED
      BY <3>2, <3>3
  <2>4. CASE i # job[r].intent
    <3>1. intents'[i] = intents[i] /\ chain' = chain
      BY <1>1, <2>1, <2>2, <2>4, AtCommit DEF Job
    <3>2. s # job[r].sig => licenses'[s] = licenses[s]
      BY <1>1, AtCommit
    <3>3. (intents[i] # None /\ intents[i].sig = s) <=> (licenses[s] # None /\ chain[s].memo = i)
      BY DEF IInv, BoundIffLicensed
    <3>4. QED
      BY <2>1, <2>4, <3>1, <3>2, <3>3
  <2>5. QED
    BY <2>3, <2>4
<1>2. ASSUME ~ \E r \in Requests : Commit(r)
      PROVE  (intents'[i] # None /\ intents'[i].sig = s)
               <=> (licenses'[s] # None /\ chain'[s].memo = i)
  <2>1. licenses' = licenses
    BY <1>2, LedgerWriters
  <2>2. (intents'[i] # None /\ intents'[i].sig = s) <=> (intents[i] # None /\ intents[i].sig = s)
    <3>1. CASE intents[i] # None
      BY <1>2, <3>1, Binding, Frozen DEF IInv, RowKept
    <3>2. CASE intents[i] = None
      BY <1>2, <3>2, Created, NoneAssumption DEF IInv
    <3>3. QED
      BY <3>1, <3>2
  <2>3. licenses[s] # None => chain'[s].memo = chain[s].memo
    BY LicensedIntent, Frozen, NoneAssumption DEF IInv, TxKept
  <2>4. QED
    BY <2>1, <2>2, <2>3 DEF IInv, BoundIffLicensed
<1>3. QED
  BY <1>1, <1>2

\* Certify runs inside the block of a verified payment only.
LEMMA NextMemosFollowPayment == IInv /\ [Next]_vars => MemosFollowPayment'
<1> SUFFICES ASSUME IInv, [Next]_vars, NEW s \in Sigs, memos'[s] > 0
             PROVE  Pays(s, chain[s].memo)' /\ Final(s)'
  BY DEF MemosFollowPayment
<1>1. Pays(s, chain[s].memo) /\ Final(s)
  <2>1. CASE memos'[s] = memos[s]
    BY <2>1 DEF IInv, MemosFollowPayment
  <2>2. ASSUME NEW r \in Requests, Certify(r), job[r].sig = s
        PROVE  Pays(s, chain[s].memo) /\ Final(s)
    BY <2>2 DEF Certify, IInv, VerifiedIsPaid, InBlock, Pays
  <2>3. ASSUME NEW r \in Requests, Certify(r), job[r].sig # s
        PROVE  memos'[s] = memos[s]
    BY <2>3 DEF Certify, IInv, TypeOK
  <2>4. QED
    BY <2>1, <2>2, <2>3, LedgerWriters
<1>2. chain[s] \in Tx /\ intents[chain[s].memo] # None
  BY <1>1 DEF IInv, TypeOK, References, Final
<1>3. RowKept(chain[s].memo) /\ TxKept(s)
  BY <1>2, Frozen DEF IInv, Tx
<1>4. QED
  BY <1>1, <1>2, <1>3 DEF Final, Pays, RowKept, TxKept

\* The invariant is inductive.
LEMMA NextIInv == IInv /\ [Next]_vars => IInv'
<1> SUFFICES ASSUME IInv, [Next]_vars PROVE IInv'
  OBVIOUS
<1>1. TypeOK' /\ References'
  BY NextTypeOK, NextReferences DEF IInv
<1>2. VerifiedIsPaid' /\ BlockExclusive'
  BY NextVerifiedIsPaid, NextBlockExclusive DEF IInv
<1>3. LicenseBacked' /\ BoundIffLicensed' /\ MemosFollowPayment'
  BY NextLicenseBacked, NextBoundIffLicensed, NextMemosFollowPayment
<1>4. QED
  BY <1>1, <1>2, <1>3 DEF IInv

\* The inductive invariant holds in every reachable state of the channel.
THEOREM Invariance == Spec => []IInv
  BY InitIInv, NextIInv, PTL DEF Spec

\* Every row, transaction, license and request record stays well formed under
\* every interleaving of the settle view, the chain, the clock and crashes.
THEOREM TypeCorrect == Spec => []TypeOK
<1>1. IInv => TypeOK
  BY DEF IInv
<1>2. QED
  BY Invariance, <1>1, PTL

\* No License exists without a final payment of the frozen amount that names its
\* intent, and it is for that intent's asset and price (views_api.py:810-860).
THEOREM LicensesAreBacked == Spec => []LicenseBacked
<1>1. IInv => LicenseBacked
  BY DEF IInv
<1>2. QED
  BY Invariance, <1>1, PTL

\* The row lock and the unique signature make the bound row and its License one
\* fact, and two payments of one intent give one License (views_api.py:827-860).
THEOREM BindingIsLicensing == Spec => []BoundIffLicensed
<1>1. IInv => BoundIffLicensed
  BY DEF IInv
<1>2. QED
  BY Invariance, <1>1, PTL

\* No certificate memo reaches the chain for an unverified payment, also when the
\* block that issued it rolls back (apps/settlement/services.py:259-284).
THEOREM MemosAreBacked == Spec => []MemosFollowPayment
<1>1. IInv => MemosFollowPayment
  BY DEF IInv
<1>2. QED
  BY Invariance, <1>1, PTL

----------------------------------------------------------------------------
\* What a step keeps of the licenses and of the signatures rows are bound to.
Keeps ==
    /\ \A s \in Sigs : licenses[s] # None =>
          /\ licenses'[s] # None
          /\ licenses'[s].asset = licenses[s].asset
          /\ licenses'[s].price = licenses[s].price
          /\ licenses[s].certified => licenses'[s].certified
    /\ \A i \in Intents : intents[i] # None /\ intents[i].sig # None =>
          intents'[i].sig = intents[i].sig

\* Commit returns the License that is there, and rebinds a row to the signature it
\* already has.
LEMMA NextKeeps == IInv /\ [Next]_vars => Keeps
<1> SUFFICES ASSUME IInv, [Next]_vars PROVE Keeps
  OBVIOUS
<1>1. ASSUME NEW s \in Sigs, licenses[s] # None
      PROVE  /\ licenses'[s] # None
             /\ licenses'[s].asset = licenses[s].asset
             /\ licenses'[s].price = licenses[s].price
             /\ licenses[s].certified => licenses'[s].certified
  <2>1. ASSUME NEW r \in Requests, Commit(r), job[r].sig = s
        PROVE  /\ licenses'[s] # None
               /\ licenses'[s].asset = licenses[s].asset
               /\ licenses'[s].price = licenses[s].price
               /\ licenses[s].certified => licenses'[s].certified
    <3>1. LicenseFor(r) = licenses[s]
      BY <1>1, <2>1 DEF LicenseFor
    <3>2. QED
      BY <2>1, <3>1, AtCommit
  <2>2. ASSUME NEW r \in Requests, Commit(r), job[r].sig # s
        PROVE  licenses'[s] = licenses[s]
    BY <2>2, AtCommit
  <2>3. CASE licenses' = licenses
    BY <1>1, <2>3
  <2>4. QED
    BY <1>1, <2>1, <2>2, <2>3, LedgerWriters
<1>2. ASSUME NEW i \in Intents, intents[i] # None, intents[i].sig # None
      PROVE  intents'[i].sig = intents[i].sig
  <2>1. ASSUME NEW r \in Requests, Commit(r), job[r].intent = i, intents'[i].sig = job[r].sig
        PROVE  intents'[i].sig = intents[i].sig
    BY <1>2, <2>1, AtCommit
  <2>2. QED
    BY <1>2, <2>1, Binding DEF IInv
<1>3. QED
  BY <1>1, <1>2 DEF Keeps

\* No settlement, repeated, concurrent or crashed, rewrites a License or rebinds
\* an intent (views_api.py:827-860, license_service.py:58-87).
THEOREM LicensesArePermanent == Spec => LicensePermanent
<1>1. IInv /\ [Next]_vars => [Keeps]_vars
  BY NextKeeps
<1>2. QED
  BY Invariance, <1>1, PTL DEF Spec, LicensePermanent, Keeps

----------------------------------------------------------------------------
\* A payment of the ledger is decided by the transaction alone: what the channel's
\* rows add to it is frozen.
LEMMA PaidKept ==
    ASSUME IInv, [Next]_vars, NEW s \in Sigs
    PROVE  PaidFor(s)' = PaidFor(s) \/ Finalize(s)
<1>1. CASE Final(s)
  <2>1. chain[s] \in Tx /\ intents[chain[s].memo] # None
    BY <1>1 DEF IInv, TypeOK, References, Final
  <2>2. RowKept(chain[s].memo) /\ TxKept(s)
    BY <2>1, Frozen DEF IInv, Tx
  <2>3. QED
    BY <1>1, <2>1, <2>2 DEF PaidFor, Final, RowKept, TxKept
<1>2. CASE ~Final(s)
  <2>0. chain \in [Sigs -> Tx \cup {None}]
    BY DEF IInv, TypeOK
  <2>1. ASSUME NEW u \in Sigs, NEW i \in Intents, NEW m \in Prices, SendPayment(u, i, m)
        PROVE  ~Final(s)'
    BY <1>2, <2>0, <2>1 DEF SendPayment, Built, Final
  <2>2. ASSUME NEW u \in Sigs, Finalize(u), u # s PROVE ~Final(s)'
    BY <1>2, <2>0, <2>2 DEF Finalize, Final
  <2>3. ASSUME chain' = chain PROVE ~Final(s)'
    BY <1>2, <2>3 DEF Final
  <2>4. ~Final(s)' \/ Finalize(s)
    BY <2>1, <2>2, <2>3, Writers
  <2>5. QED
    BY <1>2, <2>4 DEF PaidFor
<1>3. QED
  BY <1>1, <1>2

\* The ledger sees a grant only at the first Commit of a signature.
LEMMA GrantedKept ==
    ASSUME IInv, [Next]_vars, NEW s \in Sigs
    PROVE  \/ GrantedFor(s)' = GrantedFor(s)
           \/ \E r \in Requests : Commit(r) /\ job[r].sig = s /\ licenses[s] = None
<1>1. CASE licenses[s] # None
  BY <1>1, NextKeeps DEF Keeps, GrantedFor
<1>2. CASE licenses[s] = None
  <2>1. ASSUME NEW r \in Requests, Commit(r), job[r].sig # s
        PROVE  licenses'[s] = licenses[s]
    BY <2>1, AtCommit
  <2>2. QED
    BY <1>2, <2>1, LedgerWriters DEF GrantedFor
<1>3. QED
  BY <1>1, <1>2

\* A function that differs from f at one point is f updated there.
LEMMA PointUpdate ==
    ASSUME NEW S, NEW s \in S, NEW v, NEW f, NEW g,
           f = [t \in S |-> f[t]], g = [t \in S |-> g[t]],
           g[s] = v, \A t \in S : t # s => g[t] = f[t]
    PROVE  g = [f EXCEPT ![s] = v]
  OBVIOUS

\* Finalize is the ledger's Pay, the first Commit of a signature its Grant, and every
\* other step a stutter.
LEMMA StepsAreLedgerSteps == IInv /\ [Next]_vars => [Ledger!Next]_(Ledger!vars)
<1> SUFFICES ASSUME IInv, [Next]_vars PROVE Ledger!Next \/ UNCHANGED Ledger!vars
  OBVIOUS
<1>1. ASSUME NEW s \in Sigs, Finalize(s) PROVE Ledger!Pay(s)
  <2>1. chain[s] \in Tx /\ intents[chain[s].memo] \in Row
    BY <1>1 DEF IInv, TypeOK, References, Finalize, Tx
  <2>2. PaidFor(s) = None
    BY <1>1 DEF Finalize, PaidFor, Final
  <2>3. chain'[s] = [chain[s] EXCEPT !.final = TRUE] /\ intents' = intents
    BY <1>1 DEF IInv, TypeOK, Finalize
  <2>4. PaidFor(s)' = [purchase |-> chain[s].memo,
                       terms |-> [asset |-> intents[chain[s].memo].asset,
                                  price |-> chain[s].amount]]
    BY <2>1, <2>3, NoneAssumption DEF PaidFor, Final, Tx
  <2>5. PaidFor(s)' \in Ledger!Payment
    BY <2>1, <2>4 DEF Ledger!Payment, Tx, Row, Terms
  <2>6. ASSUME NEW t \in Sigs, t # s PROVE PaidFor(t)' = PaidFor(t)
    <3>1. ~Finalize(t)
      BY <1>1, <2>1, <2>6 DEF IInv, TypeOK, Finalize, Tx
    <3>2. QED
      BY <3>1, PaidKept
  <2>7. ASSUME NEW t \in Sigs PROVE GrantedFor(t)' = GrantedFor(t)
    BY <1>1 DEF Finalize, GrantedFor
  <2>8. QED
    BY <2>2, <2>5, <2>6, <2>7 DEF Ledger!Pay
<1>2. ASSUME NEW r \in Requests, Commit(r), NEW s \in Sigs, job[r].sig = s,
             licenses[s] = None
      PROVE  Ledger!Grant(s)
  <2>1. /\ s \in Sigs /\ Final(s) /\ Pays(s, job[r].intent)
        /\ chain[s] \in Tx /\ chain' = chain
        /\ intents[job[r].intent] \in Row
    <3>1. /\ job[r] \in Job /\ Final(s) /\ Pays(s, job[r].intent) /\ chain' = chain
          /\ intents[job[r].intent] \in Row
      BY <1>2, AtCommit
    <3>2. s \in Sigs
      BY <3>1 DEF Job
    <3>3. chain[s] \in Tx
      BY <3>1, <3>2 DEF IInv, TypeOK, Final
    <3>4. QED
      BY <3>1, <3>2, <3>3
  <2>2. GrantedFor(s) = None /\ PaidFor(s) # None
    <3>1. PaidFor(s) \in [purchase: Intents, terms: [asset: Assets, price: Prices]]
      BY <2>1 DEF PaidFor, Tx, Row, Pays
    <3>2. QED
      BY <1>2, <3>1, NoneAssumption DEF GrantedFor
  <2>3. PaidFor(s).purchase = job[r].intent
    BY <2>1 DEF PaidFor, Pays
  <2>4. GrantedFor(s)' = PaidFor(s).terms
    <3>1. /\ licenses'[s] # None
          /\ licenses'[s].asset = intents[job[r].intent].asset
          /\ licenses'[s].price = intents[job[r].intent].amount
      BY <1>2, AtCommit
    <3>2. GrantedFor(s)' = [asset |-> intents[job[r].intent].asset,
                            price |-> intents[job[r].intent].amount]
      BY <3>1, <1>2 DEF GrantedFor, Commit
    <3>3. QED
      BY <2>1, <3>2 DEF PaidFor, Pays
  <2>5. ASSUME NEW t \in Sigs, GrantedFor(t) # None
        PROVE  PaidFor(t).purchase # PaidFor(s).purchase
    <3>1. licenses[t] # None /\ t # s
      BY <1>2, <2>5 DEF GrantedFor
    <3>2. intents[chain[t].memo].sig = t /\ Final(t)
      BY <3>1, LicensedIntent DEF IInv, LicenseBacked
    <3>3. intents[job[r].intent].sig # t
      BY <1>2, <3>1, AtCommit, NoneAssumption
    <3>4. QED
      BY <2>3, <3>2, <3>3 DEF PaidFor
  <2>6. ASSUME NEW t \in Sigs, t # s PROVE GrantedFor(t)' = GrantedFor(t)
    BY <1>2, <2>6, AtCommit DEF GrantedFor
  <2>7. ASSUME NEW t \in Sigs PROVE PaidFor(t)' = PaidFor(t)
    <3>1. ~Finalize(t)
      BY <1>2, <2>1 DEF Commit, Finalize, IInv, TypeOK, Tx
    <3>2. QED
      BY <3>1, PaidKept
  <2>8. [t \in Sigs |-> GrantedFor(t)]'
          = [[t \in Sigs |-> GrantedFor(t)] EXCEPT ![s] = PaidFor(s).terms]
    <3> DEFINE f == [t \in Sigs |-> GrantedFor(t)]
    <3> DEFINE v == PaidFor(s).terms
    <3>1. f = [t \in Sigs |-> f[t]] /\ f' = [t \in Sigs |-> f'[t]]
      OBVIOUS
    <3>2. f'[s] = v
      BY <2>1, <2>4
    <3>3. ASSUME NEW t \in Sigs, t # s PROVE f'[t] = f[t]
      BY <2>6, <3>3
    <3> HIDE DEF f, v
    <3>4. f' = [f EXCEPT ![s] = v]
      BY <3>1, <3>2, <3>3, PointUpdate
    <3>5. QED
      BY <3>4 DEF f, v
  <2>9. [t \in Sigs |-> PaidFor(t)]' = [t \in Sigs |-> PaidFor(t)]
    BY <2>7
  <2>10. /\ [t \in Sigs |-> PaidFor(t)][s] = PaidFor(s)
         /\ [t \in Sigs |-> GrantedFor(t)][s] = GrantedFor(s)
    BY <2>1
  <2>11. \A t \in Sigs : [u \in Sigs |-> GrantedFor(u)][t] # None =>
             [u \in Sigs |-> PaidFor(u)][t].purchase # [u \in Sigs |-> PaidFor(u)][s].purchase
    BY <2>5, <2>10
  <2>12. QED
    BY <2>2, <2>8, <2>9, <2>10, <2>11 DEF Ledger!Grant
<1>3. CASE /\ ~ \E s \in Sigs : Finalize(s)
           /\ ~ \E r \in Requests : Commit(r) /\ licenses[job[r].sig] = None
  BY <1>3, PaidKept, GrantedKept DEF Ledger!vars
<1>4. ASSUME NEW r \in Requests, Commit(r) PROVE job[r].sig \in Sigs
  BY <1>4, AtCommit DEF Job
<1>5. QED
  BY <1>1, <1>2, <1>3, <1>4 DEF Ledger!Next

\* Whatever the interleaving of settlements, prices, deadlines and crashes, the
\* channel takes only the steps of the license ledger: one License per purchase,
\* against a final payment, on the terms that payment bought.
THEOREM ChannelImplementsLedger == Spec => ImplementsLedger
<1>1. Init => Ledger!Init
  BY DEF Init, Ledger!Init, PaidFor, GrantedFor, Final
<1>2. QED
  BY <1>1, StepsAreLedgerSteps, Invariance, PTL DEF Spec, ImplementsLedger, Ledger!Spec
=============================================================================
