------------------------- MODULE SettlementProofs -------------------------
(***************************************************************************)
(* Proofs about MCSettlement, the settlement of batch orders beside the    *)
(* pipeline for single purchases: each part behaves as its specification   *)
(* says, so that what is proved of the parts holds of the composition, for *)
(* every set of works, payments and requests.                              *)
(***************************************************************************)
EXTENDS MCSettlement, TLAPS

\* SettlePipeline with its proofs, over the variables of Single.
Pipeline == INSTANCE SettlePipelineProofs
              WITH Sigs <- Payments, chain <- paid, licenses <- granted,
                   crashes <- died, MaxCrashes <- 0

\* Single and Pipeline are the same specification.  A step of the world is one of both,
LEMMA SameWorld ==
    /\ Single!Init => Pipeline!Init
    /\ \A a \in Assets : Single!Delete(a) => Pipeline!Delete(a)
    /\ \A a \in Assets : Single!Orphan(a) => Pipeline!Orphan(a)
    /\ \A a \in Assets, m \in Amounts : Single!Reprice(a, m) => Pipeline!Reprice(a, m)
    /\ \A s \in Payments, t \in Single!Tx :
          t \in Pipeline!Tx /\ (Single!Pay(s, t) => Pipeline!Pay(s, t))
<1>1. Single!Init => Pipeline!Init
  BY DEF Single!Init, Pipeline!Init, Single!Roles, Pipeline!Roles
<1>2. ASSUME NEW a \in Assets
      PROVE  /\ Single!Delete(a) => Pipeline!Delete(a)
             /\ Single!Orphan(a) => Pipeline!Orphan(a)
             /\ \A m \in Amounts : Single!Reprice(a, m) => Pipeline!Reprice(a, m)
  BY DEF Single!Delete, Single!Orphan, Single!Reprice, Single!tables, Pipeline!Delete,
         Pipeline!Orphan, Pipeline!Reprice, Pipeline!tables
<1>3. ASSUME NEW s \in Payments, NEW t \in Single!Tx
      PROVE  t \in Pipeline!Tx /\ (Single!Pay(s, t) => Pipeline!Pay(s, t))
  BY DEF Single!Tx, Single!Pay, Single!tables, Pipeline!Tx, Pipeline!Pay, Pipeline!tables
<1>4. QED
  BY <1>1, <1>2, <1>3

\* and so is a step of a request.
LEMMA SameRequests ==
    ASSUME NEW r \in Requests
    PROVE  /\ Single!Worker(r) => Pipeline!Worker(r)
           /\ Single!Crash(r) => Pipeline!Crash(r)
           /\ \A c \in {"USDC", "SOL"}, a \in Assets, s \in Payments, m \in Amounts :
                 Single!Receive(r, c, a, s, m) => Pipeline!Receive(r, c, a, s, m)
<1>1. Single!Verify(r) => Pipeline!Verify(r)
  BY DEF Single!Verify, Single!Matches, Single!PayTo, Single!Goto, Single!Answer,
         Single!world, Single!tables, Pipeline!Verify, Pipeline!Matches, Pipeline!PayTo,
         Pipeline!Goto, Pipeline!Answer, Pipeline!world, Pipeline!tables
<1>2. Single!Look(r) \/ Single!Insert(r) => Pipeline!Look(r) \/ Pipeline!Insert(r)
  BY DEF Single!Look, Single!Insert, Single!NewLicense, Single!Answer, Single!world,
         Single!tables, Pipeline!Look, Pipeline!Insert, Pipeline!NewLicense,
         Pipeline!Answer, Pipeline!world, Pipeline!tables
<1>3. Single!Certify(r) \/ Single!SaveCertificate(r) =>
          Pipeline!Certify(r) \/ Pipeline!SaveCertificate(r)
  BY DEF Single!Certify, Single!Memo, Single!SaveCertificate, Single!HeldRow,
         Single!AfterCertificate, Single!Distributes, Single!Goto, Single!Answer,
         Single!world, Pipeline!Certify, Pipeline!Memo, Pipeline!SaveCertificate,
         Pipeline!HeldRow, Pipeline!AfterCertificate, Pipeline!Distributes, Pipeline!Goto,
         Pipeline!Answer, Pipeline!world
<1>4. Single!Royalty(r) => Pipeline!Royalty(r)
  BY DEF Single!Royalty, Single!ReadLeg, Single!Transfer, Single!RecordLeg,
         Single!AfterLeg, Single!LegStatus, Single!HeldRow, Single!Goto, Single!Answer,
         Single!Roles, Single!world, Single!tables, Pipeline!Royalty, Pipeline!ReadLeg,
         Pipeline!Transfer, Pipeline!RecordLeg, Pipeline!AfterLeg, Pipeline!LegStatus,
         Pipeline!HeldRow, Pipeline!Goto, Pipeline!Answer, Pipeline!Roles, Pipeline!world,
         Pipeline!tables
<1>5. Single!Crash(r) => Pipeline!Crash(r)
  BY DEF Single!Crash, Single!Answer, Single!world, Single!tables, Pipeline!Crash,
         Pipeline!Answer, Pipeline!world, Pipeline!tables
<1>6. ASSUME NEW c, NEW a, NEW s, NEW m, Single!Receive(r, c, a, s, m)
      PROVE  Pipeline!Receive(r, c, a, s, m)
  BY <1>6 DEF Single!Receive, Single!world, Single!tables, Pipeline!Receive,
              Pipeline!world, Pipeline!tables
<1>7. QED
  BY <1>1, <1>2, <1>3, <1>4, <1>5, <1>6 DEF Single!Worker, Pipeline!Worker

\* A behaviour of the composition is one of both parts: the part whose turn it is takes
\* the step, the other stutters.
THEOREM PartsBehave == SettlementSpec => Spec /\ Pipeline!Spec
<1>1. SettlementInit => Init /\ Pipeline!Init
  BY SameWorld DEF SettlementInit
<1>2. Single!Next => Pipeline!Next
  BY SameWorld, SameRequests DEF Single!Next, Pipeline!Next
<1>3. [SettlementNext]_<<part, vars, singleVars>> =>
          [Next]_vars /\ [Pipeline!Next]_(Pipeline!vars)
  BY <1>2 DEF SettlementNext, singleVars, Pipeline!vars
<1>4. QED
  BY <1>1, <1>3, PTL DEF SettlementSpec, Spec, Pipeline!Spec

\* The constants are as the pipeline assumes them to be.
LEMMA PipelineAssumptions ==
    /\ None \notin Assets /\ None \notin Pipeline!Tx
    /\ None \notin Pipeline!License /\ None \notin Pipeline!Job
    /\ Derivatives \subseteq Assets
    /\ TransferWired \in BOOLEAN
    /\ MaxCerts \in Nat /\ MaxLost \in Nat /\ 0 \in Nat
BY SingleAssumption
DEF Single!Tx, Single!License, Single!Job, Single!Places, Single!Roles,
    Pipeline!Tx, Pipeline!License, Pipeline!Job, Pipeline!Places, Pipeline!Roles

\* A License of a single purchase stands for a transaction that paid its price to the
\* right payee, while batch orders are settled beside it.
THEOREM LicensesArePaidFor == SettlementSpec => []LicenseIsPaid
<1>1. Pipeline!Spec => []Pipeline!LicenseIsPaid
  BY PipelineAssumptions, Pipeline!LicensesArePaidFor
<1>2. Pipeline!LicenseIsPaid => LicenseIsPaid
  BY DEF LicenseIsPaid, Pipeline!LicenseIsPaid, Single!LicenseIsPaid
<1>3. QED
  BY <1>1, <1>2, PartsBehave, PTL

\* A certificate memo of a single purchase names a work that its payment paid for.
THEOREM CertificatesArePaidFor == SettlementSpec => []CertificatesArePaid
<1>1. Pipeline!Spec => []Pipeline!CertificatesArePaid
  BY PipelineAssumptions, Pipeline!CertificatesArePaidFor
<1>2. Pipeline!CertificatesArePaid => CertificatesArePaid
  BY DEF CertificatesArePaid, Pipeline!CertificatesArePaid, Single!CertificatesArePaid
<1>3. QED
  BY <1>1, <1>2, PartsBehave, PTL

\* A settled royalty leg was sent, out of a payment to the escrow.
THEOREM RoyaltiesWereSent == SettlementSpec => []SettledLegsWereSent
<1>1. Pipeline!Spec => []Pipeline!SettledLegsWereSent
  BY PipelineAssumptions, Pipeline!RoyaltiesWereSent
<1>2. Pipeline!SettledLegsWereSent => SettledLegsWereSent
  BY DEF SettledLegsWereSent, Pipeline!SettledLegsWereSent, Single!SettledLegsWereSent,
         Pipeline!Roles, Single!Roles
<1>3. QED
  BY <1>1, <1>2, PartsBehave, PTL
=============================================================================
