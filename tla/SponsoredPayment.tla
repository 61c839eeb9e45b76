-------------------------- MODULE SponsoredPayment --------------------------
(***************************************************************************)
(* Sponsor-paid USDC checkout: a SponsoredPaymentIntent is created with a  *)
(* frozen amount and a deadline, the buyer's signed transaction becomes    *)
(* final on Solana, and POST .../settle turns the payment into a License.  *)
(*                                                                         *)
(* Settlement requests run concurrently in separate web workers.  A        *)
(* request reads the intent row without a lock, talks to Solana, and only  *)
(* then re-reads the row under SELECT ... FOR UPDATE; each of those parts  *)
(* is a step here, so that other requests, the clock, the chain and a dead *)
(* worker come in between.  The writes of the atomic block become visible  *)
(* at once, at Commit.  A certificate memo is on chain as soon as it is    *)
(* issued, whatever happens to the block after it.                         *)
(***************************************************************************)
EXTENDS Naturals

CONSTANTS
    Intents,     \* ids of SponsoredPaymentIntent rows
    Requests,    \* settlement requests in flight (web workers)
    Sigs,        \* signatures of Solana transactions
    Assets,
    Prices,      \* amounts of USDC
    MaxCrashes,  \* bound: workers that die in the middle of a request
    None

Status  == {"created", "settled", "expired"}
Row     == [asset: Assets, amount: Prices, status: Status, sig: Sigs \cup {None}]
Tx      == [memo: Intents, amount: Prices, final: BOOLEAN]
License == [asset: Assets, price: Prices, certified: BOOLEAN]
Job     == [intent: Intents, sig: Sigs, status: Status, bound: Sigs \cup {None}]

ASSUME NoneAssumption ==
    /\ None \notin Sigs
    /\ None \notin Row
    /\ None \notin Tx
    /\ None \notin License
    /\ None \notin Job
    /\ None \notin [purchase: Intents, terms: [asset: Assets, price: Prices]]

ASSUME CrashesAssumption == MaxCrashes \in Nat

VARIABLES
    price,     \* price[a]: what a purchase of a costs now (target or agreed price)
    intents,   \* intents[i]: the committed row of intent i, None before creation
    late,      \* the intents whose expires_at has passed
    chain,     \* chain[s]: the transaction with signature s, None until sent
    licenses,  \* licenses[s]: the committed License with payment_tx_sig = s
    memos,     \* memos[s]: certificate memos issued on chain for payment s
    pc,        \* pc[r]: where request r is, or how it was answered
    job,       \* job[r]: the intent and signature r submits, and the row r read
    certified, \* certified[r]: the certificate r issued inside its open block
    crashes    \* workers that died so far

vars == <<price, intents, late, chain, licenses, memos, pc, job, certified, crashes>>

----------------------------------------------------------------------------
\* The answers: 200 PAID, 202, 409 expired, 409 conflict, 422, 503 or a dropped
\* connection.  A request that was answered may be sent again.
Answers == {"idle", "paid", "pending", "expired", "conflict", "invalid", "failed"}
InBlock == {"locked", "certified"}
Running == {"loaded", "expiring", "probing", "verified"} \cup InBlock

TypeOK ==
    /\ price \in [Assets -> Prices]
    /\ intents \in [Intents -> Row \cup {None}]
    /\ late \in SUBSET Intents
    /\ chain \in [Sigs -> Tx \cup {None}]
    /\ licenses \in [Sigs -> License \cup {None}]
    /\ memos \in [Sigs -> Nat]
    /\ pc \in [Requests -> Answers \cup Running]
    /\ job \in [Requests -> Job \cup {None}]
    /\ \A r \in Requests : pc[r] # "idle" => job[r] # None
    /\ certified \in [Requests -> BOOLEAN]
    /\ crashes \in 0..MaxCrashes

Init ==
    /\ price \in [Assets -> Prices]
    /\ intents = [i \in Intents |-> None]
    /\ late = {}
    /\ chain = [s \in Sigs |-> None]
    /\ licenses = [s \in Sigs |-> None]
    /\ memos = [s \in Sigs |-> 0]
    /\ pc = [r \in Requests |-> "idle"]
    /\ job = [r \in Requests |-> None]
    /\ certified = [r \in Requests |-> FALSE]
    /\ crashes = 0

----------------------------------------------------------------------------
(***************************************************************************)
(* The seller, the buyer, the chain and the clock.                         *)
(***************************************************************************)

\* Some request holds the row lock of intent i.
RowLocked_NoLock(i) == FALSE
RowLocked(i) == \E r \in Requests : pc[r] \in InBlock /\ job[r].intent = i

\* The price a new purchase is quoted moves: update_asset_terms edits the target
\* amount, or a later negotiation round changes the accepted session's price.
Reprice(a, p) ==
    /\ price' = [price EXCEPT ![a] = p]
    /\ UNCHANGED <<intents, late, chain, licenses, memos, pc, job, certified, crashes>>

\* The intents of asset a that the bulk update of a new purchase expires.
Stale(a) == {i \in late : intents[i] # None /\ intents[i].asset = a
                                           /\ intents[i].status = "created"}

\* The row the create handler inserts: today's price, frozen.
NewIntent(a) == [asset |-> a, amount |-> price[a], status |-> "created", sig |-> None]

Swept(a) == [j \in Intents |->
    IF j \in Stale(a) THEN [intents[j] EXCEPT !.status = "expired"] ELSE intents[j]]

\* _create_sponsored_usdc_intent.  The bulk update waits for the row locks it
\* needs.  The sponsor may be unable to sign: then only the expiry stays.
CreateIntent(i, a) ==
    /\ intents[i] = None
    /\ \A j \in Stale(a) : ~RowLocked(j)
    /\ \/ intents' = [Swept(a) EXCEPT ![i] = NewIntent(a)]
       \/ intents' = Swept(a)
    /\ UNCHANGED <<price, late, chain, licenses, memos, pc, job, certified, crashes>>

PassDeadline(i) ==
    /\ intents[i] # None
    /\ late' = late \cup {i}
    /\ UNCHANGED <<price, intents, chain, licenses, memos, pc, job, certified, crashes>>

\* build_transaction: one transfer and one memo; the memo names the intent.
Built(i, m) == [memo |-> i, amount |-> m, final |-> FALSE]

\* The buyer signs and sends a transfer that carries the memo of intent i.
SendPayment(s, i, m) ==
    /\ chain[s] = None
    /\ intents[i] # None
    /\ chain' = [chain EXCEPT ![s] = Built(i, m)]
    /\ UNCHANGED <<price, intents, late, licenses, memos, pc, job, certified, crashes>>

Finalize(s) ==
    /\ chain[s] # None
    /\ ~chain[s].final
    /\ chain' = [chain EXCEPT ![s].final = TRUE]
    /\ UNCHANGED <<price, intents, late, licenses, memos, pc, job, certified, crashes>>

----------------------------------------------------------------------------
(***************************************************************************)
(* _settle_sponsored_usdc_intent, one request r at a time.                 *)
(***************************************************************************)

\* r leaves the code with answer a, or reaches the point a of it.
Goto(r, a) == pc' = [pc EXCEPT ![r] = a]

\* What r read when it loaded the intent.
Loaded(i, s) == [intent |-> i, sig |-> s,
                 status |-> intents[i].status, bound |-> intents[i].sig]

\* The unlocked read of the row.
Receive(r, i, s) ==
    /\ pc[r] \in Answers
    /\ intents[i] # None
    /\ Goto(r, "loaded")
    /\ job' = [job EXCEPT ![r] = Loaded(i, s)]
    /\ UNCHANGED <<price, intents, late, chain, licenses, memos, certified, crashes>>

\* _sponsored_payment_response: PAID with the license of the bound signature.
ResponseFor(sig) == IF licenses[sig] # None THEN "paid" ELSE "failed"

\* Another intent row already carries signature s.
UsedElsewhere(i, s) == \E j \in Intents \ {i} : intents[j] # None /\ intents[j].sig = s

\* The checks before Solana is asked, in the order the code makes them.
Screen(r) ==
    LET i == job[r].intent
        s == job[r].sig
    IN  /\ pc[r] = "loaded"
        /\ \/ /\ job[r].status = "settled"
              /\ Goto(r, ResponseFor(job[r].bound))
           \/ /\ job[r].status # "settled"
              /\ i \in late
              /\ Goto(r, "expiring")
           \/ /\ job[r].status # "settled"
              /\ i \notin late
              /\ IF job[r].bound \notin {None, s} \/ UsedElsewhere(i, s)
                 THEN Goto(r, "conflict")
                 ELSE Goto(r, "probing")
        /\ UNCHANGED <<price, intents, late, chain, licenses, memos, job, certified, crashes>>

\* intent.save(update_fields=["status"]) waits for the row lock and then writes,
\* whatever the row says by now.
Expire(r) ==
    LET i == job[r].intent
    IN  /\ pc[r] = "expiring"
        /\ ~RowLocked(i)
        /\ intents' = [intents EXCEPT ![i].status = "expired"]
        /\ Goto(r, "expired")
        /\ UNCHANGED <<price, late, chain, licenses, memos, job, certified, crashes>>

Final(s) == chain[s] # None /\ chain[s].final

\* The transaction s moved exactly the intent's amount with the intent's memo.
Pays(s, i) == chain[s] # None /\ chain[s].memo = i /\ chain[s].amount = intents[i].amount

\* is_transaction_finalized, then verify_usdc_payment; the RPC node may be down.

Probe(r) ==
    LET i == job[r].intent
        s == job[r].sig
    IN  /\ pc[r] = "probing"
        /\ \/ Goto(r, "failed")
           \/ /\ ~Final(s)
              /\ Goto(r, "pending")
           \/ /\ Final(s)
              /\ Goto(r, IF Pays(s, i) THEN "verified" ELSE "invalid")
        /\ UNCHANGED <<price, intents, late, chain, licenses, memos, job, certified, crashes>>

\* select_for_update: the row is read again under its lock.  The unique index on
\* transaction_signature refuses a signature another row carries.
Lock_UnboundConflicts(r) ==
    LET i == job[r].intent
        s == job[r].sig
    IN  /\ pc[r] = "verified"
        /\ ~RowLocked(i)
        /\ Goto(r, IF intents[i].status = "settled" THEN ResponseFor(intents[i].sig)
                   ELSE IF intents[i].sig # s THEN "conflict" ELSE "locked")
        /\ certified' = [certified EXCEPT ![r] = FALSE]
        /\ UNCHANGED <<price, intents, late, chain, licenses, memos, job, crashes>>

Lock(r) ==
    LET i == job[r].intent
        s == job[r].sig
    IN  /\ pc[r] = "verified"
        /\ ~RowLocked(i)
        /\ \/ /\ intents[i].status = "settled"
              /\ Goto(r, ResponseFor(intents[i].sig))
           \/ /\ intents[i].status # "settled"
              /\ intents[i].sig \notin {None, s}
              /\ Goto(r, "conflict")
           \/ /\ intents[i].status # "settled"
              /\ intents[i].sig \in {None, s}
              /\ Goto(r, IF UsedElsewhere(i, s) THEN "failed" ELSE "locked")
        /\ certified' = [certified EXCEPT ![r] = FALSE]
        /\ UNCHANGED <<price, intents, late, chain, licenses, memos, job, crashes>>

\* LicenseService.grant: the existing License of the signature, or a new one.
LicenseFor_LivePrice(r) ==
    LET i == job[r].intent
        s == job[r].sig
    IN  IF licenses[s] # None
        THEN licenses[s]
        ELSE [asset |-> intents[i].asset, price |-> price[intents[i].asset], certified |-> FALSE]

LicenseFor(r) ==
    LET i == job[r].intent
        s == job[r].sig
    IN  IF licenses[s] # None
        THEN licenses[s]
        ELSE [asset |-> intents[i].asset, price |-> intents[i].amount, certified |-> FALSE]

\* The row and the License as the block leaves them.  A certificate that fails
\* leaves certificate_tx_sig alone.
SettledRow_Unbound(row, s) == [row EXCEPT !.status = "settled"]
SettledRow(row, s) == [row EXCEPT !.status = "settled", !.sig = s]

LicenseAfter(r) == [LicenseFor(r) EXCEPT !.certified = @ \/ certified[r]]

\* _issue_certificate: a memo on chain, or a failure that keeps the license.
Certify(r) ==
    LET s == job[r].sig
    IN  /\ pc[r] = "locked"
        /\ Goto(r, "certified")
        /\ \E ok \in BOOLEAN :
              /\ certified' = [certified EXCEPT ![r] = ok]
              /\ memos' = IF ok THEN [memos EXCEPT ![s] = @ + 1] ELSE memos
        /\ UNCHANGED <<price, intents, late, chain, licenses, job, crashes>>

\* The block ends: the License and the settled row become visible together.
Commit(r) ==
    LET i == job[r].intent
        s == job[r].sig
    IN  /\ pc[r] = "certified"
        /\ licenses' = [licenses EXCEPT ![s] = LicenseAfter(r)]
        /\ intents' = [intents EXCEPT ![i] = SettledRow(@, s)]
        /\ Goto(r, "paid")
        /\ UNCHANGED <<price, late, chain, memos, job, certified, crashes>>

\* The worker dies or an exception escapes: an open block is rolled back.
Crash(r) ==
    /\ pc[r] \in Running
    /\ crashes < MaxCrashes
    /\ crashes' = crashes + 1
    /\ Goto(r, "failed")
    /\ UNCHANGED <<price, intents, late, chain, licenses, memos, job, certified>>

----------------------------------------------------------------------------
Worker(r) == Screen(r) \/ Expire(r) \/ Probe(r) \/ Lock(r) \/ Certify(r) \/ Commit(r)

Environment ==
    \/ \E a \in Assets, p \in Prices : Reprice(a, p)
    \/ \E i \in Intents, a \in Assets : CreateIntent(i, a)
    \/ \E i \in Intents : PassDeadline(i)
    \/ \E s \in Sigs, i \in Intents, m \in Prices : SendPayment(s, i, m)
    \/ \E s \in Sigs : Finalize(s)

Next ==
    \/ Environment
    \/ \E r \in Requests, i \in Intents, s \in Sigs : Receive(r, i, s)
    \/ \E r \in Requests : Worker(r) \/ Crash(r)

Spec == Init /\ [][Next]_vars

----------------------------------------------------------------------------
(***************************************************************************)
(* Properties.                                                             *)
(***************************************************************************)

\* A License exists only against a final transaction that carried the memo of an
\* intent and moved exactly the amount frozen in it; the License is for that
\* intent's asset and price, however prices moved meanwhile and whatever else was
\* being settled.
LicenseBacked ==
    \A s \in Sigs : licenses[s] # None =>
        LET i == chain[s].memo
        IN  /\ Pays(s, i) /\ Final(s)
            /\ licenses[s].asset = intents[i].asset
            /\ licenses[s].price = intents[i].amount

\* A row is bound to a signature exactly when that signature has its License:
\* neither half of the atomic block is ever visible without the other, and an
\* intent paid twice is licensed once.
BoundIffLicensed ==
    \A i \in Intents, s \in Sigs :
        (intents[i] # None /\ intents[i].sig = s)
            <=> (licenses[s] # None /\ chain[s].memo = i)

\* A certificate memo reaches the chain only for a payment that is final and
\* matches its intent, also when the block that issued it is rolled back later.
MemosFollowPayment ==
    \A s \in Sigs : memos[s] > 0 => Pays(s, chain[s].memo) /\ Final(s)

\* The signature an intent is bound to never changes, and a License once granted
\* keeps its asset, its price and, when it has one, its certificate: a repeated
\* settlement whose certificate fails does not lose the earlier one.
LicensePermanent ==
    [][/\ \A s \in Sigs : licenses[s] # None =>
             /\ licenses'[s] # None
             /\ licenses'[s].asset = licenses[s].asset
             /\ licenses'[s].price = licenses[s].price
             /\ licenses[s].certified => licenses'[s].certified
       /\ \A i \in Intents : intents[i] # None /\ intents[i].sig # None =>
             intents'[i].sig = intents[i].sig]_vars

\* Intent i has a final matching payment, is still open for it, and stays so.
Payable(i) ==
    /\ intents[i] # None
    /\ i \notin late
    /\ \E s \in Sigs : /\ Final(s) /\ Pays(s, i)
                        /\ ~UsedElsewhere(i, s)

\* A buyer who keeps polling with a final payment before the deadline ends with a
\* settled intent, and with the License of LicenseBacked.
PolledPaymentSettles ==
    \A i \in Intents : <>[]Payable(i) => <>(intents[i] # None /\ intents[i].status = "settled")

(***************************************************************************)
(* Fairness.  A web worker runs its request to the end; the row lock       *)
(* serves its waiters.  The RPC node is not down for ever.  Clients poll   *)
(* the settle endpoint with every payment they sent.                       *)
(***************************************************************************)
ProbeAnswered(r, s) == Probe(r) /\ job[r].sig = s /\ pc'[r] # "failed"

Fairness ==
    /\ \A r \in Requests : /\ WF_vars(Worker(r))
                            /\ SF_vars(Lock(r))
                            /\ SF_vars(Expire(r))
    /\ \A r \in Requests, s \in Sigs : SF_vars(ProbeAnswered(r, s))
    /\ \A i \in Intents, s \in Sigs : SF_vars(\E r \in Requests : Receive(r, i, s))

FairSpec == Spec /\ Fairness

----------------------------------------------------------------------------
(***************************************************************************)
(* The channel implements the license ledger: a final transaction is a     *)
(* payment for the intent its memo names, and Commit grants the license.   *)
(***************************************************************************)
Terms == [asset: Assets, price: Prices]

PaidFor(s) ==
    IF Final(s)
    THEN [purchase |-> chain[s].memo,
          terms |-> [asset |-> intents[chain[s].memo].asset, price |-> chain[s].amount]]
    ELSE None

GrantedFor(s) ==
    IF licenses[s] # None
    THEN [asset |-> licenses[s].asset, price |-> licenses[s].price]
    ELSE None

Ledger == INSTANCE LicenseLedger WITH
    Purchases <- Intents,
    paid      <- [s \in Sigs |-> PaidFor(s)],
    granted   <- [s \in Sigs |-> GrantedFor(s)]

\* Seen from outside, whatever the requests, the clock and the crashes do, the
\* channel only ever takes the ledger's steps.
ImplementsLedger == Ledger!Spec
=============================================================================
