--------------------------- MODULE SettlePipeline ---------------------------
(***************************************************************************)
(* SettlementService.settle_pipeline as the channels without an intent     *)
(* call it: POST /settle, the pay.sh webhook's synchronous fallback, and   *)
(* the agent's native SOL payment.  None of them opens a transaction, so   *)
(* every database access, chain call and transfer of the pipeline is a     *)
(* step: verify, look for the License, insert it, issue the certificate,   *)
(* save it on the License, and for a derivative work pay out the royalty   *)
(* legs one after the other.  The Firestore mirror, the BigQuery row and   *)
(* the events swallow their errors and are read by no step; they are left  *)
(* out.  The creators of a derivative work and of its parent have          *)
(* different wallets.                                                      *)
(*                                                                         *)
(* transfer_usdc is the interface of a backend that RoyaltyService is      *)
(* given: the fake of the tests sends, SolanaService.transfer_usdc always  *)
(* raises until SPL signing is wired.  TransferWired chooses between them, *)
(* and a backend that sends may still raise, before or after the transfer. *)
(***************************************************************************)
EXTENDS Naturals, Sequences

CONSTANTS
    Assets,
    Derivatives,    \* the assets registered with a parent (which is not one of Assets)
    Sigs,           \* signatures of Solana transactions
    Amounts,
    Requests,       \* settlement requests in flight
    TransferWired,  \* does the backend of the escrow wallet send USDC at all?
    MaxCerts,       \* bound: issuing fails once this many certificates are out
    MaxLost,        \* bound: transfers of one leg that are made although the call raised
    MaxCrashes,     \* bound: workers that die in the middle of a request
    None

ASSUME DerivativesAssumption == Derivatives \subseteq Assets
ASSUME WiredAssumption == TransferWired \in BOOLEAN
ASSUME BoundsAssumption == MaxCerts \in Nat /\ MaxLost \in Nat /\ MaxCrashes \in Nat

Roles   == {"original", "secondary"}
Tx      == [currency: {"USDC", "SOL"}, payee: {"seller", "escrow"}, amount: Amounts,
            memo: Assets \cup {None}]
License == [asset: Assets, price: Amounts, certificate: Nat \cup {None}]
Places  == {"verify", "look", "insert", "certify", "save", "read", "send", "record"}
Job     == [at: Places, currency: {"USDC", "SOL"}, asset: Assets, derived: BOOLEAN, sig: Sigs,
            amount: Amounts, held: Assets \cup {None}, fresh: BOOLEAN,
            cert: Nat \cup {None}, role: Roles, sent: BOOLEAN]

ASSUME NoneAssumption ==
    None \notin Assets /\ None \notin Tx /\ None \notin License /\ None \notin Job

VARIABLES
    price,      \* price[a]: what asset a costs now
    live,       \* the assets that are not deleted
    derived,    \* the assets whose parent_asset is set: they are paid to the escrow wallet
    chain,      \* chain[s]: the transaction s, None until it is confirmed
    licenses,   \* licenses[s]: the License with payment_tx_sig = s
    certs,      \* the certificate memos on chain: which asset, for which payment
    legs,       \* the RoyaltyDistribution rows: <<payment, role, status>>
    transfers,  \* transfers[<<s, role>>]: USDC transfers made for that leg
    unheard,    \* unheard[<<s, role>>]: those of them whose call raised all the same
    req,        \* req[r]: what the worker of request r holds, None when it answered:
                \* the asset as it was read, the amount resolved, the asset of its
                \* License object, whether it created that, and the last outcomes
    crashes     \* workers that died so far

tables == <<licenses, certs, legs, transfers, unheard>>
world  == <<price, live, derived, chain>>
vars   == <<price, live, derived, chain, licenses, certs, legs, transfers, unheard, req,
            crashes>>

TypeOK ==
    /\ price \in [Assets -> Amounts]
    /\ live \in SUBSET Assets
    /\ derived \in SUBSET Derivatives
    /\ chain \in [Sigs -> Tx \cup {None}]
    /\ licenses \in [Sigs -> License \cup {None}]
    /\ \A k \in DOMAIN certs : certs[k] \in [asset: Assets, sig: Sigs]
    /\ legs \in SUBSET (Sigs \X Roles \X {"settled", "failed"})
    /\ transfers \in [Sigs \X Roles -> Nat]
    /\ unheard \in [Sigs \X Roles -> 0..MaxLost]
    /\ req \in [Requests -> Job \cup {None}]
    /\ crashes \in 0..MaxCrashes
    /\ \A s \in Sigs : licenses[s] # None => licenses[s].asset \in live

Init ==
    /\ price \in [Assets -> Amounts]
    /\ live = Assets
    /\ derived = Derivatives
    /\ chain = [s \in Sigs |-> None]
    /\ licenses = [s \in Sigs |-> None]
    /\ certs = <<>>
    /\ legs = {}
    /\ transfers = [l \in Sigs \X Roles |-> 0]
    /\ unheard = [l \in Sigs \X Roles |-> 0]
    /\ req = [r \in Requests |-> None]
    /\ crashes = 0

----------------------------------------------------------------------------
(***************************************************************************)
(* The seller, the buyer and the chain.                                    *)
(***************************************************************************)

\* resolve_pay_to, of an asset object with or without a parent.
PayTo(hasParent) == IF hasParent THEN "escrow" ELSE "seller"

\* update_asset_terms, or another accepted negotiation price.
Reprice(a, m) ==
    /\ a \in live
    /\ price' = [price EXCEPT ![a] = m]
    /\ UNCHANGED <<live, derived, chain, tables, req, crashes>>

\* delete_asset: "asset.licenses.all().delete()", and the asset.
Delete(a) ==
    /\ a \in live
    /\ live' = live \ {a}
    /\ licenses' = [s \in Sigs |->
          IF licenses[s] # None /\ licenses[s].asset = a THEN None ELSE licenses[s]]
    /\ legs' = {l \in legs : licenses[l[1]].asset # a}
    /\ UNCHANGED <<price, derived, chain, certs, transfers, unheard, req, crashes>>

\* delete_asset of the parent: "asset.derivatives.update(parent_asset=None, ...)".
Orphan(a) ==
    /\ a \in derived \cap live
    /\ derived' = derived \ {a}
    /\ UNCHANGED <<price, live, chain, tables, req, crashes>>

\* A USDC payment of /settle carries no memo; the SOL terms prescribe one.
Pay(s, t) ==
    /\ chain[s] = None
    /\ t.memo = None <=> t.currency = "USDC"
    /\ chain' = [chain EXCEPT ![s] = t]
    /\ UNCHANGED <<price, live, derived, tables, req, crashes>>

----------------------------------------------------------------------------
(***************************************************************************)
(* One request r at a time.                                                *)
(***************************************************************************)
Goto(r, p) == req' = [req EXCEPT ![r].at = p]
Answer(r)  == req' = [req EXCEPT ![r] = None]

\* The asset is read and the amount resolved: from its price, or (webhook) from the
\* payload.  The SOL channel refuses derivative works.
Receive(r, currency, a, s, m) ==
    /\ req[r] = None
    /\ a \in live
    /\ currency = "SOL" => m = price[a] /\ a \notin derived
    /\ req' = [req EXCEPT ![r] =
          [at |-> "verify", currency |-> currency, asset |-> a, derived |-> a \in derived,
           sig |-> s, amount |-> m, held |-> None, fresh |-> FALSE, cert |-> None,
           role |-> "original", sent |-> FALSE]]
    /\ UNCHANGED <<world, tables, crashes>>

\* verify_usdc_payment compares recipient and amount, verify_sol_payment_transaction
\* also the memo.
Matches(j) ==
    LET t == chain[j.sig]
    IN  /\ t # None
        /\ t.currency = j.currency
        /\ t.payee = PayTo(j.derived)
        /\ t.amount = j.amount
        /\ j.currency = "SOL" => t.memo = j.asset

\* Step A; the first alternative is an RPC node that does not answer.
Verify_KnownPayment(r) ==
    /\ req[r] # None /\ req[r].at = "verify"
    /\ \/ Answer(r)
       \/ (licenses[req[r].sig] # None \/ Matches(req[r])) /\ Goto(r, "look")
    /\ UNCHANGED <<world, tables, crashes>>

Verify(r) ==
    /\ req[r] # None /\ req[r].at = "verify"
    /\ \/ Answer(r)
       \/ Matches(req[r]) /\ Goto(r, "look")
    /\ UNCHANGED <<world, tables, crashes>>

\* grant, first half: any License with this payment is returned as it is.
Look(r) ==
    LET l == licenses[req[r].sig]
    IN  /\ req[r] # None /\ req[r].at = "look"
        /\ req' = IF l = None
                  THEN [req EXCEPT ![r].at = "insert"]
                  ELSE [req EXCEPT ![r].at = "certify", ![r].held = l.asset]
        /\ UNCHANGED <<world, tables, crashes>>

NewLicense_LivePrice(j) ==
    [asset |-> j.asset, price |-> price[j.asset], certificate |-> None]

NewLicense(j) == [asset |-> j.asset, price |-> j.amount, certificate |-> None]

\* grant, second half: the unique index, or the deleted asset, makes it fail.
Insert(r) ==
    LET j == req[r]
    IN  /\ j # None /\ j.at = "insert"
        /\ \/ /\ licenses[j.sig] # None \/ j.asset \notin live
              /\ Answer(r)
              /\ UNCHANGED licenses
           \/ /\ licenses[j.sig] = None /\ j.asset \in live
              /\ licenses' = [licenses EXCEPT ![j.sig] = NewLicense(j)]
              /\ req' = [req EXCEPT ![r].at = "certify", ![r].held = j.asset, ![r].fresh = TRUE]
        /\ UNCHANGED <<world, certs, legs, transfers, unheard, crashes>>

\* Step F runs for a request that read a derivative.  distribute loads the License's
\* asset, unless this request created it, and the parent; what is missing there ends
\* step F with a swallowed exception.
Distributes(j) ==
    /\ j.derived
    /\ j.held \in derived
    /\ j.fresh \/ j.held \in live

AfterCertificate(r) ==
    IF Distributes(req[r]) THEN Goto(r, "read") ELSE Answer(r)

\* The memo of the certificate names the work and the payment it is for.
Memo(j) == [asset |-> j.asset, sig |-> j.sig]

\* _issue_certificate: a new memo for the requested asset, or a failure.  The bound is
\* the first conjunct of the memo.
Certify(r) ==
    /\ req[r] # None /\ req[r].at = "certify"
    /\ \/ /\ Len(certs) < MaxCerts
          /\ certs' = Append(certs, Memo(req[r]))
          /\ req' = [req EXCEPT ![r].at = "save", ![r].cert = Len(certs) + 1]
       \/ /\ AfterCertificate(r)
          /\ UNCHANGED certs
    /\ UNCHANGED <<world, licenses, legs, transfers, unheard, crashes>>

\* The row r works on is still there.  (Only a deleted asset takes it away, so a
\* License with another asset is another row.)
HeldRow(r) ==
    LET l == licenses[req[r].sig]
    IN  l # None /\ l.asset = req[r].held

\* license.save(update_fields=["certificate_tx_sig"]), best effort.
SaveCertificate(r) ==
    /\ req[r] # None /\ req[r].at = "save"
    /\ licenses' = [licenses EXCEPT ![req[r].sig] =
          IF HeldRow(r) THEN [@ EXCEPT !.certificate = req[r].cert] ELSE @]
    /\ AfterCertificate(r)
    /\ UNCHANGED <<world, certs, legs, transfers, unheard, crashes>>

----------------------------------------------------------------------------
(***************************************************************************)
(* RoyaltyService.distribute: the original leg, then the secondary one.    *)
(***************************************************************************)
AfterLeg_Stops(r, role) == Answer(r)
AfterLeg(r, role) ==
    IF role = "original"
    THEN req' = [req EXCEPT ![r].at = "read", ![r].role = "secondary"]
    ELSE Answer(r)

\* _settle_leg returns a leg that is settled already.
ReadLeg_Forgets(r, role) ==
    /\ req[r] # None /\ req[r].at = "read" /\ req[r].role = role
    /\ Goto(r, "send")
    /\ UNCHANGED <<world, tables, crashes>>

ReadLeg(r, role) ==
    /\ req[r] # None /\ req[r].at = "read" /\ req[r].role = role
    /\ IF <<req[r].sig, role, "settled">> \in legs
       THEN AfterLeg(r, role)
       ELSE Goto(r, "send")
    /\ UNCHANGED <<world, tables, crashes>>

\* transfer_usdc, from the escrow wallet: a transfer that is reported, one whose call
\* raises when it is made (a time-out after the broadcast), or none.
Transfer(r, role) ==
    LET l == <<req[r].sig, role>>
    IN  /\ req[r] # None /\ req[r].at = "send" /\ req[r].role = role
        /\ \/ /\ TransferWired
              /\ transfers' = [transfers EXCEPT ![l] = @ + 1]
              /\ req' = [req EXCEPT ![r].at = "record", ![r].sent = TRUE]
              /\ UNCHANGED unheard
           \/ /\ TransferWired /\ unheard[l] < MaxLost
              /\ transfers' = [transfers EXCEPT ![l] = @ + 1]
              /\ unheard' = [unheard EXCEPT ![l] = @ + 1]
              /\ req' = [req EXCEPT ![r].at = "record", ![r].sent = FALSE]
           \/ /\ req' = [req EXCEPT ![r].at = "record", ![r].sent = FALSE]
              /\ UNCHANGED <<transfers, unheard>>
        /\ UNCHANGED <<world, licenses, certs, legs, crashes>>

LegStatus_Always(r)  == "settled"
LegStatus(r) == IF req[r].sent THEN "settled" ELSE "failed"

\* rec.save(): without the License row it raises, which ends the distribution.
RecordLeg(r, role) ==
    /\ req[r] # None /\ req[r].at = "record" /\ req[r].role = role
    /\ \/ /\ HeldRow(r)
          /\ legs' = legs \cup {<<req[r].sig, role, LegStatus(r)>>}
          /\ AfterLeg(r, role)
       \/ /\ ~HeldRow(r)
          /\ Answer(r)
          /\ UNCHANGED legs
    /\ UNCHANGED <<world, licenses, certs, transfers, unheard, crashes>>

Royalty(r) == \E role \in Roles : ReadLeg(r, role) \/ Transfer(r, role) \/ RecordLeg(r, role)

\* The worker dies: what it wrote and sent stays.
Crash(r) ==
    /\ req[r] # None
    /\ crashes < MaxCrashes
    /\ crashes' = crashes + 1
    /\ Answer(r)
    /\ UNCHANGED <<world, tables>>

Worker(r) ==
    Verify(r) \/ Look(r) \/ Insert(r) \/ Certify(r) \/ SaveCertificate(r) \/ Royalty(r)

Next ==
    \/ \E a \in Assets : Delete(a) \/ Orphan(a) \/ \E m \in Amounts : Reprice(a, m)
    \/ \E s \in Sigs, t \in Tx : Pay(s, t)
    \/ \E r \in Requests, c \in {"USDC", "SOL"}, a \in Assets, s \in Sigs, m \in Amounts :
          Receive(r, c, a, s, m)
    \/ \E r \in Requests : Worker(r) \/ Crash(r)

Spec == Init /\ [][Next]_vars

----------------------------------------------------------------------------
(***************************************************************************)
(* Fairness.  Workers run.  The buyer, or pay.sh, submits the payment to   *)
(* /settle again and again as long as it has no License for it, and the    *)
(* RPC node does not fail every time.  Nothing is asked of the transfers.  *)
(***************************************************************************)
Submit(r, a, s) ==
    /\ licenses[s] = None
    /\ \E m \in Amounts : m = price[a] /\ Receive(r, "USDC", a, s, m)

Answered(r, a, s) ==
    /\ Verify(r)
    /\ req[r].currency = "USDC" /\ req[r].asset = a /\ req[r].sig = s
    /\ req'[r] # None

Fairness ==
    \A r \in Requests :
        /\ WF_vars(Worker(r))
        /\ \A a \in Assets, s \in Sigs :
              /\ SF_vars(Submit(r, a, s))
              /\ SF_vars(Answered(r, a, s))

FairSpec == Spec /\ Fairness

----------------------------------------------------------------------------
(***************************************************************************)
(* What must hold in every state.                                          *)
(***************************************************************************)

\* A License stands for a transaction that paid its recorded price to the right wallet:
\* the escrow as long as the asset has a parent, the seller when it never had one; a
\* memo on the transaction names the licensed asset (settle_pipeline, steps A and B).
\* Prices, parents and payments change between verification and insertion, and the
\* same payment is submitted for two assets at once.
LicenseIsPaid ==
    \A s \in Sigs :
        LET l == licenses[s]
            t == chain[s]
        IN  l # None =>
              /\ t # None /\ t.amount = l.price /\ t.memo \in {None, l.asset}
              /\ l.asset \in derived => t.payee = "escrow"
              /\ l.asset \notin Derivatives => t.payee = "seller"

\* A certificate memo is written only for a payment to the payee of the asset it names,
\* also when the payment is replayed against a License that exists (step A runs before
\* the idempotent grant of step B).
CertificatesArePaid ==
    \A k \in DOMAIN certs :
        LET t == chain[certs[k].sig]
        IN  /\ t # None
            /\ t.memo \in {None, certs[k].asset}
            /\ certs[k].asset \in derived => t.payee = "escrow"
            /\ certs[k].asset \notin Derivatives => t.payee = "seller"

\* A royalty leg recorded as settled was really sent, and only out of a payment that
\* went to the escrow (_settle_leg; crashes and failed transfers in between).
SettledLegsWereSent ==
    \A s \in Sigs, role \in Roles :
        /\ <<s, role, "settled">> \in legs => transfers[<<s, role>>] > 0
        /\ transfers[<<s, role>>] > 0 => chain[s] # None /\ chain[s].payee = "escrow"

\* "no re-transfer, no double-pay on replay" (_settle_leg): while no worker dies and no
\* work is deleted (its rows go, and the payment can be used again), a leg of a licensed
\* payment is sent once, and again only for each call that raised after it had sent: that
\* one was recorded as failed, and the replay cannot tell it from a transfer never made.
Undisturbed == crashes = 0 /\ live = Assets

RoyaltyPaidOnce ==
    Undisturbed =>
        \A s \in Sigs, role \in Roles :
            licenses[s] # None => transfers[<<s, role>>] <= 1 + unheard[<<s, role>>]

----------------------------------------------------------------------------
(***************************************************************************)
(* What eventually happens, under FairSpec.                                *)
(***************************************************************************)

\* The transaction s pays the price of asset a as /settle expects it.
PaysFor(s, a) ==
    /\ a \in live
    /\ chain[s] = [currency |-> "USDC", payee |-> IF a \in derived THEN "escrow" ELSE "seller",
                   amount |-> price[a], memo |-> None]

\* The License of such a payment for a derivative work gets a row for each of its royalty
\* legs, unless the payment was submitted for another work or a worker died: a transfer
\* that fails, as all do until SPL signing is wired, is recorded and never keeps the other
\* leg from its turn (RoyaltyService.distribute, R9: a retry finds the failed rows).
RoyaltiesAreRecorded ==
    \A s \in Sigs, a \in Assets :
        <>[](PaysFor(s, a) /\ a \in derived) =>
            <>(\/ crashes > 0
               \/ licenses[s] # None /\ licenses[s].asset # a
               \/ \A role \in Roles : \E status \in {"settled", "failed"} :
                      <<s, role, status>> \in legs)
=============================================================================
