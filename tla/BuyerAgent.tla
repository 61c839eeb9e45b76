----------------------------- MODULE BuyerAgent -----------------------------
(***************************************************************************)
(* One conversation with the buyer agent, which buys one work from the     *)
(* shop of module Checkout with its own wallet.  The language model calls  *)
(* the tools in any order it likes: the model makes every call possible    *)
(* and keeps what the tools themselves do: remember the last accepted      *)
(* negotiation, ask the user for approval, check the price against the     *)
(* delegated limit, pay, wait for the chain, and collect the License.      *)
(***************************************************************************)
EXTENDS Checkout

CONSTANTS
    Limit,      \* the delegated limit per payment
    MaxTurns    \* bound: decisions the user takes

ASSUME LimitAssumption == Limit \in Nat
ASSUME TurnsAssumption == MaxTurns \in Nat

Gated == {"x402", "sol"}
Tools == Gated \cup {"sponsored"}
NoCall == [route |-> None, deal |-> None, offer |-> None, sig |-> None]

VARIABLES
    mode,       \* buyer:payment_mode of the current turn
    approval,   \* buyer:payment_approval
    remembered, \* buyer:accepted_x402_sessions, for this work
    pc,         \* where the purchase tool is, "idle" when none runs
    call,       \* what the tool was called with, was quoted and has sent
    purchased,  \* signatures reported to the user as a purchase
    approved,   \* approved[t]: how often the user has approved a purchase with tool t
    signed      \* signed[t]: payments tool t has signed since approvals are asked for

agentVars == <<mode, approval, remembered, pc, call, purchased, approved, signed>>
vars == <<shopVars, agentVars>>

Approval == [method: Gated, decision: {"pending", "approved", "declined", "consumed"}]
Call == [route: Tools \cup {None}, deal: Deals \cup {None}, offer: Prices \cup {None},
         sig: Sigs \cup {None}]

ASSUME ApprovalNone == None \notin Approval

TypeOK ==
    /\ ShopTypeOK
    /\ mode \in {"autonomous", "approval"}
    /\ approval \in Approval \cup {None}
    /\ remembered \in Deals \cup {None}
    /\ pc \in {"idle", "quoting", "paying", "charging", "confirming", "settling", "granting"}
    /\ call \in Call
    /\ purchased \subseteq Sigs
    /\ approved \in [Gated -> 0..MaxTurns]
    /\ signed \in [Gated -> Nat]

Init ==
    /\ ShopInit
    /\ mode \in {"autonomous", "approval"}
    /\ approval = None
    /\ remembered = None
    /\ pc = "idle"
    /\ call = NoCall
    /\ purchased = {}
    /\ approved = [t \in Gated |-> 0]
    /\ signed = [t \in Gated |-> 0]

----------------------------------------------------------------------------
\* The user answers the pending request; the server compares it with what is pending.
Decide(t, decision) ==
    /\ pc = "idle"
    /\ mode = "approval"
    /\ approval = [method |-> t, decision |-> "pending"]
    /\ approved[t] < MaxTurns
    /\ approval' = [approval EXCEPT !.decision = decision]
    /\ approved' = [approved EXCEPT ![t] = IF decision = "approved" THEN @ + 1 ELSE @]
    /\ UNCHANGED <<shopVars, mode, remembered, pc, call, purchased, signed>>

\* negotiate_license and its USDC twins: ACCEPT is remembered, any other answer makes
\* the agent forget the agreement it had.  The tool that falls back to the list price is
\* a sequence of such rounds.
Negotiate(d, c, p) ==
    /\ pc = "idle"
    /\ Accept(d, c, p)
    /\ remembered' = d
    /\ UNCHANGED <<asset, chain, licenses, references, edits,
                   mode, approval, pc, call, purchased, approved, signed>>

NotAccepted ==
    /\ pc = "idle"
    /\ remembered # None
    /\ remembered' = None
    /\ UNCHANGED <<shopVars, mode, approval, pc, call, purchased, approved, signed>>

----------------------------------------------------------------------------
(***************************************************************************)
(* The gate of the x402 and SOL tools: in approval mode a purchase pauses  *)
(* until the user has approved this tool, and uses the approval up.        *)
(***************************************************************************)
Granting(t) == mode # "approval" \/ t \notin Gated \/ approval = [method |-> t, decision |-> "approved"]

\* Gate_Keeps lets an approval stand for later purchases.  (Sponsored purchases are not
\* asked for.)
Gate_Keeps(t) == IF Granting(t) THEN approval ELSE [method |-> t, decision |-> "pending"]
Gate(t) ==
    IF mode # "approval" \/ t \notin Gated THEN approval
    ELSE IF approval # None /\ approval.method = t /\ approval.decision \in {"approved", "declined"}
         THEN [method |-> t, decision |-> "consumed"]
         ELSE [method |-> t, decision |-> "pending"]

\* A purchase tool is called with an explicit session, or without one.
Purchase(t, d) ==
    /\ pc = "idle"
    /\ approval' = Gate(t)
    /\ IF Granting(t)
       THEN /\ pc' = "quoting"
            /\ call' = [NoCall EXCEPT !.route = t, !.deal = IF d # None THEN d ELSE remembered]
       ELSE UNCHANGED <<pc, call>>
    /\ UNCHANGED <<shopVars, mode, remembered, purchased, approved, signed>>

\* The tool reports an error, and what it knew is gone.
Fail == pc' = "idle" /\ call' = NoCall

WithinLimit(p) == p <= Limit

\* The terms are read, and checked against the policy.  A sponsored intent fixes them.
Read ==
    /\ pc = "quoting"
    /\ LET p == Quote(call.route, call.deal)
       IN  IF p # None /\ WithinLimit(p)
           THEN pc' = "paying" /\ call' = [call EXCEPT !.offer = p]
           ELSE Fail
    /\ UNCHANGED <<shopVars, mode, approval, remembered, purchased, approved, signed>>

Signs == signed' = [t \in Gated |-> IF mode = "approval" /\ t = call.route THEN signed[t] + 1
                                                                          ELSE signed[t]]

\* x402: the signed payment goes back to the server, which reads the work and the
\* negotiation once and goes on if the payment is what they ask for now;
Present ==
    /\ pc = "paying"
    /\ call.route = "x402"
    /\ Signs
    /\ \/ Fail
       \/ Payable(call.offer, call.deal) /\ pc' = "charging" /\ UNCHANGED call
    /\ UNCHANGED <<shopVars, mode, approval, remembered, purchased, approved>>

\* the facilitator charges it while both rows may be rewritten.  It may refuse, and the
\* answer of one that has charged may be lost.
Charge ==
    /\ pc = "charging"
    /\ \/ Fail /\ UNCHANGED chain
       \/ \E s \in Sigs :
             /\ Broadcast(s, "x402", call.offer, call.deal, TRUE)
             /\ \/ Fail
                \/ pc' = "granting" /\ call' = [call EXCEPT !.sig = s]
    /\ UNCHANGED <<asset, deals, licenses, references, edits,
                   mode, approval, remembered, purchased, approved, signed>>

\* SOL and sponsored USDC: the agent broadcasts; the RPC node may refuse, or take the
\* transaction and fail to answer.
Send ==
    /\ pc = "paying"
    /\ call.route # "x402"
    /\ Signs
    /\ \/ Fail /\ UNCHANGED chain
       \/ \E s \in Sigs :
             /\ Broadcast(s, call.route, call.offer, call.deal, FALSE)
             /\ \/ Fail
                \/ /\ pc' = IF call.route = "sol" THEN "confirming" ELSE "settling"
                   /\ call' = [call EXCEPT !.sig = s]
    /\ UNCHANGED <<asset, deals, licenses, references, edits,
                   mode, approval, remembered, purchased, approved>>

\* SOL: twelve polls for the confirmation, then the agent gives up.
Confirm ==
    /\ pc = "confirming"
    /\ \/ chain[call.sig].landed /\ pc' = "settling" /\ UNCHANGED call
       \/ ~chain[call.sig].landed /\ Fail
    /\ UNCHANGED <<shopVars, mode, approval, remembered, purchased, approved, signed>>

\* SOL: the server verifies the transfer against the terms of now.
SettleSol ==
    /\ pc = "settling"
    /\ call.route = "sol"
    /\ LET p == Quote("sol", call.deal)
       IN  IF p # None /\ Verified(call.sig, "sol", p, call.deal)
           THEN pc' = "granting" /\ call' = [call EXCEPT !.offer = p]
           ELSE Fail
    /\ UNCHANGED <<shopVars, mode, approval, remembered, purchased, approved, signed>>

\* The pipeline: License and answer, License and no answer, or neither.
Pipeline ==
    /\ pc = "granting"
    /\ \/ UNCHANGED <<licenses, purchased>>
       \/ Grant(call.sig, call.route, call.offer, call.deal) /\ UNCHANGED purchased
       \/ Grant(call.sig, call.route, call.offer, call.deal) /\ purchased' = purchased \cup {call.sig}
    /\ Fail
    /\ UNCHANGED <<asset, deals, chain, references, edits,
                   mode, approval, remembered, approved, signed>>

\* Sponsored USDC: up to twelve times the agent asks the server to settle its intent;
\* the server answers 202 until the payment has landed, then grants at the amount of
\* the intent.  Poll_AcceptsPending takes a 202 for a purchase, Poll_Forever never
\* stops asking.
Polled(granted) ==
    /\ chain[call.sig].landed
    /\ Grant(call.sig, "sponsored", call.offer, call.deal)
    /\ granted
    /\ Fail

Poll_AcceptsPending ==
    /\ pc = "settling"
    /\ call.route = "sponsored"
    /\ \/ ~chain[call.sig].landed /\ UNCHANGED licenses /\ Fail
       \/ chain[call.sig].landed /\ Grant(call.sig, "sponsored", call.offer, call.deal) /\ Fail
    /\ purchased' = purchased \cup {call.sig}
    /\ UNCHANGED <<asset, deals, chain, references, edits,
                   mode, approval, remembered, approved, signed>>

Poll_Forever ==
    /\ pc = "settling"
    /\ call.route = "sponsored"
    /\ \/ ~chain[call.sig].landed /\ UNCHANGED <<licenses, purchased, pc, call>>
       \/ Polled(purchased' = purchased \cup {call.sig})
    /\ UNCHANGED <<asset, deals, chain, references, edits,
                   mode, approval, remembered, approved, signed>>

Poll ==
    /\ pc = "settling"
    /\ call.route = "sponsored"
    /\ \/ UNCHANGED <<licenses, purchased, pc, call>>
       \/ Fail /\ UNCHANGED <<licenses, purchased>>
       \/ Polled(UNCHANGED purchased)
       \/ Polled(purchased' = purchased \cup {call.sig})
    /\ UNCHANGED <<asset, deals, chain, references, edits,
                   mode, approval, remembered, approved, signed>>

----------------------------------------------------------------------------
Tool == Read \/ Present \/ Charge \/ Send \/ Confirm \/ SettleSol \/ Pipeline \/ Poll

Agent ==
    \/ \E t \in Gated, decision \in {"approved", "declined"} : Decide(t, decision)
    \/ \E d \in Deals, c \in Currencies, p \in Prices : Negotiate(d, c, p)
    \/ NotAccepted
    \/ \E t \in Tools, d \in {None} \cup {e \in Deals : deals[e] # None} : Purchase(t, d)
    \/ Tool

Next == Agent \/ ((Seller \/ World) /\ UNCHANGED agentVars)

Spec == Init /\ [][Next]_vars

\* The tool goes on until it answers; it asks for a confirmation or a settlement at
\* most twelve times.  The page polls for ever.  That a payment lands is not assumed,
\* except of the payments of the page.
Fairness ==
    /\ WF_vars(Tool /\ pc' # pc)
    /\ \A s \in Sigs :
          /\ WF_vars(chain[s] # None /\ chain[s].route = "page" /\ Land(s) /\ UNCHANGED agentVars)
          /\ WF_vars(VerifySolpay(s) /\ UNCHANGED agentVars)

FairSpec == Spec /\ Fairness

----------------------------------------------------------------------------
(***************************************************************************)
(* Properties.                                                             *)
(***************************************************************************)

\* A License says what was paid: a landed payment of its amount, currency and
\* negotiation, although price, quote and verification are read at three times.
LicenseIsWhatWasPaid ==
    \A s \in Sigs : licenses[s] # None =>
        /\ chain[s] # None
        /\ chain[s].landed
        /\ chain[s].amount = licenses[s].price
        /\ chain[s].deal = licenses[s].deal
        /\ CurrencyOf(chain[s].route) = licenses[s].currency

\* A payment that names a negotiation is in its currency and of a price it has accepted,
\* although the agent remembers one agreement for all its tools, and the final price may
\* be rewritten after the quote, after the server's check and after the payment.
NegotiationsArePaidAsAccepted ==
    \A s \in Sigs : chain[s] # None /\ chain[s].deal # None =>
        LET d == chain[s].deal
        IN  /\ deals[d] # None
            /\ deals[d].currency = CurrencyOf(chain[s].route)
            /\ chain[s].amount \in deals[d].accepted

\* "An approval holds for one purchase with one method and is used up": in approval
\* mode a gated tool never signs more payments than the user has approved.
ApprovalsAreUsedOnce ==
    mode = "approval" => \A t \in Gated : signed[t] <= approved[t]

\* "Returns purchased only when the server has issued the license": what the agent
\* reports to the user as a purchase has landed on the chain and has its License.
PurchasesAreLicensed ==
    \A s \in purchased : chain[s].landed /\ licenses[s] # None

\* A purchase the agent begins comes to an end, although its payment may never land.
EveryPurchaseEnds == pc # "idle" ~> pc = "idle"

\* "Verify a browser Solana Pay payment": a buyer who pays what the page asks for gets
\* a License, if the terms stay as they are.
PagePaymentIsLicensed ==
    \A s \in Sigs : (chain[s] # None /\ chain[s].route = "page") ~> licenses[s] # None

=============================================================================
