------------------------------ MODULE Checkout ------------------------------
(***************************************************************************)
(* The routes on which one work is bought, seen from the server: x402, the *)
(* agent's native SOL transfer and the Solana Pay page.  (The sponsored    *)
(* USDC route has a module of its own, SponsoredPayment; here it is its    *)
(* quote and the polling of the agent.)                                    *)
(*                                                                         *)
(* Every request computes the price anew from the row of the work and the  *)
(* accepted negotiation it names, so the terms a buyer saw, the payment on *)
(* the chain and the License are three readings at three times.  The final *)
(* price of a negotiation is no constant either: another round of the same *)
(* buyer id rewrites it at any time.                                       *)
(***************************************************************************)
EXTENDS Naturals, FiniteSets

CONSTANTS
    Prices,     \* amounts, in the smallest unit of their currency
    Deals,      \* ids of NegotiationSession rows
    Sigs,       \* signatures of payments on the chain
    MaxEdits,   \* bound: changes of the terms by the seller, and of a final price by others
    None

ASSUME PricesAssumption == Prices \subseteq Nat \ {0}
ASSUME CheckoutNone == None \notin Prices \cup Deals
ASSUME EditsAssumption == MaxEdits \in Nat

Currencies == {"USDC", "SOL"}
Routes == {"x402", "sol", "sponsored", "page"}
CurrencyOf(route) == IF route \in {"x402", "sponsored"} THEN "USDC" ELSE "SOL"

VARIABLES
    asset,      \* the row of the work: prices, derivative or not, listed or not
    deals,      \* deals[d]: a negotiation of this work that has accepted a price, or None
    chain,      \* chain[s]: the payment s, None when there is none
    licenses,   \* licenses[s]: the License paid by s, or None
    references, \* payment requests of the page bound to the browser's session
    edits

shopVars == <<asset, deals, chain, licenses, references, edits>>

Asset == [amount: Prices, legacy: Prices \cup {None}, derived: BOOLEAN, listed: BOOLEAN]
\* price: the final price of an accepted session, None for one that is open again;
\* accepted: every price the session has ever answered ACCEPT to.
Deal == [currency: Currencies, price: Prices \cup {None}, accepted: SUBSET Prices]
Payment == [route: Routes, amount: Prices, deal: Deals \cup {None}, landed: BOOLEAN]
License == [currency: Currencies, price: Prices, deal: Deals \cup {None}]

ASSUME ShopNone == None \notin Deal /\ None \notin Payment /\ None \notin License

ShopTypeOK ==
    /\ asset \in Asset
    /\ deals \in [Deals -> Deal \cup {None}]
    /\ chain \in [Sigs -> Payment \cup {None}]
    /\ licenses \in [Sigs -> License \cup {None}]
    /\ references \subseteq Sigs
    /\ edits \in 0..MaxEdits

\* A work is registered with an amount; only rows from before the move to
\* currency-labelled amounts hold a price in the legacy field.
ShopInit ==
    /\ asset \in [amount: Prices, legacy: {None}, derived: BOOLEAN, listed: {TRUE}]
    /\ deals = [d \in Deals |-> None]
    /\ chain = [s \in Sigs |-> None]
    /\ licenses = [s \in Sigs |-> None]
    /\ references = {}
    /\ edits = 0

----------------------------------------------------------------------------
(***************************************************************************)
(* The seller.  The studio writes the amount; the assistant's action       *)
(* writes the legacy field.  Both may list the work or take it off.        *)
(***************************************************************************)
Edit(terms) ==
    /\ edits < MaxEdits
    /\ edits' = edits + 1
    /\ asset' = terms
    /\ UNCHANGED <<deals, chain, licenses, references>>

EditTerms(p, l) == Edit([asset EXCEPT !.amount = p, !.listed = l])
AssistantTerms(p, l) == Edit([asset EXCEPT !.legacy = p, !.listed = l])

(***************************************************************************)
(* The negotiation.  A round resumes the session of its work and buyer id, *)
(* in the session's currency only, also when it is accepted already: an    *)
(* ACCEPT rewrites the final price.  COUNTER and REJECT leave it alone.  A *)
(* round judged on a copy that has become old saves the whole copy, so the *)
(* session is back at a price it had, or back before its first ACCEPT.     *)
(***************************************************************************)
AcceptedBy(d) == IF deals[d] = None THEN {} ELSE deals[d].accepted

Accept(d, c, p) ==
    /\ deals[d] # None => deals[d].currency = c
    /\ deals' = [deals EXCEPT ![d] = [currency |-> c, price |-> p, accepted |-> AcceptedBy(d) \cup {p}]]

SaveOldCopy(d, p) ==
    /\ deals[d] # None
    /\ p \in deals[d].accepted \cup {None}
    /\ deals' = [deals EXCEPT ![d].price = p]

\* Rounds of other conversations: every buyer agent presents the same buyer id.
OtherRound(d) ==
    /\ edits < MaxEdits
    /\ edits' = edits + 1
    /\ \/ \E c \in Currencies, p \in Prices : Accept(d, c, p)
       \/ \E p \in Prices \cup {None} : SaveOldCopy(d, p)
    /\ UNCHANGED <<asset, chain, licenses, references>>

----------------------------------------------------------------------------
(***************************************************************************)
(* Quotes: the price of a route now, None when the route refuses: 404 when *)
(* the work is not listed, 409 for a negotiation of another currency, for  *)
(* one that is not accepted, or for a derivative in SOL.                   *)
(***************************************************************************)
AcceptedIn_AnyCurrency(c, d) == d # None => deals[d] # None /\ deals[d].price # None
AcceptedIn(c, d) ==
    d # None => deals[d] # None /\ deals[d].currency = c /\ deals[d].price # None

Refused(route, d) ==
    \/ ~asset.listed
    \/ ~AcceptedIn(CurrencyOf(route), d)
    \/ route = "sol" /\ asset.derived

\* x402 prefers the field from before the move to currency-labelled amounts.
ListPrice(route) == IF route = "x402" /\ asset.legacy # None THEN asset.legacy ELSE asset.amount

Quote(route, d) ==
    IF Refused(route, d) THEN None
    ELSE IF d # None THEN deals[d].price ELSE ListPrice(route)

\* The chain: a payment is broadcast, and lands or is dropped.
Unused == {s \in Sigs : chain[s] = None}
Broadcast(s, route, p, d, landed) ==
    /\ s \in Unused
    /\ chain' = [chain EXCEPT ![s] = [route |-> route, amount |-> p, deal |-> d, landed |-> landed]]

Land(s) ==
    /\ chain[s] # None
    /\ ~chain[s].landed
    /\ chain' = [chain EXCEPT ![s].landed = TRUE]
    /\ UNCHANGED <<asset, deals, licenses, references, edits>>

----------------------------------------------------------------------------
(***************************************************************************)
(* The License.  With the payment verified, settle_pipeline grants; an     *)
(* exception may come before the License is saved, or after.               *)
(***************************************************************************)
Granted(s, route, p, d) ==
    IF licenses[s] # None THEN licenses
    ELSE [licenses EXCEPT ![s] = [currency |-> CurrencyOf(route), price |-> p, deal |-> d]]

Grant(s, route, p, d) == licenses' = Granted(s, route, p, d)

\* find_matching_requirements: the payment signed by the buyer is one of the
\* requirements computed now.
Matching(p, route, d) == p = Quote(route, d)

\* get_asset, with a signed payment: the work is on sale, the negotiation is one of this
\* work in USDC, and the payment is one the server asks for now.
Payable(p, d) ==
    /\ asset.listed
    /\ AcceptedIn("USDC", d)
    /\ Matching(p, "x402", d)

\* verify_sol_payment_transaction: the transfer has landed, for the price and the memo
\* computed now; the memo names the route, the work and the negotiation.
Verified_AnyAmount(s, route, p, d) == chain[s].landed /\ chain[s].route = route /\ chain[s].deal = d
Verified(s, route, p, d) ==
    /\ chain[s].landed
    /\ chain[s].route = route
    /\ chain[s].deal = d
    /\ chain[s].amount = p

----------------------------------------------------------------------------
(***************************************************************************)
(* The Solana Pay page.  A browser that GETs the work is sent a transfer   *)
(* request with a new reference (here the signature that will pay it), and *)
(* polls verify_solpay.  That handler answers only for references bound to *)
(* the session, and nothing on this path binds one:                        *)
(* remember_browser_payment_request has no caller.                         *)
(***************************************************************************)
PagePay(s) ==
    /\ Quote("page", None) # None
    /\ Broadcast(s, "page", Quote("page", None), None, FALSE)
    /\ UNCHANGED <<asset, deals, licenses, references, edits>>

VerifySolpay(s) ==
    /\ chain[s] # None
    /\ chain[s].route = "page"
    /\ IF s \in references /\ asset.listed /\ Verified(s, "page", asset.amount, None)
       THEN Grant(s, "page", asset.amount, None)
       ELSE UNCHANGED licenses
    /\ UNCHANGED <<asset, deals, chain, references, edits>>

Seller ==
    \E p \in Prices, l \in BOOLEAN : EditTerms(p, l) \/ AssistantTerms(p, l)

World ==
    \/ \E s \in Sigs : Land(s) \/ PagePay(s) \/ VerifySolpay(s)
    \/ \E d \in Deals : OtherRound(d)
=============================================================================
