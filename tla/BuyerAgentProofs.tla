-------------------------- MODULE BuyerAgentProofs --------------------------
(***************************************************************************)
(* Proofs that a License of the shop says what was paid, that a payment    *)
(* for a negotiation is of a price it has accepted and in its currency,    *)
(* that the agent reports no purchase without a License, and that it signs *)
(* no more payments than the user has approved, in whatever order its      *)
(* language model calls the tools, for any prices, negotiations, payments  *)
(* and edits, and with final prices that are rewritten at any time.        *)
(***************************************************************************)
EXTENDS BuyerAgent, TLAPS

\* A negotiation has accepted the price of a payment, in its currency.  Unlike the final
\* price, which the next round may rewrite, this stays true.
Agreed(c, d, p) == d # None => deals[d] # None /\ deals[d].currency = c /\ p \in deals[d].accepted

\* The final price of an accepted session is one it has answered ACCEPT to.
PricesAreAccepted ==
    \A d \in Deals : deals[d] # None => deals[d].price \in deals[d].accepted \cup {None}

Sent == {"confirming", "settling", "granting"}

\* What a purchase tool holds at its program point: an offer it was quoted, and from the
\* broadcast on a payment of that offer, which has landed when a License is asked for.
CallIsKnown ==
    /\ pc # "idle" => call.route \in Tools
    /\ pc \in {"paying", "charging"} =>
          call.offer \in Prices /\ Agreed(CurrencyOf(call.route), call.deal, call.offer)
    /\ pc = "charging" => call.route = "x402"
    /\ pc \in Sent =>
          /\ call.sig \in Sigs /\ chain[call.sig] # None
          /\ chain[call.sig].route = call.route
          /\ chain[call.sig].deal = call.deal
          /\ chain[call.sig].amount = call.offer
    /\ pc = "granting" => chain[call.sig].landed

Used(t) == IF pc \in {"quoting", "paying"} /\ call.route = t THEN 1 ELSE 0
Free(t) == IF approval = [method |-> t, decision |-> "approved"] THEN 1 ELSE 0

\* An approval is free, in use by the purchase that runs, or signed away.
ApprovalsAdd ==
    mode = "approval" => \A t \in Gated : signed[t] + Used(t) + Free(t) <= approved[t]

\* A payment for a negotiation is of a price it has accepted, in its currency.
PaymentsAreAgreed ==
    \A s \in Sigs : chain[s] # None =>
        Agreed(CurrencyOf(chain[s].route), chain[s].deal, chain[s].amount)

IInv ==
    /\ TypeOK
    /\ CallIsKnown
    /\ ApprovalsAdd
    /\ LicenseIsWhatWasPaid
    /\ PricesAreAccepted
    /\ PaymentsAreAgreed
    /\ PurchasesAreLicensed

\* The invariant holds before the first call.
LEMMA InitIInv == Init => IInv
<1> SUFFICES ASSUME Init PROVE IInv
  OBVIOUS
<1> USE EditsAssumption, TurnsAssumption, ApprovalNone DEF Init, ShopInit
<1>1. TypeOK
  <2>1. asset \in Asset
    <3>1. PICK p \in Prices, v \in BOOLEAN :
              asset = [amount |-> p, legacy |-> None, derived |-> v, listed |-> TRUE]
      OBVIOUS
    <3>2. QED
      BY <3>1 DEF Asset
  <2>2. ShopTypeOK
    BY <2>1 DEF ShopTypeOK
  <2>3. call \in Call
    BY DEF Call, NoCall
  <2>4. QED
    BY <2>2, <2>3 DEF TypeOK
<1>2. CallIsKnown
  BY DEF CallIsKnown, Sent
<1>3. ApprovalsAdd
  BY DEF ApprovalsAdd, Used, Free, Approval, Gated
<1>4. LicenseIsWhatWasPaid /\ PricesAreAccepted /\ PaymentsAreAgreed /\ PurchasesAreLicensed
  BY DEF LicenseIsWhatWasPaid, PricesAreAccepted, PaymentsAreAgreed, PurchasesAreLicensed
<1>5. QED
  BY <1>1, <1>2, <1>3, <1>4 DEF IInv

----------------------------------------------------------------------------
(***************************************************************************)
(* The shop.                                                               *)
(***************************************************************************)

\* A quote is a price, and for a negotiation one it has accepted.
LEMMA QuoteIsAgreed ==
  ASSUME TypeOK, PricesAreAccepted, NEW route \in Routes, NEW d \in Deals \cup {None}, Quote(route, d) # None
  PROVE  Quote(route, d) \in Prices /\ Agreed(CurrencyOf(route), d, Quote(route, d))
<1>1. ~Refused(route, d) /\ AcceptedIn(CurrencyOf(route), d)
  BY DEF Quote, Refused
<1>2. CASE d = None
  <2>1. Quote(route, d) = ListPrice(route) /\ asset \in Asset
    BY <1>1, <1>2 DEF Quote, TypeOK, ShopTypeOK
  <2>2. QED
    BY <1>2, <2>1 DEF ListPrice, Asset, Agreed
<1>3. CASE d # None
  <2>1. Quote(route, d) = deals[d].price /\ deals[d] \in Deal /\ deals[d].currency = CurrencyOf(route)
    BY <1>1, <1>3 DEF Quote, AcceptedIn, TypeOK, ShopTypeOK
  <2>2. deals[d] # None /\ deals[d].price \in deals[d].accepted /\ deals[d].accepted \subseteq Prices
    BY <2>1, <1>1, <1>3 DEF Deal, AcceptedIn, PricesAreAccepted
  <2>3. QED
    BY <2>1, <2>2 DEF Agreed
<1>4. QED
  BY <1>2, <1>3

\* Every route pays in one of the currencies.
LEMMA Currency == \A route \in Routes : CurrencyOf(route) \in Currencies
BY DEF CurrencyOf, Currencies

\* A payment, once sent, only lands; a new one follows its negotiation.
ChainGrows ==
    /\ chain' \in [Sigs -> Payment \cup {None}]
    /\ \A s \in Sigs : chain[s] # None =>
          /\ chain'[s] # None
          /\ chain'[s].route = chain[s].route
          /\ chain'[s].deal = chain[s].deal
          /\ chain'[s].amount = chain[s].amount
          /\ chain[s].landed => chain'[s].landed
    /\ \A s \in Sigs : chain[s] = None /\ chain'[s] # None =>
          Agreed(CurrencyOf(chain'[s].route), chain'[s].deal, chain'[s].amount)

\* A payment of what was agreed may be added to the chain,
LEMMA Broadcasts ==
  ASSUME TypeOK, NEW s \in Sigs, NEW route \in Routes, NEW p \in Prices, NEW d \in Deals \cup {None},
         NEW landed \in BOOLEAN, Broadcast(s, route, p, d, landed), Agreed(CurrencyOf(route), d, p)
  PROVE  /\ ChainGrows
         /\ chain'[s] # None /\ chain'[s].route = route /\ chain'[s].deal = d
         /\ chain'[s].amount = p /\ chain'[s].landed = landed
<1> DEFINE new == [route |-> route, amount |-> p, deal |-> d, landed |-> landed]
<1>1. new \in Payment /\ new # None
  BY ShopNone DEF Payment
<1>2. chain \in [Sigs -> Payment \cup {None}] /\ chain[s] = None /\ chain' = [chain EXCEPT ![s] = new]
  BY DEF TypeOK, ShopTypeOK, Broadcast, Unused
<1>3. new.route = route /\ new.deal = d /\ new.amount = p /\ new.landed = landed
  OBVIOUS
<1> HIDE DEF new
<1>4. QED
  BY <1>1, <1>2, <1>3 DEF ChainGrows

\* and a chain that stays as it is has grown, trivially.
LEMMA Still ==
  ASSUME TypeOK, UNCHANGED chain
  PROVE  ChainGrows
BY DEF TypeOK, ShopTypeOK, ChainGrows

\* What a negotiation keeps when its row is rewritten: its currency and what it has accepted.
DealsGrow ==
    /\ deals' \in [Deals -> Deal \cup {None}]
    /\ \A d \in Deals : deals[d] # None =>
          /\ deals'[d] # None
          /\ deals'[d].currency = deals[d].currency
          /\ deals[d].accepted \subseteq deals'[d].accepted
    /\ PricesAreAccepted'

\* A round that accepts a price, the agent's own or another conversation's,
LEMMA Accepts ==
  ASSUME TypeOK, PricesAreAccepted, NEW d \in Deals, NEW c \in Currencies, NEW p \in Prices,
         Accept(d, c, p)
  PROVE  DealsGrow
<1> DEFINE new == [currency |-> c, price |-> p, accepted |-> AcceptedBy(d) \cup {p}]
<1>1. deals \in [Deals -> Deal \cup {None}] /\ deals' = [deals EXCEPT ![d] = new]
  BY DEF TypeOK, ShopTypeOK, Accept
<1>2. AcceptedBy(d) \subseteq Prices /\ (deals[d] # None => AcceptedBy(d) = deals[d].accepted)
  BY <1>1 DEF AcceptedBy, Deal
<1>3. new \in Deal /\ new # None
  BY <1>2, ShopNone DEF Deal
<1>4. /\ new.currency = c /\ new.price \in new.accepted
      /\ deals[d] # None => deals[d].currency = c /\ deals[d].accepted \subseteq new.accepted
  BY <1>2 DEF Accept
<1> HIDE DEF new
<1>5. QED
  BY <1>1, <1>3, <1>4 DEF DealsGrow, PricesAreAccepted

\* and one that saves an old copy of the session.
LEMMA OldCopies ==
  ASSUME TypeOK, PricesAreAccepted, NEW d \in Deals, NEW p, SaveOldCopy(d, p)
  PROVE  DealsGrow
<1> DEFINE new == [deals[d] EXCEPT !.price = p]
<1>1. deals \in [Deals -> Deal \cup {None}] /\ deals[d] \in Deal
  BY DEF TypeOK, ShopTypeOK, SaveOldCopy
<1>2. deals' = [deals EXCEPT ![d] = new] /\ p \in deals[d].accepted \cup {None}
  BY <1>1 DEF SaveOldCopy
<1>3. new \in Deal /\ new # None
  BY <1>1, <1>2, ShopNone DEF Deal
<1>4. new.currency = deals[d].currency /\ new.accepted = deals[d].accepted /\ new.price = p
  BY <1>1 DEF Deal
<1> HIDE DEF new
<1>5. QED
  BY <1>1, <1>2, <1>3, <1>4 DEF DealsGrow, PricesAreAccepted

\* Every step lets the negotiations only grow: an agreement is not taken back.
LEMMA DealsStay ==
  ASSUME TypeOK, PricesAreAccepted, [Next]_vars
  PROVE  DealsGrow
<1>1. CASE UNCHANGED deals
  BY <1>1 DEF TypeOK, ShopTypeOK, DealsGrow, PricesAreAccepted
<1>2. ASSUME NEW d \in Deals, NEW c \in Currencies, NEW p \in Prices, Negotiate(d, c, p)
      PROVE  DealsGrow
  BY <1>2, Accepts DEF Negotiate
<1>3. ASSUME NEW d \in Deals, OtherRound(d) PROVE DealsGrow
  BY <1>3, Accepts, OldCopies DEF OtherRound
<1>4. QED
  BY <1>1, <1>2, <1>3 DEF Next, Agent, Tool, Seller, World, Edit, EditTerms, AssistantTerms, Land, PagePay,
     VerifySolpay, Decide, NotAccepted, Purchase, Read, Present, Charge, Send, Confirm, SettleSol, Pipeline,
     Poll, vars, shopVars

\* What was agreed once is still agreed after a step.
LEMMA AgreementsStay ==
  ASSUME TypeOK, PricesAreAccepted, [Next]_vars, NEW c, NEW d \in Deals \cup {None}, NEW p,
         Agreed(c, d, p)
  PROVE  d # None => deals'[d] # None /\ deals'[d].currency = c /\ p \in deals'[d].accepted
BY DealsStay DEF DealsGrow, Agreed

\* Every step lets the chain only grow: each payment is one that was agreed on.
LEMMA ChainSteps == IInv /\ [Next]_vars => ChainGrows
<1> SUFFICES ASSUME IInv, [Next]_vars PROVE ChainGrows
  OBVIOUS
<1>1. TypeOK /\ PricesAreAccepted /\ CallIsKnown /\ call \in Call
  BY DEF IInv, TypeOK
<1>2. CASE UNCHANGED chain
  BY <1>1, <1>2, Still
<1>3. ASSUME NEW s \in Sigs, Land(s) PROVE ChainGrows
  <2> DEFINE new == [chain[s] EXCEPT !.landed = TRUE]
  <2>1. chain \in [Sigs -> Payment \cup {None}] /\ chain[s] \in Payment /\ chain[s] # None
    BY <1>1, <1>3 DEF Land, TypeOK, ShopTypeOK
  <2>2. /\ new \in Payment /\ new.route = chain[s].route /\ new.deal = chain[s].deal
        /\ new.amount = chain[s].amount /\ new.landed
    BY <2>1 DEF Payment
  <2>3. chain' = [chain EXCEPT ![s] = new]
    BY <1>3, <2>1 DEF Land
  <2> HIDE DEF new
  <2>4. QED
    BY <2>1, <2>2, <2>3, ShopNone DEF ChainGrows
<1>4. ASSUME NEW s \in Sigs, PagePay(s) PROVE ChainGrows
  <2> DEFINE p == Quote("page", None)
  <2>1. "page" \in Routes /\ None \in Deals \cup {None} /\ FALSE \in BOOLEAN
    BY DEF Routes
  <2>2. p \in Prices /\ Agreed(CurrencyOf("page"), None, p)
    BY <1>1, <1>4, <2>1, QuoteIsAgreed DEF PagePay
  <2>3. Broadcast(s, "page", p, None, FALSE)
    BY <1>4 DEF PagePay
  <2> HIDE DEF p
  <2>4. QED
    BY <1>1, <2>1, <2>2, <2>3, Broadcasts
<1>5. CASE Charge \/ Send
  <2>1. /\ call.route \in Routes /\ call.deal \in Deals \cup {None} /\ call.offer \in Prices
        /\ Agreed(CurrencyOf(call.route), call.deal, call.offer) /\ (Charge => call.route = "x402")
    BY <1>1, <1>5 DEF Charge, Send, CallIsKnown, Call, Tools, Gated, Routes
  <2>2. ASSUME NEW s \in Sigs, NEW b \in BOOLEAN, Broadcast(s, call.route, call.offer, call.deal, b)
        PROVE  ChainGrows
    BY <1>1, <2>1, <2>2, Broadcasts
  <2>3. \/ UNCHANGED chain
        \/ \E s \in Sigs, b \in BOOLEAN : Broadcast(s, call.route, call.offer, call.deal, b)
    BY <2>1, <1>5 DEF Charge, Send
  <2>4. QED
    BY <1>2, <2>2, <2>3
<1>6. QED
  BY <1>2, <1>3, <1>4, <1>5 DEF Next, Agent, Tool, Seller, World, OtherRound, Edit, EditTerms,
     AssistantTerms, VerifySolpay, Decide, Negotiate, NotAccepted, Purchase, Read, Present, Confirm,
     SettleSol, Pipeline, Poll, vars, shopVars

\* A new License is one for a landed payment, and says what that payment says.
LicensesGrow ==
    /\ licenses' \in [Sigs -> License \cup {None}]
    /\ \A s \in Sigs : licenses[s] # None => licenses'[s] = licenses[s]
    /\ \A s \in Sigs : licenses[s] = None /\ licenses'[s] # None =>
          /\ chain[s] # None /\ chain[s].landed
          /\ licenses'[s].price = chain[s].amount
          /\ licenses'[s].deal = chain[s].deal
          /\ licenses'[s].currency = CurrencyOf(chain[s].route)

\* A License granted for a payment says what the chain says of it.
LEMMA Grants ==
  ASSUME TypeOK, NEW s \in Sigs, chain[s] # None, chain[s].landed,
         Grant(s, chain[s].route, chain[s].amount, chain[s].deal)
  PROVE  LicensesGrow /\ licenses'[s] # None
<1> DEFINE new == [currency |-> CurrencyOf(chain[s].route), price |-> chain[s].amount,
                   deal |-> chain[s].deal]
<1>1. chain[s] \in Payment /\ licenses \in [Sigs -> License \cup {None}]
  BY DEF TypeOK, ShopTypeOK
<1>2. new \in License /\ new # None
  BY <1>1, Currency, ShopNone DEF Payment, License
<1>3. licenses' = IF licenses[s] # None THEN licenses ELSE [licenses EXCEPT ![s] = new]
  BY DEF Grant, Granted
<1>4. new.price = chain[s].amount /\ new.deal = chain[s].deal /\ new.currency = CurrencyOf(chain[s].route)
  OBVIOUS
<1> HIDE DEF new
<1>5. QED
  BY <1>1, <1>2, <1>3, <1>4 DEF LicensesGrow

\* What the tools grant and report.
LEMMA LicenseSteps ==
  ASSUME IInv, [Next]_vars
  PROVE  /\ LicensesGrow
         /\ \A s \in purchased' : s \in purchased \/ (s \in Sigs /\ licenses'[s] # None /\ chain[s].landed)
<1>1. TypeOK /\ CallIsKnown
  BY DEF IInv
<1>2. UNCHANGED licenses => LicensesGrow
  BY <1>1 DEF LicensesGrow, TypeOK, ShopTypeOK
<1>3. CASE UNCHANGED <<licenses, purchased>>
  BY <1>2, <1>3
<1>4. ASSUME NEW s \in Sigs, VerifySolpay(s), UNCHANGED agentVars
      PROVE  LicensesGrow /\ UNCHANGED purchased
  <2>1. CASE Grant(s, "page", asset.amount, None) /\ Verified(s, "page", asset.amount, None)
    BY <1>1, <1>4, <2>1, Grants DEF VerifySolpay, Verified, agentVars
  <2>2. QED
    BY <1>2, <1>4, <2>1 DEF VerifySolpay, agentVars
<1>5. CASE Pipeline \/ Poll
  <2>1. CASE UNCHANGED <<licenses, purchased>>
    BY <1>3, <2>1
  <2>2. CASE ~UNCHANGED <<licenses, purchased>>
    <3>1. /\ pc \in Sent /\ chain[call.sig].landed
          /\ Grant(call.sig, call.route, call.offer, call.deal)
          /\ purchased' = purchased \/ purchased' = purchased \cup {call.sig}
      BY <1>1, <1>5, <2>2 DEF Pipeline, Poll, Polled, CallIsKnown, Sent
    <3>2. /\ call.sig \in Sigs /\ chain[call.sig] # None /\ chain[call.sig].route = call.route
          /\ chain[call.sig].deal = call.deal /\ chain[call.sig].amount = call.offer
      BY <1>1, <3>1 DEF CallIsKnown
    <3>3. LicensesGrow /\ licenses'[call.sig] # None
      BY <1>1, <3>1, <3>2, Grants
    <3>4. QED
      BY <3>1, <3>2, <3>3
  <2>3. QED
    BY <2>1, <2>2
<1>6. QED
  BY <1>3, <1>4, <1>5 DEF Next, Agent, Tool, Seller, World, Edit, EditTerms, AssistantTerms, Land,
     PagePay, OtherRound, Decide, Negotiate, NotAccepted, Purchase, Read, Present, Charge, Send, Confirm,
     SettleSol, vars, shopVars, agentVars

----------------------------------------------------------------------------
(***************************************************************************)
(* The parts of the invariant.                                             *)
(***************************************************************************)
LEMMA NextLicenses ==
  ASSUME IInv, [Next]_vars
  PROVE  LicenseIsWhatWasPaid' /\ PurchasesAreLicensed' /\ PricesAreAccepted' /\ PaymentsAreAgreed'
<1>1. ChainGrows /\ LicensesGrow
  BY ChainSteps, LicenseSteps
<1>2. LicenseIsWhatWasPaid'
  <2> SUFFICES ASSUME NEW s \in Sigs, licenses'[s] # None
               PROVE  /\ chain'[s] # None
                      /\ chain'[s].landed
                      /\ chain'[s].amount = licenses'[s].price
                      /\ chain'[s].deal = licenses'[s].deal
                      /\ CurrencyOf(chain'[s].route) = licenses'[s].currency
    BY DEF LicenseIsWhatWasPaid
  <2>1. CASE licenses[s] # None
    BY <1>1, <2>1 DEF IInv, LicenseIsWhatWasPaid, ChainGrows, LicensesGrow
  <2>2. CASE licenses[s] = None
    BY <1>1, <2>2 DEF ChainGrows, LicensesGrow
  <2>3. QED
    BY <2>1, <2>2
<1>3. PurchasesAreLicensed'
  <2> SUFFICES ASSUME NEW s \in purchased' PROVE chain'[s].landed /\ licenses'[s] # None
    BY DEF PurchasesAreLicensed
  <2>1. CASE s \in purchased
    <3>1. s \in Sigs /\ licenses[s] # None /\ chain[s].landed
      BY <2>1 DEF IInv, TypeOK, PurchasesAreLicensed
    <3>2. chain[s] # None
      BY <3>1 DEF IInv, LicenseIsWhatWasPaid
    <3>3. QED
      BY <1>1, <3>1, <3>2 DEF ChainGrows, LicensesGrow
  <2>2. CASE s \notin purchased
    <3>1. s \in Sigs /\ licenses'[s] # None
      BY <2>2, LicenseSteps
    <3>2. QED
      BY <1>2, <3>1 DEF LicenseIsWhatWasPaid
  <2>3. QED
    BY <2>1, <2>2
<1>4. PaymentsAreAgreed'
  <2>1. ASSUME NEW s \in Sigs, chain'[s] # None
        PROVE  chain'[s].deal # None =>
                  /\ deals'[chain'[s].deal] # None
                  /\ deals'[chain'[s].deal].currency = CurrencyOf(chain'[s].route)
                  /\ chain'[s].amount \in deals'[chain'[s].deal].accepted
    <3>1. chain'[s].deal \in Deals \cup {None}
      BY <1>1, <2>1 DEF ChainGrows, Payment
    <3>2. Agreed(CurrencyOf(chain'[s].route), chain'[s].deal, chain'[s].amount)
      BY <1>1, <2>1 DEF IInv, PaymentsAreAgreed, ChainGrows
    <3>3. TypeOK /\ PricesAreAccepted
      BY DEF IInv
    <3>4. QED
      BY <3>1, <3>2, <3>3, AgreementsStay
  <2>2. QED
    BY <2>1 DEF PaymentsAreAgreed, Agreed, CurrencyOf
<1>5. PricesAreAccepted'
  BY DealsStay DEF IInv, DealsGrow
<1>6. QED
  BY <1>2, <1>3, <1>4, <1>5

\* What the running tool knows stays true, by the steps of the tool and of all others.
LEMMA NextCall == IInv /\ [Next]_vars => CallIsKnown'
<1> SUFFICES ASSUME IInv, [Next]_vars PROVE CallIsKnown'
  OBVIOUS
<1> DEFINE Held(s, route, d, p) ==
        /\ s \in Sigs /\ chain'[s] # None
        /\ chain'[s].route = route /\ chain'[s].deal = d /\ chain'[s].amount = p
<1>1. TypeOK /\ PricesAreAccepted /\ CallIsKnown /\ ChainGrows /\ call \in Call
  BY ChainSteps DEF IInv, TypeOK
<1>2. CASE pc' = "idle"
  BY <1>2 DEF CallIsKnown, Sent
<1>3. CASE UNCHANGED <<pc, call>>
  <2>1. (pc' # "idle" => call'.route \in Tools) /\ (pc' = "charging" => call'.route = "x402")
    BY <1>1, <1>3 DEF CallIsKnown
  <2>2. pc' \in {"paying", "charging"} =>
            call'.offer \in Prices /\ Agreed(CurrencyOf(call.route), call.deal, call.offer)'
    <3>1. call.deal \in Deals \cup {None}
      BY <1>1 DEF Call
    <3>2. ASSUME pc \in {"paying", "charging"}
          PROVE  call.deal # None =>
                    /\ deals'[call.deal] # None
                    /\ deals'[call.deal].currency = CurrencyOf(call.route)
                    /\ call.offer \in deals'[call.deal].accepted
      BY <1>1, <3>1, <3>2, AgreementsStay DEF CallIsKnown
    <3>3. QED
      BY <1>1, <1>3, <3>2 DEF CallIsKnown, Agreed, CurrencyOf
  <2>3. pc' \in Sent => Held(call'.sig, call'.route, call'.deal, call'.offer)
    BY <1>1, <1>3 DEF CallIsKnown, ChainGrows
  <2>4. pc' = "granting" => chain'[call'.sig].landed
    BY <1>1, <1>3 DEF CallIsKnown, ChainGrows, Sent
  <2>5. QED
    BY <2>1, <2>2, <2>3, <2>4 DEF CallIsKnown, Sent, Agreed, CurrencyOf
<1>4. ASSUME NEW t \in Tools, NEW d \in Deals \cup {None}, Purchase(t, d) PROVE CallIsKnown'
  <2>1. CASE Granting(t)
    BY <1>4, <2>1 DEF Purchase, NoCall, CallIsKnown, Sent
  <2>2. CASE ~Granting(t)
    BY <1>3, <1>4, <2>2 DEF Purchase
  <2>3. QED
    BY <2>1, <2>2
<1>5. CASE Read
  <2> DEFINE p == Quote(call.route, call.deal)
  <2>1. CASE pc' = "paying" /\ call' = [call EXCEPT !.offer = p] /\ p # None
    <3>1. call.route \in Tools /\ call.route \in Routes /\ call.deal \in Deals \cup {None}
      BY <1>1, <1>5 DEF Read, CallIsKnown, Call, Tools, Gated, Routes
    <3>2. p \in Prices /\ Agreed(CurrencyOf(call.route), call.deal, p)
      BY <1>1, <2>1, <3>1, QuoteIsAgreed
    <3>3. call'.route = call.route /\ call'.deal = call.deal /\ call'.offer = p
      BY <1>1, <2>1 DEF Call
    <3>4. UNCHANGED deals
      BY <1>5 DEF Read, shopVars
    <3> HIDE DEF p
    <3>5. QED
      BY <2>1, <3>1, <3>2, <3>3, <3>4 DEF CallIsKnown, Sent, Agreed, CurrencyOf
  <2>2. QED
    BY <1>2, <1>5, <2>1 DEF Read, Fail
<1>6. CASE Charge \/ Send
  <2>1. CASE pc' # "idle"
    <3>1. PICK s \in Sigs, b \in BOOLEAN :
              /\ Broadcast(s, call.route, call.offer, call.deal, b)
              /\ call' = [call EXCEPT !.sig = s]
              /\ pc' \in Sent /\ (pc' = "granting" => b)
      BY <1>1, <1>6, <2>1 DEF Charge, Send, Fail, Sent, CallIsKnown
    <3>2. /\ call.route \in Routes /\ call.route \in Tools /\ call.deal \in Deals \cup {None}
          /\ call.offer \in Prices /\ Agreed(CurrencyOf(call.route), call.deal, call.offer)
      BY <1>1, <1>6 DEF Charge, Send, CallIsKnown, Call, Tools, Gated, Routes
    <3>3. /\ Held(s, call.route, call.deal, call.offer) /\ chain'[s].landed = b
      BY <1>1, <3>1, <3>2, Broadcasts
    <3>4. /\ call'.sig = s /\ call'.route = call.route /\ call'.deal = call.deal
          /\ call'.offer = call.offer
      BY <1>1, <3>1 DEF Call
    <3>5. QED
      BY <3>1, <3>2, <3>3, <3>4 DEF CallIsKnown, Sent
  <2>2. QED
    BY <1>2, <2>1
<1>7. CASE Confirm
  <2>1. CASE pc' # "idle"
    <3>1. pc = "confirming" /\ pc' = "settling" /\ call' = call /\ chain' = chain
      BY <1>7, <2>1 DEF Confirm, Fail, shopVars
    <3>2. QED
      BY <1>1, <3>1 DEF CallIsKnown, Sent
  <2>2. QED
    BY <1>2, <2>1
<1>8. CASE SettleSol
  <2>1. CASE pc' # "idle"
    <3> DEFINE p == Quote("sol", call.deal)
    <3>1. /\ pc = "settling" /\ pc' = "granting" /\ call' = [call EXCEPT !.offer = p]
          /\ chain' = chain /\ Verified(call.sig, "sol", p, call.deal)
      BY <1>8, <2>1 DEF SettleSol, Fail, shopVars
    <3>2. /\ call'.sig = call.sig /\ call'.route = call.route /\ call'.deal = call.deal
          /\ call'.offer = p
      BY <1>1, <3>1 DEF Call
    <3> HIDE DEF p
    <3>3. QED
      BY <1>1, <3>1, <3>2 DEF CallIsKnown, Sent, Verified
  <2>2. QED
    BY <1>2, <2>1
<1>9. CASE Pipeline \/ Poll
  BY <1>2, <1>3, <1>9 DEF Pipeline, Poll, Polled, Fail
<1>10. CASE Present
  <2>1. CASE pc' # "idle"
    <3>1. pc = "paying" /\ pc' = "charging" /\ call.route = "x402" /\ UNCHANGED <<call, deals>>
      BY <1>10, <2>1 DEF Present, Fail, shopVars
    <3>2. QED
      BY <1>1, <3>1 DEF CallIsKnown, Sent, Agreed, CurrencyOf
  <2>2. QED
    BY <1>2, <2>1
<1>11. QED
  BY <1>3, <1>4, <1>5, <1>6, <1>7, <1>8, <1>9, <1>10 DEF Next, Agent, Tool, Seller, World, Decide,
     Negotiate, NotAccepted, vars, agentVars

\* The sum of the approvals, free, in use and signed away, stays what the user gave.
LEMMA NextApprovals == IInv /\ [Next]_vars => ApprovalsAdd'
<1> SUFFICES ASSUME IInv, [Next]_vars PROVE ApprovalsAdd'
  OBVIOUS
<1>1. /\ approved \in [Gated -> Nat] /\ signed \in [Gated -> Nat] /\ ApprovalsAdd
      /\ approval \in Approval \cup {None} /\ call \in Call
  BY TurnsAssumption DEF IInv, TypeOK
<1>2. CASE UNCHANGED agentVars
  BY <1>1, <1>2 DEF agentVars, ApprovalsAdd, Used, Free
<1>3. ASSUME NEW t \in Gated, NEW decision \in {"approved", "declined"}, Decide(t, decision)
      PROVE  ApprovalsAdd'
  <2>1. /\ mode' = mode /\ pc' = "idle" /\ pc = "idle" /\ signed' = signed
        /\ approval = [method |-> t, decision |-> "pending"]
        /\ approval' = [method |-> t, decision |-> decision]
        /\ approved' = [approved EXCEPT ![t] = IF decision = "approved" THEN @ + 1 ELSE @]
    BY <1>3 DEF Decide
  <2>2. ASSUME NEW u \in Gated
        PROVE  Used(u) = 0 /\ Used(u)' = 0 /\ Free(u) = 0
               /\ Free(u)' = IF decision = "approved" /\ u = t THEN 1 ELSE 0
    BY <2>1 DEF Used, Free
  <2>3. QED
    BY <1>1, <2>1, <2>2 DEF ApprovalsAdd
<1>4. CASE (\E d \in Deals, c \in Currencies, p \in Prices : Negotiate(d, c, p)) \/ NotAccepted
  BY <1>1, <1>4 DEF Negotiate, NotAccepted, ApprovalsAdd, Used, Free
<1>5. ASSUME NEW t \in Tools, NEW d, Purchase(t, d), mode = "approval"
      PROVE  \A u \in Gated : Used(u)' + Free(u)' <= Used(u) + Free(u)
  <2> SUFFICES ASSUME NEW u \in Gated PROVE Used(u)' + Free(u)' <= Used(u) + Free(u)
    OBVIOUS
  <2>1. pc = "idle" /\ Used(u) = 0 /\ approval' = Gate(t)
    BY <1>5 DEF Purchase, Used
  <2>2. CASE Granting(t) /\ t \in Gated
    <3>1. approval = [method |-> t, decision |-> "approved"] /\ approval # None
      BY <1>5, <2>2, ApprovalNone DEF Granting, Approval
    <3>2. approval' = [method |-> t, decision |-> "consumed"] /\ call'.route = t
      BY <1>5, <2>1, <2>2, <3>1 DEF Gate, Purchase, NoCall
    <3>3. Free(u)' = 0 /\ (u # t => Used(u)' = 0) /\ Used(u)' \in {0, 1} /\ (u = t => Free(u) = 1)
          /\ Free(u) \in {0, 1}
      BY <3>1, <3>2 DEF Free, Used
    <3>4. QED
      BY <2>1, <3>3
  <2>3. CASE t \notin Gated
    <3>1. approval' = approval /\ call'.route = t /\ t # u
      BY <1>5, <2>1, <2>3 DEF Gate, Granting, Purchase, NoCall
    <3>2. Free(u)' = Free(u) /\ Used(u)' = 0 /\ Free(u) \in {0, 1}
      BY <3>1 DEF Free, Used
    <3>3. QED
      BY <2>1, <3>2
  <2>4. CASE ~Granting(t)
    <3>1. pc' = pc /\ approval' \in {[method |-> t, decision |-> "consumed"],
                                     [method |-> t, decision |-> "pending"]}
      BY <1>5, <2>1, <2>4 DEF Gate, Granting, Purchase
    <3>2. Free(u)' = 0 /\ Used(u)' = 0 /\ Free(u) \in {0, 1}
      BY <2>1, <3>1 DEF Free, Used
    <3>3. QED
      BY <2>1, <3>2
  <2>5. QED
    BY <2>2, <2>3, <2>4
<1>6. ASSUME NEW t \in Tools, NEW d, Purchase(t, d) PROVE ApprovalsAdd'
  <2>1. \A u \in Gated : {Used(u), Free(u), Used(u)', Free(u)'} \subseteq {0, 1}
    BY DEF Used, Free
  <2>2. UNCHANGED <<mode, signed, approved>>
    BY <1>6 DEF Purchase
  <2>3. QED
    BY <1>1, <1>5, <1>6, <2>1, <2>2 DEF ApprovalsAdd
<1>7. CASE Present \/ Send
  <2>1. /\ mode' = mode /\ approval' = approval /\ approved' = approved /\ Signs
        /\ pc = "paying" /\ pc' \notin {"quoting", "paying"}
    BY <1>7 DEF Present, Send, Fail
  <2>2. ASSUME NEW u \in Gated
        PROVE  /\ Used(u)' = 0 /\ Free(u)' = Free(u) /\ Free(u) \in {0, 1}
               /\ Used(u) = IF u = call.route THEN 1 ELSE 0
    BY <2>1 DEF Used, Free
  <2>3. ASSUME NEW u \in Gated, mode = "approval"
        PROVE  signed'[u] = IF u = call.route THEN signed[u] + 1 ELSE signed[u]
    BY <2>1, <2>3 DEF Signs
  <2>4. QED
    BY <1>1, <2>1, <2>2, <2>3 DEF ApprovalsAdd
<1>8. CASE Read \/ Charge \/ Confirm \/ SettleSol \/ Pipeline \/ Poll
  <2>1. /\ UNCHANGED <<mode, approval, approved, signed>>
        /\ \/ pc' \notin {"quoting", "paying"}
           \/ pc = "quoting" /\ call'.route = call.route
    BY <1>1, <1>8 DEF Read, Charge, Confirm, SettleSol, Pipeline, Poll, Polled, Fail, Call
  <2>2. ASSUME NEW u \in Gated
        PROVE  Used(u)' <= Used(u) /\ Free(u)' = Free(u) /\ {Used(u)', Used(u), Free(u)} \subseteq {0, 1}
    BY <2>1 DEF Used, Free
  <2>3. QED
    BY <1>1, <2>1, <2>2 DEF ApprovalsAdd
<1>9. QED
  BY <1>2, <1>3, <1>4, <1>6, <1>7, <1>8 DEF Next, Agent, Tool, vars

\* Every step keeps the types.
LEMMA NextTypeOK == IInv /\ [Next]_vars => TypeOK'
<1> SUFFICES ASSUME IInv, [Next]_vars PROVE TypeOK'
  OBVIOUS
<1> DEFINE Places == {"idle", "quoting", "paying", "charging", "confirming", "settling", "granting"}
<1>1. TypeOK /\ PricesAreAccepted /\ CallIsKnown
  BY DEF IInv
<1>2. /\ chain' \in [Sigs -> Payment \cup {None}] /\ licenses' \in [Sigs -> License \cup {None}]
      /\ deals' \in [Deals -> Deal \cup {None}] /\ purchased' \subseteq Sigs
  BY <1>1, ChainSteps, LicenseSteps, DealsStay DEF ChainGrows, LicensesGrow, DealsGrow, TypeOK
<1>3. asset' \in Asset /\ references' \subseteq Sigs /\ edits' \in 0..MaxEdits
  <2>1. CASE UNCHANGED <<asset, references, edits>>
    BY <1>1, <2>1 DEF TypeOK, ShopTypeOK
  <2>2. ASSUME NEW p \in Prices, NEW l \in BOOLEAN, EditTerms(p, l) \/ AssistantTerms(p, l)
        PROVE  asset' \in Asset /\ references' \subseteq Sigs /\ edits' \in 0..MaxEdits
    <3>1. /\ [asset EXCEPT !.amount = p, !.listed = l] \in Asset
          /\ [asset EXCEPT !.legacy = p, !.listed = l] \in Asset
      BY <1>1 DEF TypeOK, ShopTypeOK, Asset
    <3>2. edits \in 0..MaxEdits /\ references \subseteq Sigs
      BY <1>1 DEF TypeOK, ShopTypeOK
    <3>3. QED
      BY <2>2, <3>1, <3>2, EditsAssumption DEF EditTerms, AssistantTerms, Edit
  <2>3. ASSUME NEW d \in Deals, OtherRound(d)
        PROVE  asset' \in Asset /\ references' \subseteq Sigs /\ edits' \in 0..MaxEdits
    BY <1>1, <2>3, EditsAssumption DEF TypeOK, ShopTypeOK, OtherRound
  <2>4. QED
    BY <2>1, <2>2, <2>3 DEF Next, Agent, Tool, Seller, World, Land, PagePay, VerifySolpay, Decide, Negotiate,
       Accept, NotAccepted, Purchase, Read, Present, Charge, Send, Confirm, SettleSol, Pipeline, Poll, vars,
       shopVars
<1>4. mode' \in {"autonomous", "approval"} /\ remembered' \in Deals \cup {None}
  BY <1>1 DEF TypeOK, Next, Agent, Tool, Decide, Negotiate, NotAccepted, Purchase, Read, Present,
     Charge, Send, Confirm, SettleSol, Pipeline, Poll, vars, agentVars
<1>5. approval' \in Approval \cup {None} /\ approved' \in [Gated -> 0..MaxTurns]
  <2>1. CASE UNCHANGED <<approval, approved>>
    BY <1>1, <2>1 DEF TypeOK
  <2>2. ASSUME NEW t \in Gated, NEW decision \in {"approved", "declined"}, Decide(t, decision)
        PROVE  approval' \in Approval \cup {None} /\ approved' \in [Gated -> 0..MaxTurns]
    <3>1. approval' = [method |-> t, decision |-> decision]
      BY <2>2 DEF Decide
    <3>2. approved \in [Gated -> 0..MaxTurns] /\ approved[t] < MaxTurns /\ approved[t] + 1 \in 0..MaxTurns
      BY <1>1, <2>2, TurnsAssumption DEF TypeOK, Decide
    <3>3. approved' \in [Gated -> 0..MaxTurns]
      BY <2>2, <3>2 DEF Decide
    <3>4. QED
      BY <3>1, <3>3 DEF Approval
  <2>3. ASSUME NEW t \in Tools, NEW d, Purchase(t, d)
        PROVE  approval' \in Approval \cup {None} /\ approved' \in [Gated -> 0..MaxTurns]
    BY <1>1, <2>3 DEF TypeOK, Purchase, Gate, Approval
  <2>4. QED
    BY <2>1, <2>2, <2>3 DEF Next, Agent, Tool, Negotiate, NotAccepted, Read, Present, Charge, Send, Confirm,
       SettleSol, Pipeline, Poll, vars, agentVars
<1>6. signed' \in [Gated -> Nat]
  <2>1. CASE UNCHANGED signed
    BY <1>1, <2>1 DEF TypeOK
  <2>2. CASE Signs
    BY <1>1, <2>2 DEF TypeOK, Signs
  <2>3. QED
    BY <2>1, <2>2 DEF Next, Agent, Tool, Decide, Negotiate, NotAccepted, Purchase, Read, Present,
       Charge, Send, Confirm, SettleSol, Pipeline, Poll, vars, agentVars
<1>7. pc' \in Places /\ call' \in Call
  <2>1. pc \in Places /\ call \in Call
    BY <1>1 DEF TypeOK
  <2>2. CASE UNCHANGED <<pc, call>>
    BY <2>1, <2>2
  <2>3. CASE Fail
    BY <2>3 DEF Fail, NoCall, Call
  <2>4. ASSUME NEW t \in Tools, NEW d \in Deals \cup {None}, Purchase(t, d)
        PROVE  pc' \in Places /\ call' \in Call
    BY <1>1, <2>1, <2>4 DEF Purchase, NoCall, Call, TypeOK
  <2>5. CASE Read
    <3> DEFINE p == Quote(call.route, call.deal)
    <3>1. CASE p # None /\ pc' = "paying" /\ call' = [call EXCEPT !.offer = p]
      <4>1. call.route \in Routes /\ call.deal \in Deals \cup {None}
        BY <1>1, <2>1, <2>5 DEF Read, CallIsKnown, Call, Tools, Gated, Routes
      <4>2. p \in Prices
        BY <1>1, <3>1, <4>1, QuoteIsAgreed
      <4> HIDE DEF p
      <4>3. QED
        BY <2>1, <3>1, <4>2 DEF Call
    <3>2. QED
      BY <2>3, <2>5, <3>1 DEF Read
  <2>6. CASE Present \/ Charge \/ Send
    BY <2>1, <2>3, <2>6 DEF Present, Charge, Send, Call
  <2>7. CASE Confirm \/ Pipeline \/ Poll
    BY <2>1, <2>3, <2>7 DEF Confirm, Pipeline, Poll, Polled
  <2>8. CASE SettleSol
    <3> DEFINE p == Quote("sol", call.deal)
    <3>1. CASE p # None /\ pc' = "granting" /\ call' = [call EXCEPT !.offer = p]
      <4>1. "sol" \in Routes /\ call.deal \in Deals \cup {None}
        BY <2>1 DEF Call, Routes
      <4>2. p \in Prices
        BY <1>1, <3>1, <4>1, QuoteIsAgreed
      <4> HIDE DEF p
      <4>3. QED
        BY <2>1, <3>1, <4>2 DEF Call
    <3>2. QED
      BY <2>3, <2>8, <3>1 DEF SettleSol
  <2>9. QED
    BY <2>2, <2>4, <2>5, <2>6, <2>7, <2>8 DEF Next, Agent, Tool, Decide, Negotiate, NotAccepted, vars,
       agentVars
<1>8. QED
  BY <1>2, <1>3, <1>4, <1>5, <1>6, <1>7 DEF TypeOK, ShopTypeOK

\* Every step keeps the invariant.
LEMMA NextIInv == IInv /\ [Next]_vars => IInv'
BY NextTypeOK, NextCall, NextApprovals, NextLicenses DEF IInv

----------------------------------------------------------------------------
(***************************************************************************)
(* Theorems of the specification.                                          *)
(***************************************************************************)

\* The inductive invariant holds in every reachable state, although other conversations
\* rewrite the final prices and bring old copies of a session back.
THEOREM Invariance == Spec => []IInv
<1>1. QED
  BY InitIInv, NextIInv, PTL DEF Spec

\* Every variable of the shop and of the agent keeps its type.
THEOREM TypeCorrect == Spec => []TypeOK
<1>1. IInv => TypeOK
  BY DEF IInv
<1>2. QED
  BY <1>1, Invariance, PTL

\* Whatever settle_pipeline is called with, the License says what the payment it names
\* has moved: amount, currency and negotiation.
THEOREM LicensesSayWhatWasPaid == Spec => []LicenseIsWhatWasPaid
<1>1. IInv => LicenseIsWhatWasPaid
  BY DEF IInv
<1>2. QED
  BY <1>1, Invariance, PTL

\* A payment that names a negotiation is of a price that negotiation has accepted and in
\* its currency, also when the final price is another one by then.
THEOREM NegotiatedPricesArePaid == Spec => []NegotiationsArePaidAsAccepted
<1>1. IInv => NegotiationsArePaidAsAccepted
  BY DEF IInv, PaymentsAreAgreed, Agreed, NegotiationsArePaidAsAccepted
<1>2. QED
  BY <1>1, Invariance, PTL

\* payment_approval: in approval mode a tool signs no more payments than were approved.
THEOREM ApprovalsAreUsedUp == Spec => []ApprovalsAreUsedOnce
<1>1. IInv => ApprovalsAreUsedOnce
  <2> SUFFICES ASSUME IInv, mode = "approval", NEW t \in Gated PROVE signed[t] <= approved[t]
    BY DEF ApprovalsAreUsedOnce
  <2>1. signed[t] \in Nat /\ approved[t] \in Nat /\ signed[t] + Used(t) + Free(t) <= approved[t]
    BY TurnsAssumption DEF IInv, TypeOK, ApprovalsAdd
  <2>2. Used(t) \in {0, 1} /\ Free(t) \in {0, 1}
    BY DEF Used, Free
  <2>3. QED
    BY <2>1, <2>2
<1>2. QED
  BY <1>1, Invariance, PTL

\* What the tools report as a purchase has its License.
THEOREM ReportsAreTrue == Spec => []PurchasesAreLicensed
<1>1. IInv => PurchasesAreLicensed
  BY DEF IInv
<1>2. QED
  BY <1>1, Invariance, PTL
=============================================================================
