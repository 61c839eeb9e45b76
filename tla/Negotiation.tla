---------------------------- MODULE Negotiation ----------------------------
(***************************************************************************)
(* The negotiation of one asset's price: POST /api/v1/ip/{id}/negotiate    *)
(* takes an offer, resumes or creates the buyer's NegotiationSession, lets *)
(* NegotiationEngine judge the offer (by rule, or by the Gemini model) and *)
(* saves the round.  An accepted session is what purchases take their      *)
(* price from.                                                             *)
(*                                                                         *)
(* A request reads the asset, finds or inserts the session, waits for the  *)
(* model and writes the whole session row from the copy it read, all       *)
(* without a lock; each of these is a step here.                           *)
(*                                                                         *)
(* Amounts are counted in the unit of the ninth decimal, which is what an  *)
(* asset's terms and an offer may have; Tick is one unit of the sixth      *)
(* decimal, to which USDC prices are rounded.                              *)
(***************************************************************************)
EXTENDS Naturals, Sequences, FiniteSets

CONSTANTS
    Buyers,      \* buyer_agent_id values
    Rows,        \* ids of NegotiationSession rows
    Requests,    \* negotiation requests in flight
    Currencies,  \* a subset of {"USDC", "SOL"}
    Amounts,     \* amounts of the terms, of the offers and of the model's answers
    Tick,        \* units of the ninth decimal in one of the sixth
    MaxRounds,   \* MAX_NEGOTIATION_ROUNDS
    MaxLog,      \* bound: rounds of a session after which only a list-price offer comes
    None

ASSUME AmountsAssumption == Amounts \subseteq Nat /\ Tick \in Nat \ {0}
ASSUME BoundsAssumption == MaxRounds \in Nat /\ MaxLog \in Nat
ASSUME CurrenciesAssumption == Currencies \subseteq {"USDC", "SOL"}

Terms   == [min: Amounts, target: Amounts]
Round   == [offer: Amounts, status: {"ACCEPT", "COUNTER_OFFER", "REJECT"}, price: Nat \cup {None}]
Session == [buyer: Buyers, currency: Currencies, rounds: Seq(Round),
            status: {"negotiating", "accepted"}, price: Nat \cup {None}]

ASSUME NoneAssumption == None \notin Nat /\ None \notin Terms /\ None \notin Session

VARIABLES
    terms,     \* the asset's amounts, None once the asset is deleted
    sessions,  \* sessions[n]: the row n, None when there is none
    pc,        \* pc[r]: where request r is, or how it was answered
    job        \* job[r]: what r was sent, and what it has read and computed

vars == <<terms, sessions, pc, job>>

Answers == {"idle", "ACCEPT", "COUNTER_OFFER", "REJECT", "refused", "failed"}
Running == {"finding", "creating", "judging", "saving"}

\* Configured amounts: the terms editor keeps the target at or above the minimum.
Configured == {t \in Terms : t.target > 0 /\ t.min <= t.target}

TypeOK ==
    /\ terms \in Configured \cup {None}
    /\ \A n \in Rows : sessions[n] # None =>
          /\ sessions[n].buyer \in Buyers
          /\ sessions[n].currency \in Currencies
          /\ \A k \in DOMAIN sessions[n].rounds : sessions[n].rounds[k] \in Round
          /\ sessions[n].status \in {"negotiating", "accepted"}
          /\ sessions[n].status = "accepted" <=> sessions[n].price # None
    /\ pc \in [Requests -> Answers \cup Running]

Init ==
    /\ terms \in Configured
    /\ sessions = [n \in Rows |-> None]
    /\ pc = [r \in Requests |-> "idle"]
    /\ job = [r \in Requests |-> None]

----------------------------------------------------------------------------
(***************************************************************************)
(* The seller.                                                             *)
(***************************************************************************)

\* update_asset_terms
Edit(t) ==
    /\ terms # None
    /\ terms' = t
    /\ UNCHANGED <<sessions, pc, job>>

\* delete_asset: the sessions go with the asset.
Delete ==
    /\ terms # None
    /\ terms' = None
    /\ sessions' = [n \in Rows |-> None]
    /\ UNCHANGED <<pc, job>>

----------------------------------------------------------------------------
(***************************************************************************)
(* The engine: what a round may answer.                                    *)
(***************************************************************************)

\* quantize_usdc and quantize_sol: half up to the currency's precision.
Quantize(c, p) == IF c = "USDC" THEN ((p + Tick \div 2) \div Tick) * Tick ELSE p

\* What the model may say.  An answer that is no JSON of the schema is an error.
Opinions == [status: {"ACCEPT", "COUNTER_OFFER", "REJECT"}, price: Amounts \cup {None}]

\* The model's price, raised to the floor.
Clamp_NoFloor(p, t) == IF p = None THEN t.min ELSE p
Clamp(p, t) == IF p = None \/ p < t.min THEN t.min ELSE p

Priced(c, st, p) == [status |-> st, price |-> IF p = None THEN None ELSE Quantize(c, p)]

\* _finalize: an ACCEPT above the offer becomes a counter offer.
Finalize(o, j) ==
    IF o.status = "REJECT" THEN Priced(j.currency, "REJECT", o.price)
    ELSE LET p == Clamp(o.price, j.terms)
         IN  Priced(j.currency, IF p > j.offer THEN "COUNTER_OFFER" ELSE o.status, p)

\* run_round: a list-price offer is accepted at the list price, a low offer past
\* the round cap is rejected, and the model judges the others.
Capped(j) == j.offer < j.terms.min /\ Len(j.copy.rounds) >= MaxRounds

ByRule(j) == j.offer >= j.terms.target \/ Capped(j)

Verdicts(j) ==
    IF ~ByRule(j) THEN {Finalize(o, j) : o \in Opinions}
    ELSE IF j.offer >= j.terms.target THEN {Priced(j.currency, "ACCEPT", j.terms.target)}
    ELSE {Priced(j.currency, "REJECT", None)}

----------------------------------------------------------------------------
(***************************************************************************)
(* negotiate, one request r at a time.                                     *)
(***************************************************************************)
Goto(r, a) == pc' = [pc EXCEPT ![r] = a]

\* An offer no terms exceed.
Top == CHOOSE a \in Amounts : \A x \in Amounts : x <= a

\* The bound on the length of a log.
Room(b, offer) ==
    \A n \in Rows : sessions[n] # None /\ sessions[n].buyer = b =>
        Len(sessions[n].rounds) < MaxLog \/ (offer = Top /\ sessions[n].status # "accepted")

\* The asset is read and the request validated.
Receive(r, b, c, offer) ==
    /\ pc[r] \in Answers
    /\ Room(b, offer)
    /\ offer > 0
    /\ IF terms = None \/ terms.min = 0
       THEN Goto(r, "refused") /\ UNCHANGED job
       ELSE /\ Goto(r, "finding")
            /\ job' = [job EXCEPT ![r] = [buyer |-> b, currency |-> c, offer |-> offer,
                                          terms |-> terms, row |-> None, copy |-> None,
                                          verdict |-> None]]
    /\ UNCHANGED <<terms, sessions>>

RowsOf(b) == {n \in Rows : sessions[n] # None /\ sessions[n].buyer = b}

\* get_or_create, first half: one row is read, none leads to an insert, and more
\* than one raises MultipleObjectsReturned.  A session in the other currency is a 409.
Find_TakesAny(r) ==
    /\ pc[r] = "finding"
    /\ \/ /\ RowsOf(job[r].buyer) = {}
          /\ Goto(r, "creating")
          /\ UNCHANGED job
       \/ \E n \in Rows : /\ sessions[n] # None
                          /\ job' = [job EXCEPT ![r].row = n, ![r].copy = sessions[n]]
                          /\ Goto(r, "judging")
    /\ UNCHANGED <<terms, sessions>>

\* Find_ClosesAtCap refuses further rounds at the round cap, the list price included.
Find_ClosesAtCap(r) ==
    LET found == RowsOf(job[r].buyer)
    IN  /\ pc[r] = "finding"
        /\ \/ /\ found = {}
              /\ Goto(r, "creating")
              /\ UNCHANGED job
           \/ \E n \in found :
                /\ job' = [job EXCEPT ![r].row = n, ![r].copy = sessions[n]]
                /\ Goto(r, IF /\ sessions[n].currency = job[r].currency
                             /\ Len(sessions[n].rounds) < MaxRounds
                           THEN "judging" ELSE "refused")
    /\ UNCHANGED <<terms, sessions>>

Find(r) ==
    LET found == RowsOf(job[r].buyer)
    IN  /\ pc[r] = "finding"
        /\ \/ /\ found = {}
              /\ Goto(r, "creating")
              /\ UNCHANGED job
           \/ \E n \in found :
                /\ found = {n}
                /\ job' = [job EXCEPT ![r].row = n, ![r].copy = sessions[n]]
                /\ Goto(r, IF sessions[n].currency = job[r].currency THEN "judging" ELSE "refused")
           \/ /\ Cardinality(found) > 1
              /\ Goto(r, "failed")
              /\ UNCHANGED job
        /\ UNCHANGED <<terms, sessions>>

\* get_or_create, second half: no unique constraint stands in the way of the insert.
Create(r) ==
    LET new == [buyer |-> job[r].buyer, currency |-> job[r].currency, rounds |-> <<>>,
                status |-> "negotiating", price |-> None]
    IN  /\ pc[r] = "creating"
        /\ IF terms = None
           THEN Goto(r, "failed") /\ UNCHANGED <<sessions, job>>
           ELSE \E n \in Rows :
                  /\ sessions[n] = None
                  /\ sessions' = [sessions EXCEPT ![n] = new]
                  /\ job' = [job EXCEPT ![r].row = n, ![r].copy = new]
                  /\ Goto(r, "judging")
        /\ UNCHANGED terms

\* The model is unavailable, or none of its attempts gives a usable answer (503); a rule
\* needs no model.
NoAnswer(r) == ~ByRule(job[r]) /\ Goto(r, "failed")

\* engine.run_round on the asset and the session as they were read.
Judge(r) ==
    /\ pc[r] = "judging"
    /\ \/ /\ NoAnswer(r)
          /\ UNCHANGED job
       \/ \E v \in Verdicts(job[r]) :
             /\ job' = [job EXCEPT ![r].verdict = v]
             /\ Goto(r, "saving")
    /\ UNCHANGED <<terms, sessions>>

\* The row as the round leaves it: everything else is what r read.
Saved_PriceLost(j) ==
    [j.copy EXCEPT !.rounds = Append(@, [offer |-> j.offer, status |-> j.verdict.status,
                                         price |-> j.verdict.price]),
                   !.status = IF j.verdict.status = "ACCEPT" THEN "accepted" ELSE @,
                   !.price  = IF j.verdict.status = "ACCEPT" /\ @ = None THEN j.verdict.price ELSE @]

Saved(j) ==
    [j.copy EXCEPT !.rounds = Append(@, [offer |-> j.offer, status |-> j.verdict.status,
                                         price |-> j.verdict.price]),
                   !.status = IF j.verdict.status = "ACCEPT" THEN "accepted" ELSE @,
                   !.price  = IF j.verdict.status = "ACCEPT" THEN j.verdict.price ELSE @]

\* session.save() writes every column; the insert it falls back to fails when the
\* asset is gone.  The answer to the buyer is the verdict.
Save(r) ==
    LET n == job[r].row
    IN  /\ pc[r] = "saving"
        /\ IF sessions[n] = None
           THEN Goto(r, "failed") /\ UNCHANGED sessions
           ELSE /\ sessions' = [sessions EXCEPT ![n] = Saved(job[r])]
                /\ Goto(r, job[r].verdict.status)
        /\ UNCHANGED <<terms, job>>

Worker(r) == Find(r) \/ Create(r) \/ Judge(r) \/ Save(r)

Next ==
    \/ \E t \in Configured : Edit(t)
    \/ Delete
    \/ \E r \in Requests, b \in Buyers, c \in Currencies, offer \in Amounts : Receive(r, b, c, offer)
    \/ \E r \in Requests : Worker(r)

Spec == Init /\ [][Next]_vars

\* A worker runs its request to the end, and a buyer who wants the asset keeps
\* offering at least the list price.
Fairness ==
    /\ \A r \in Requests : WF_vars(Worker(r))
    /\ \A b \in Buyers, c \in Currencies : SF_vars(\E r \in Requests : Receive(r, b, c, Top))

FairSpec == Spec /\ Fairness

----------------------------------------------------------------------------
(***************************************************************************)
(* Properties.                                                             *)
(***************************************************************************)

\* An accepted session's price is the one its latest ACCEPT round agreed on, and the
\* offer of that round covers it, also when requests overwrite one another's row:
\* status, price and log always come from the same copy.
PriceIsLogged ==
    \A n \in Rows : sessions[n] # None /\ sessions[n].status = "accepted" =>
        LET log == sessions[n].rounds
        IN  \E k \in DOMAIN log :
                /\ log[k].status = "ACCEPT"
                /\ \A l \in DOMAIN log : log[l].status = "ACCEPT" => l <= k
                /\ sessions[n].price = log[k].price
                /\ log[k].price <= Quantize(sessions[n].currency, log[k].offer)

\* "Each buyer gets its own session thread per asset": an offer is judged against,
\* and saved into, a session of its own buyer and currency only.
OffersStayApart ==
    \A r \in Requests : pc[r] \in {"judging", "saving"} =>
        /\ job[r].copy.buyer = job[r].buyer
        /\ job[r].copy.currency = job[r].currency
        /\ sessions[job[r].row] # None => sessions[job[r].row].buyer = job[r].buyer

\* The seller never sells below the floor and the buyer never pays more than the
\* offer or the list price, whatever the model answers (R10, _finalize).  All of it is
\* up to the rounding of the price, which comes after the comparisons.
FairDeal ==
    [][\A r \in Requests : pc[r] = "saving" /\ pc'[r] = "ACCEPT" =>
          LET j == job[r]
              Rounded(p) == Quantize(j.currency, p)
          IN  /\ j.verdict.price >= Rounded(j.terms.min)
              /\ j.verdict.price <= Rounded(j.offer)
              /\ j.verdict.price <= Rounded(j.terms.target)]_vars

\* "A buyer who offers the public list price must be able to buy whatever the model
\* thinks": a buyer who keeps offering it ends with an accepted session, if the
\* seller keeps the asset and its terms negotiable.
ListPriceSells ==
    \A b \in Buyers :
        <>[](terms # None /\ terms.min > 0)
            => <>(\E n \in RowsOf(b) : sessions[n].status = "accepted")
=============================================================================
