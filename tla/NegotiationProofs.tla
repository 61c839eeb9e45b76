------------------------- MODULE NegotiationProofs -------------------------
(***************************************************************************)
(* Proofs that a deal respects the floor of its round and the offer of its *)
(* buyer whatever the model answers, that the price of an accepted session *)
(* is that of its last ACCEPT round, and that offers of two buyers never   *)
(* meet in one session, for any number of buyers, rounds and concurrent    *)
(* requests that overwrite one another's rows.                             *)
(***************************************************************************)
EXTENDS Negotiation, TLAPS

Verdict == [status: {"ACCEPT", "COUNTER_OFFER", "REJECT"}, price: Nat \cup {None}]

JobRow == [buyer: Buyers, currency: Currencies, offer: Amounts, terms: Configured,
           row: Rows \cup {None}, copy: Session \cup {None}, verdict: Verdict \cup {None}]

StateOK ==
    /\ terms \in Configured \cup {None}
    /\ sessions \in [Rows -> Session \cup {None}]
    /\ pc \in [Requests -> Answers \cup Running]
    /\ job \in [Requests -> JobRow \cup {None}]
    /\ \A r \in Requests :
          /\ pc[r] \in Running => job[r] \in JobRow
          /\ pc[r] \in {"judging", "saving"} => job[r].row \in Rows /\ job[r].copy \in Session
          /\ pc[r] = "saving" => job[r].verdict \in Verdict

\* The price of a row is that of its last ACCEPT round.
Logged(row) ==
    /\ row.status = "accepted" <=> row.price # None
    /\ row.status = "accepted" =>
          \E k \in DOMAIN row.rounds :
              /\ row.rounds[k].status = "ACCEPT"
              /\ \A l \in DOMAIN row.rounds : row.rounds[l].status = "ACCEPT" => l <= k
              /\ row.price = row.rounds[k].price
              /\ row.rounds[k].price <= Quantize(row.currency, row.rounds[k].offer)

\* What the engine may agree to.
Fair(j) ==
    j.verdict.status = "ACCEPT" =>
        /\ j.verdict.price \in Nat
        /\ j.verdict.price >= Quantize(j.currency, j.terms.min)
        /\ j.verdict.price <= Quantize(j.currency, j.offer)
        /\ j.verdict.price <= Quantize(j.currency, j.terms.target)

RowsLogged == \A n \in Rows : sessions[n] # None => Logged(sessions[n])

\* A request in the engine holds a copy of a row of its own buyer and currency; the row
\* is that buyer's, or went with the asset.
CopiesAreOwn ==
    \A r \in Requests : pc[r] \in {"judging", "saving"} =>
        LET j == job[r]
        IN  /\ Logged(j.copy)
            /\ j.copy.buyer = j.buyer /\ j.copy.currency = j.currency
            /\ sessions[j.row] # None =>
                  sessions[j.row].buyer = j.buyer /\ sessions[j.row].currency = j.currency
            /\ sessions[j.row] = None => terms = None

VerdictsAreFair == \A r \in Requests : pc[r] = "saving" => Fair(job[r])

IInv ==
    /\ StateOK
    /\ RowsLogged
    /\ CopiesAreOwn
    /\ VerdictsAreFair

----------------------------------------------------------------------------
(***************************************************************************)
(* Rounding.                                                               *)
(***************************************************************************)
LEMMA DivMonotone ==
  ASSUME NEW p \in Nat, NEW q \in Nat, p <= q, NEW b \in Nat \ {0}
  PROVE  p \div b \in Nat /\ q \div b \in Nat /\ p \div b <= q \div b
<1>1. p \div b \in Nat /\ q \div b \in Nat
  OBVIOUS
<1>2. p \div b <= q \div b
  OBVIOUS
<1>3. QED
  BY <1>1, <1>2

\* Rounding keeps the order of prices.
LEMMA Rounding ==
  ASSUME NEW c, NEW p \in Nat, NEW q \in Nat, p <= q
  PROVE  Quantize(c, p) \in Nat /\ Quantize(c, q) \in Nat /\ Quantize(c, p) <= Quantize(c, q)
<1> DEFINE h == Tick \div 2
           x == (p + h) \div Tick
           y == (q + h) \div Tick
<1>1. h \in Nat
  BY AmountsAssumption
<1>2. x \in Nat /\ y \in Nat /\ x <= y
  BY <1>1, DivMonotone, AmountsAssumption
<1>3. x * Tick \in Nat /\ y * Tick \in Nat /\ x * Tick <= y * Tick
  <2> HIDE DEF x, y
  <2>1. QED
    BY <1>2, AmountsAssumption
<1>4. QED
  BY <1>3 DEF Quantize

\* _finalize and the rules, which raise a price to the floor and turn an ACCEPT above the
\* offer into a counter offer, leave only fair verdicts.
LEMMA VerdictIsFair ==
  ASSUME NEW j \in JobRow, NEW v \in Verdicts(j)
  PROVE  v \in Verdict /\ Fair([j EXCEPT !.verdict = v])
<1> DEFINE k == [j EXCEPT !.verdict = v]
<1>1. /\ j.offer \in Nat /\ j.terms.min \in Nat /\ j.terms.target \in Nat
      /\ j.terms.min <= j.terms.target
  BY AmountsAssumption DEF JobRow, Configured, Terms
<1>2. k.verdict = v /\ k.currency = j.currency /\ k.terms = j.terms /\ k.offer = j.offer
  BY DEF JobRow
<1>3. CASE ~ByRule(j)
  <2>1. PICK o \in Opinions : v = Finalize(o, j)
    BY <1>3 DEF Verdicts
  <2>2. j.offer < j.terms.target
    BY <1>1, <1>3 DEF ByRule
  <2>3. o.status \in {"ACCEPT", "COUNTER_OFFER", "REJECT"} /\ o.price \in Nat \cup {None}
    BY AmountsAssumption DEF Opinions
  <2>4. CASE o.status = "REJECT"
    <3>1. v = Priced(j.currency, "REJECT", o.price)
      BY <2>1, <2>4 DEF Finalize
    <3>2. v \in Verdict /\ v.status = "REJECT"
      BY <2>3, <3>1, Rounding DEF Priced, Verdict
    <3>3. QED
      BY <1>2, <3>2 DEF Fair
  <2>5. CASE o.status # "REJECT"
    <3> DEFINE p == Clamp(o.price, j.terms)
               st == IF p > j.offer THEN "COUNTER_OFFER" ELSE o.status
    <3>1. v = Priced(j.currency, st, p)
      BY <2>1, <2>5 DEF Finalize
    <3>2. p \in Nat /\ p >= j.terms.min
      BY <1>1, <2>3 DEF Clamp
    <3>3. v.status = st /\ v.price = Quantize(j.currency, p) /\ v.price \in Nat /\ v \in Verdict
      BY <2>3, <3>1, <3>2, Rounding, NoneAssumption DEF Priced, Verdict
    <3>4. st = "ACCEPT" => p <= j.offer
      BY <1>1, <3>2
    <3> HIDE DEF p, st, k
    <3>5. QED
      BY <1>1, <1>2, <2>2, <3>2, <3>3, <3>4, Rounding DEF Fair
  <2>6. QED
    BY <2>4, <2>5
<1>4. CASE ByRule(j) /\ j.offer >= j.terms.target
  <2>1. v = [status |-> "ACCEPT", price |-> Quantize(j.currency, j.terms.target)]
    BY <1>1, <1>4, NoneAssumption DEF Verdicts, Priced
  <2>2. v \in Verdict /\ v.price \in Nat
    BY <1>1, <2>1, Rounding DEF Verdict
  <2> HIDE DEF k
  <2>3. QED
    BY <1>1, <1>2, <1>4, <2>1, <2>2, Rounding DEF Fair
<1>5. CASE ByRule(j) /\ ~(j.offer >= j.terms.target)
  <2>1. v = [status |-> "REJECT", price |-> None]
    BY <1>5 DEF Verdicts, Priced
  <2>2. QED
    BY <1>2, <2>1 DEF Fair, Verdict
<1>6. QED
  BY <1>3, <1>4, <1>5

----------------------------------------------------------------------------
\* A round keeps the price of the row that of its last ACCEPT.
LEMMA SavedRow ==
  ASSUME NEW j \in JobRow, j.copy \in Session, j.verdict \in Verdict, Logged(j.copy),
         Fair(j), j.copy.currency = j.currency
  PROVE  /\ Saved(j) \in Session /\ Logged(Saved(j))
         /\ Saved(j).buyer = j.copy.buyer /\ Saved(j).currency = j.copy.currency
<1> DEFINE log == j.copy.rounds
           last == [offer |-> j.offer, status |-> j.verdict.status, price |-> j.verdict.price]
           st == IF j.verdict.status = "ACCEPT" THEN "accepted" ELSE j.copy.status
           pr == IF j.verdict.status = "ACCEPT" THEN j.verdict.price ELSE j.copy.price
           row == Saved(j)
<1>1. log \in Seq(Round) /\ last \in Round
  BY DEF Session, Round, Verdict, JobRow
<1>2. st \in {"negotiating", "accepted"} /\ pr \in Nat \cup {None}
  BY DEF Session, Verdict
<1>3. /\ row.rounds = Append(log, last) /\ row.status = st /\ row.price = pr
      /\ row.buyer = j.copy.buyer /\ row.currency = j.copy.currency
      /\ row = [j.copy EXCEPT !.rounds = Append(log, last), !.status = st, !.price = pr]
  BY DEF Saved, Session
<1> HIDE DEF last, st, pr, row, log
<1>4. Append(log, last) \in Seq(Round)
  BY <1>1
<1>5. row \in Session
  BY <1>2, <1>3, <1>4 DEF Session
<1>6. /\ Len(log) \in Nat
      /\ DOMAIN Append(log, last) = 1..(Len(log) + 1) /\ DOMAIN log = 1..Len(log)
      /\ Append(log, last)[Len(log) + 1] = last
      /\ \A l \in DOMAIN log : Append(log, last)[l] = log[l]
  BY <1>1
<1>7. CASE j.verdict.status = "ACCEPT"
  <2>1. row.status = "accepted" /\ row.price = j.verdict.price /\ row.price \in Nat
    BY <1>3, <1>7 DEF st, pr, Fair
  <2>2. last.status = "ACCEPT" /\ last.price = row.price /\ last.offer = j.offer
    BY <1>7, <2>1 DEF last
  <2>3. last.price <= Quantize(row.currency, last.offer)
    BY <1>3, <1>7, <2>1, <2>2 DEF Fair
  <2>4. Logged(row)
    BY <1>3, <1>6, <2>1, <2>2, <2>3, NoneAssumption DEF Logged
  <2>5. QED
    BY <1>3, <1>5, <2>4 DEF row
<1>8. CASE j.verdict.status # "ACCEPT"
  <2>1. row.status = j.copy.status /\ row.price = j.copy.price /\ last.status # "ACCEPT"
    BY <1>3, <1>8 DEF st, pr, last
  <2>2. Logged(row)
    BY <1>3, <1>6, <2>1 DEF Logged, log
  <2>3. QED
    BY <1>3, <1>5, <2>2 DEF row
<1>9. QED
  BY <1>7, <1>8

\* The invariant holds before the first offer,
LEMMA InitIInv == Init => IInv
BY DEF Init, IInv, StateOK, RowsLogged, CopiesAreOwn, VerdictsAreFair, Answers, Running

\* and every step keeps it.
LEMMA NextIInv == IInv /\ [Next]_vars => IInv'
<1> SUFFICES ASSUME IInv, [Next]_vars PROVE IInv'
  OBVIOUS
<1> USE DEF IInv, StateOK, RowsLogged, CopiesAreOwn, VerdictsAreFair, Goto
<1>1. ASSUME NEW t \in Configured, Edit(t) PROVE IInv'
  BY <1>1, NoneAssumption DEF Edit, Configured
<1>2. ASSUME Delete PROVE IInv'
  BY <1>2 DEF Delete
<1>3. ASSUME NEW r \in Requests, NEW b \in Buyers, NEW c \in Currencies, NEW offer \in Amounts,
             Receive(r, b, c, offer)
      PROVE  IInv'
  <2> DEFINE new == [buyer |-> b, currency |-> c, offer |-> offer, terms |-> terms,
                     row |-> None, copy |-> None, verdict |-> None]
  <2>1. CASE terms = None \/ terms.min = 0
    BY <1>3, <2>1 DEF Receive, Answers, Running
  <2>2. CASE ~(terms = None \/ terms.min = 0)
    <3>1. new \in JobRow
      BY <2>2 DEF JobRow
    <3>2. pc' = [pc EXCEPT ![r] = "finding"] /\ job' = [job EXCEPT ![r] = new]
          /\ UNCHANGED <<terms, sessions>>
      BY <1>3, <2>2 DEF Receive
    <3> HIDE DEF new
    <3>3. QED
      BY <3>1, <3>2 DEF Running
  <2>3. QED
    BY <2>1, <2>2
<1>4. ASSUME NEW r \in Requests, Find(r) PROVE IInv'
  <2>1. job[r] \in JobRow /\ pc[r] = "finding"
    BY <1>4 DEF Find, Running
  <2>2. CASE UNCHANGED job /\ \E p \in {"creating", "failed"} : Goto(r, p)
    BY <1>4, <2>1, <2>2 DEF Find, Answers, Running
  <2>3. ASSUME NEW n \in RowsOf(job[r].buyer), NEW p \in {"judging", "refused"},
               p = "judging" => sessions[n].currency = job[r].currency,
               job' = [job EXCEPT ![r].row = n, ![r].copy = sessions[n]], Goto(r, p)
        PROVE  IInv'
    <3> DEFINE new == [job[r] EXCEPT !.row = n, !.copy = sessions[n]]
    <3>1. n \in Rows /\ sessions[n] # None /\ sessions[n].buyer = job[r].buyer
      BY DEF RowsOf
    <3>2. /\ new \in JobRow /\ new.row = n /\ new.copy = sessions[n] /\ new.buyer = job[r].buyer
          /\ new.currency = job[r].currency
      BY <2>1, <3>1 DEF JobRow
    <3>3. job' = [job EXCEPT ![r] = new]
      BY <2>1, <2>3
    <3>4. UNCHANGED <<terms, sessions>>
      BY <1>4 DEF Find
    <3> HIDE DEF new
    <3>5. pc' = [pc EXCEPT ![r] = p] /\ p \in Answers \cup Running /\ p # "saving"
      BY <2>3 DEF Answers, Running
    <3>6. p = "judging" => new.currency = sessions[n].currency
      BY <2>3, <3>2
    <3>7. job'[r] = new /\ pc'[r] = p /\ \A q \in Requests \ {r} : job'[q] = job[q] /\ pc'[q] = pc[q]
      BY <3>3, <3>5
    <3>8. job' \in [Requests -> JobRow \cup {None}] /\ pc' \in [Requests -> Answers \cup Running]
      BY <3>2, <3>3, <3>5
    <3>9. sessions[n] \in Session /\ Logged(sessions[n])
      BY <3>1
    <3>10. StateOK'
      <4>1. ASSUME NEW q \in Requests
            PROVE  /\ pc'[q] \in Running => job'[q] \in JobRow
                   /\ pc'[q] \in {"judging", "saving"} => job'[q].row \in Rows /\ job'[q].copy \in Session
                   /\ pc'[q] = "saving" => job'[q].verdict \in Verdict
        BY <3>1, <3>2, <3>5, <3>7, <3>9, <4>1
      <4>2. QED
        BY <3>4, <3>8, <4>1
    <3>11. CopiesAreOwn'
      BY <3>1, <3>2, <3>4, <3>6, <3>7, <3>9
    <3>12. VerdictsAreFair'
      BY <3>5, <3>7
    <3>13. QED
      BY <3>4, <3>10, <3>11, <3>12
  <2>4. QED
    BY <1>4, <2>2, <2>3 DEF Find
<1>5. ASSUME NEW r \in Requests, Create(r) PROVE IInv'
  <2> DEFINE new == [buyer |-> job[r].buyer, currency |-> job[r].currency, rounds |-> <<>>,
                     status |-> "negotiating", price |-> None]
  <2>1. job[r] \in JobRow /\ pc[r] = "creating"
    BY <1>5 DEF Create, Running
  <2>2. CASE terms = None
    BY <1>5, <2>1, <2>2 DEF Create, Answers, Running
  <2>3. ASSUME terms # None,
               NEW n \in Rows, sessions[n] = None, sessions' = [sessions EXCEPT ![n] = new],
               job' = [job EXCEPT ![r].row = n, ![r].copy = new], Goto(r, "judging")
        PROVE  IInv'
    <3> DEFINE k == [job[r] EXCEPT !.row = n, !.copy = new]
    <3>1. new \in Session /\ Logged(new) /\ new.buyer = job[r].buyer /\ new.currency = job[r].currency
      BY <2>1 DEF JobRow, Session, Logged
    <3>2. /\ k \in JobRow /\ k.row = n /\ k.copy = new /\ k.buyer = job[r].buyer
          /\ k.currency = job[r].currency
      BY <2>1, <3>1 DEF JobRow
    <3>3. job' = [job EXCEPT ![r] = k]
      BY <2>1, <2>3
    <3>4. UNCHANGED terms
      BY <1>5 DEF Create
    <3>5. \A q \in Requests : q # r /\ pc[q] \in {"judging", "saving"} => job[q].row # n
      BY <2>3
    <3> HIDE DEF new, k
    <3>6. /\ job'[r] = k /\ pc'[r] = "judging"
          /\ \A q \in Requests \ {r} : job'[q] = job[q] /\ pc'[q] = pc[q]
      BY <2>3, <3>3
    <3>7. /\ sessions'[n] = new /\ \A m \in Rows \ {n} : sessions'[m] = sessions[m]
          /\ sessions' \in [Rows -> Session \cup {None}] /\ n \in Rows
      BY <2>3, <3>1
    <3>8. /\ job' \in [Requests -> JobRow \cup {None}]
          /\ pc' \in [Requests -> Answers \cup Running]
      <4>1. job' \in [Requests -> JobRow \cup {None}]
        BY <3>2, <3>3
      <4>2. pc' = [pc EXCEPT ![r] = "judging"] /\ "judging" \in Running
        BY <2>3 DEF Running
      <4>3. QED
        BY <4>1, <4>2
    <3>9. StateOK'
      <4>1. ASSUME NEW q \in Requests
            PROVE  /\ pc'[q] \in Running => job'[q] \in JobRow
                   /\ pc'[q] \in {"judging", "saving"} => job'[q].row \in Rows /\ job'[q].copy \in Session
                   /\ pc'[q] = "saving" => job'[q].verdict \in Verdict
        BY <3>1, <3>2, <3>6, <3>7, <4>1
      <4>2. QED
        BY <3>4, <3>7, <3>8, <4>1
    <3>10. RowsLogged'
      BY <3>1, <3>7
    <3>11. CopiesAreOwn'
      <4>1. ASSUME NEW q \in Requests, q # r, pc'[q] \in {"judging", "saving"}
            PROVE  /\ job'[q] = job[q] /\ pc'[q] = pc[q] /\ job[q].row \in Rows /\ job[q].row # n
                   /\ sessions'[job[q].row] = sessions[job[q].row]
        BY <3>5, <3>6, <3>7, <4>1
      <4>2. job'[r].row = n /\ job'[r].copy = new /\ sessions'[n] = new /\ new # None
        BY <3>1, <3>2, <3>6, <3>7, NoneAssumption
      <4>3. /\ Logged(job'[r].copy)
            /\ job'[r].copy.buyer = job'[r].buyer /\ job'[r].copy.currency = job'[r].currency
        BY <3>1, <3>2, <3>6
      <4>4. QED
        BY <3>4, <4>1, <4>2, <4>3
    <3>12. VerdictsAreFair'
      BY <3>6
    <3>13. QED
      BY <3>9, <3>10, <3>11, <3>12
  <2>4. QED
    BY <1>5, <2>2, <2>3 DEF Create
<1>6. ASSUME NEW r \in Requests, Judge(r) PROVE IInv'
  <2>1. job[r] \in JobRow /\ pc[r] = "judging"
    BY <1>6 DEF Judge, NoAnswer, Running
  <2>2. CASE UNCHANGED job /\ Goto(r, "failed")
    BY <1>6, <2>1, <2>2 DEF Judge, NoAnswer, Answers, Running
  <2>3. ASSUME NEW v \in Verdicts(job[r]), job' = [job EXCEPT ![r].verdict = v], Goto(r, "saving")
        PROVE  IInv'
    <3> DEFINE k == [job[r] EXCEPT !.verdict = v]
    <3>1. v \in Verdict /\ Fair(k)
      BY <2>1, VerdictIsFair
    <3>2. /\ k \in JobRow /\ k.row = job[r].row /\ k.copy = job[r].copy /\ k.verdict = v
          /\ k.buyer = job[r].buyer /\ k.currency = job[r].currency
      BY <2>1, <3>1 DEF JobRow
    <3>3. job' = [job EXCEPT ![r] = k]
      BY <2>1, <2>3
    <3>4. UNCHANGED <<terms, sessions>>
      BY <1>6 DEF Judge, NoAnswer
    <3> HIDE DEF k
    <3>5. QED
      BY <2>1, <2>3, <3>1, <3>2, <3>3, <3>4 DEF Running
  <2>4. QED
    BY <1>6, <2>2, <2>3 DEF Judge, NoAnswer
<1>7. ASSUME NEW r \in Requests, Save(r) PROVE IInv'
  <2> DEFINE n == job[r].row
             row == Saved(job[r])
  <2>1. /\ job[r] \in JobRow /\ n \in Rows /\ pc[r] = "saving"
        /\ job[r].verdict.status \in {"ACCEPT", "COUNTER_OFFER", "REJECT"}
    BY <1>7 DEF Save, Running, Verdict
  <2>2. CASE sessions[n] = None
    BY <1>7, <2>1, <2>2 DEF Save, Answers, Running
  <2>3. CASE sessions[n] # None
    <3>1. row \in Session /\ Logged(row) /\ row.buyer = job[r].buyer /\ row.currency = job[r].currency
      BY <2>1, SavedRow
    <3>2. /\ sessions' = [sessions EXCEPT ![n] = row] /\ UNCHANGED <<terms, job>>
          /\ \E p \in Answers : Goto(r, p)
      BY <1>7, <2>1, <2>3 DEF Save, Answers
    <3>3. \A q \in Requests : pc[q] \in {"judging", "saving"} /\ job[q].row = n =>
              row.buyer = job[q].buyer /\ row.currency = job[q].currency
      BY <2>1, <2>3, <3>1
    <3> HIDE DEF row
    <3>4. QED
      BY <2>1, <2>3, <3>1, <3>2, <3>3, NoneAssumption DEF Answers, Running
  <2>4. QED
    BY <2>2, <2>3
<1>8. CASE UNCHANGED vars
  BY <1>8 DEF vars
<1>9. QED
  BY <1>1, <1>2, <1>3, <1>4, <1>5, <1>6, <1>7, <1>8 DEF Next, Worker

----------------------------------------------------------------------------
(***************************************************************************)
(* Theorems of the specification.                                          *)
(***************************************************************************)

\* The inductive invariant holds in every reachable state.
THEOREM Invariance == Spec => []IInv
<1>1. QED
  BY InitIInv, NextIInv, PTL DEF Spec

\* Every variable keeps its type: the session rows, the requests and the terms are what
\* negotiate, get_or_create and the terms editor leave.
THEOREM TypeCorrect == Spec => []TypeOK
<1>1. IInv => TypeOK
  <2> SUFFICES ASSUME IInv PROVE TypeOK
    OBVIOUS
  <2>1. /\ terms \in Configured \cup {None}
        /\ pc \in [Requests -> Answers \cup Running]
    BY DEF IInv, StateOK
  <2>2. ASSUME NEW n \in Rows, sessions[n] # None
        PROVE  /\ sessions[n].buyer \in Buyers
               /\ sessions[n].currency \in Currencies
               /\ \A k \in DOMAIN sessions[n].rounds : sessions[n].rounds[k] \in Round
               /\ sessions[n].status \in {"negotiating", "accepted"}
               /\ sessions[n].status = "accepted" <=> sessions[n].price # None
    <3>1. sessions[n] \in Session /\ Logged(sessions[n])
      BY <2>2 DEF IInv, StateOK, RowsLogged
    <3>2. sessions[n].rounds \in Seq(Round)
      BY <3>1 DEF Session
    <3>3. \A k \in DOMAIN sessions[n].rounds : sessions[n].rounds[k] \in Round
      BY <3>2
    <3>4. QED
      BY <3>1, <3>3 DEF Session, Logged
  <2>3. QED
    BY <2>1, <2>2 DEF TypeOK
<1>2. QED
  BY <1>1, Invariance, PTL

\* An accepted session's price is that of its last ACCEPT round and covered by that
\* round's offer, also when session.save() overwrites a row another request has written.
THEOREM LoggedPrices == Spec => []PriceIsLogged
<1>1. IInv => PriceIsLogged
  BY DEF IInv, RowsLogged, Logged, PriceIsLogged
<1>2. QED
  BY <1>1, Invariance, PTL

\* An offer is judged against, and saved into, a session of its own buyer and currency
\* only, whatever get_or_create finds.
THEOREM OffersApart == Spec => []OffersStayApart
<1>1. IInv => OffersStayApart
  BY DEF IInv, CopiesAreOwn, OffersStayApart
<1>2. QED
  BY <1>1, Invariance, PTL

\* Whatever the model answers, a deal is at or above the floor its round read, at most the
\* offer and at most the list price, up to rounding (_finalize).
THEOREM DealsAreFair == Spec => FairDeal
<1>1. IInv /\ [Next]_vars =>
        [\A r \in Requests : pc[r] = "saving" /\ pc'[r] = "ACCEPT" =>
          LET j == job[r]
              Rounded(p) == Quantize(j.currency, p)
          IN  /\ j.verdict.price >= Rounded(j.terms.min)
              /\ j.verdict.price <= Rounded(j.offer)
              /\ j.verdict.price <= Rounded(j.terms.target)]_vars
  <2> SUFFICES ASSUME IInv, [Next]_vars, NEW r \in Requests, pc[r] = "saving", pc'[r] = "ACCEPT"
               PROVE  /\ job[r].verdict.price >= Quantize(job[r].currency, job[r].terms.min)
                      /\ job[r].verdict.price <= Quantize(job[r].currency, job[r].offer)
                      /\ job[r].verdict.price <= Quantize(job[r].currency, job[r].terms.target)
    BY Zenon
  <2>1. pc \in [Requests -> Answers \cup Running] /\ Fair(job[r])
    BY DEF IInv, StateOK, VerdictsAreFair
  <2>2. job[r].verdict.status = "ACCEPT"
    <3>1. PICK q \in Requests : Save(q) /\ q = r
      BY <2>1 DEF Next, Worker, Edit, Delete, Receive, Find, Create, Judge, NoAnswer, Save, Goto, vars,
                  Answers
    <3>2. QED
      BY <2>1, <3>1 DEF Save, Goto
  <2>3. QED
    BY <2>1, <2>2 DEF Fair
<1>2. QED
  BY <1>1, Invariance, PTL DEF Spec, FairDeal
=============================================================================
