----------------------- MODULE BatchSettlementProofs -----------------------
(***************************************************************************)
(* Proofs about BatchSettlement, for every set of orders, items, payments  *)
(* and requests, whether or not the database enforces the width of a key,  *)
(* and any number of failed grants and crashes.                            *)
(***************************************************************************)
EXTENDS BatchSettlement, FiniteSetTheorems, TLAPS

Granting == {"granting", "inserting", "linking"}

\* The rows that others refer to exist.
RowsExist ==
    /\ \A x \in Items : items[x] # None => orders[items[x].order] # None
    /\ \A r \in Requests : pc[r] \in Running => job[r] # None /\ orders[job[r].order] # None

\* A request past the screening has read an order that was not concluded.
ReadQuoted ==
    \A r \in Requests : pc[r] \in Granting \cup {"verifying"} => job[r].status = "quoted"

\* A request that grants has seen a payment of the total of its order.
GrantingIsPaid ==
    \A r \in Requests : pc[r] \in Granting => chain[job[r].sig] = orders[job[r].order].total

\* What a request holds is an item of its order, licensed when it is about to be linked.
HandIsOfOrder ==
    \A r \in Requests :
        /\ pc[r] \in {"inserting", "linking"} => hand[r] \in ItemsOf(job[r].order)
        /\ pc[r] = "linking" => <<job[r].sig, hand[r]>> \in licenses

\* A request that grants has not lost an item of its order.
Accounted ==
    \A r \in Requests : pc[r] \in Granting =>
        \A x \in ItemsOf(job[r].order) :
            \/ x \in todo[r] \cup missed[r]
            \/ pc[r] = "inserting" /\ x = hand[r]
            \/ <<job[r].sig, x>> \in licenses

\* A request only goes through items of its order.
TodoIsOfOrder ==
    \A r \in Requests : pc[r] \in Granting => todo[r] \subseteq ItemsOf(job[r].order)

\* The inductive invariant: LicensesArePaid rests on what a request has learnt before it
\* inserts, SettledIsComplete on what it has done before it concludes.
IInv ==
    /\ TypeOK
    /\ RowsExist
    /\ ReadQuoted
    /\ GrantingIsPaid
    /\ HandIsOfOrder
    /\ TodoIsOfOrder
    /\ Accounted
    /\ LicensesArePaid
    /\ SettledIsComplete

\* Before the first order and the first payment the invariant holds.
LEMMA InitIInv == Init => IInv
<1> SUFFICES ASSUME Init PROVE IInv
  OBVIOUS
<1> USE NoneAssumption, BoundsAssumption DEF Init
<1>1. TypeOK
  BY DEF TypeOK, Answers
<1>2. RowsExist /\ ReadQuoted /\ GrantingIsPaid /\ HandIsOfOrder /\ TodoIsOfOrder /\ Accounted
  BY DEF RowsExist, ReadQuoted, GrantingIsPaid, HandIsOfOrder, TodoIsOfOrder, Accounted,
         Running, Granting
<1>3. LicensesArePaid /\ SettledIsComplete
  BY DEF LicensesArePaid, SettledIsComplete
<1>4. QED
  BY <1>1, <1>2, <1>3 DEF IInv

\* Every step writes values of the right type.
LEMMA NextTypeOK == TypeOK /\ RowsExist /\ HandIsOfOrder /\ [Next]_vars => TypeOK'
<1> SUFFICES ASSUME TypeOK, RowsExist, HandIsOfOrder, [Next]_vars PROVE TypeOK'
  OBVIOUS
<1> USE NoneAssumption, BoundsAssumption
      DEF TypeOK, Order, Item, Job, Concluded, Answers, Running, Goto, rows
<1>1. ASSUME NEW o \in Orders, NEW xs \in SUBSET Items, NEW t \in Totals, Quote(o, xs, t)
      PROVE  TypeOK'
  BY <1>1 DEF Quote, NewOrder
<1>2. ASSUME NEW s \in Sigs, NEW t \in Totals, Pay(s, t) PROVE TypeOK'
  BY <1>2 DEF Pay
<1>3. ASSUME NEW r \in Requests, NEW o \in Orders, NEW s \in Sigs, Receive(r, o, s)
      PROVE  TypeOK'
  BY <1>3 DEF Receive
<1>4. ASSUME NEW r \in Requests, Screen(r) PROVE TypeOK'
  BY <1>4 DEF Screen, RowsExist
<1>5. ASSUME NEW r \in Requests, Verify(r) PROVE TypeOK'
  BY <1>5 DEF Verify, Todo, ItemsOf
<1>6. ASSUME NEW r \in Requests, NEW x \in Items, Look(r, x) PROVE TypeOK'
  BY <1>6 DEF Look, Miss
<1>7. ASSUME NEW r \in Requests, Insert(r) PROVE TypeOK'
  <2>1. job[r] \in Job /\ hand[r] \in Items
    BY <1>7 DEF Insert, RowsExist, HandIsOfOrder, ItemsOf
  <2>2. QED
    BY <1>7, <2>1, SMTT(30) DEF Insert, Miss
<1>8. ASSUME NEW r \in Requests, Link(r) PROVE TypeOK'
  <2>1. job[r] \in Job /\ hand[r] \in Items /\ items[hand[r]] \in Item
    BY <1>8 DEF Link, RowsExist, HandIsOfOrder, ItemsOf
  <2>2. items' \in [Items -> Item \cup {None}]
    BY <1>8, <2>1 DEF Link
  <2>3. QED
    BY <1>8, <2>2 DEF Link
<1>9. ASSUME NEW r \in Requests, Conclude(r) PROVE TypeOK'
  <2>1. job[r] \in Job /\ orders[job[r].order] \in Order
    BY <1>9 DEF Conclude, RowsExist
  <2>2. Outcome(r) \in {"settled", "partial"}
    BY DEF Outcome
  <2>3. orders' \in [Orders -> Order \cup {None}]
    BY <1>9, <2>1, <2>2 DEF Conclude
  <2>4. QED
    BY <1>9, <2>2, <2>3 DEF Conclude
<1>10. ASSUME NEW r \in Requests, Crash(r) PROVE TypeOK'
  BY <1>10 DEF Crash
<1>11. CASE UNCHANGED vars
  BY <1>11 DEF vars
<1>12. QED
  BY <1>1, <1>2, <1>3, <1>4, <1>5, <1>6, <1>7, <1>8, <1>9, <1>10, <1>11 DEF Next, Worker

\* What no step takes back: rows, totals and payments stay, Licenses stay, and an order
\* keeps the items it was quoted with.  Only a conclusion rewrites an order.
LEMMA Growth ==
    TypeOK /\ RowsExist /\ HandIsOfOrder /\ [Next]_vars =>
      /\ \A o \in Orders : orders[o] # None =>
            /\ orders'[o] # None
            /\ orders'[o].total = orders[o].total
            /\ orders'[o] # orders[o] => \E r \in Requests : Conclude(r) /\ job[r].order = o
            /\ ItemsOf(o)' = ItemsOf(o)
      /\ \A x \in Items : items[x] # None =>
            /\ items'[x] # None
            /\ items'[x].order = items[x].order
      /\ \A x \in Items : items[x] = None /\ items'[x] # None =>
            /\ items'[x].license = None
            /\ orders[items'[x].order] = None
            /\ orders'[items'[x].order] # None
      /\ \A s \in Sigs : chain[s] # None => chain'[s] = chain[s]
      /\ licenses \subseteq licenses'
<1> SUFFICES ASSUME TypeOK, RowsExist, HandIsOfOrder, [Next]_vars
             PROVE  /\ \A o \in Orders : orders[o] # None =>
                          /\ orders'[o] # None
                          /\ orders'[o].total = orders[o].total
                          /\ orders'[o] # orders[o] => \E r \in Requests : Conclude(r) /\ job[r].order = o
                          /\ ItemsOf(o)' = ItemsOf(o)
                    /\ \A x \in Items : items[x] # None =>
                          /\ items'[x] # None
                          /\ items'[x].order = items[x].order
                    /\ \A x \in Items : items[x] = None /\ items'[x] # None =>
                          /\ items'[x].license = None
                          /\ orders[items'[x].order] = None
                          /\ orders'[items'[x].order] # None
                    /\ \A s \in Sigs : chain[s] # None => chain'[s] = chain[s]
                    /\ licenses \subseteq licenses'
  OBVIOUS
<1> USE NoneAssumption DEF rows
<1>1. ASSUME NEW o \in Orders, NEW xs \in SUBSET Items, NEW t \in Totals, Quote(o, xs, t)
      PROVE  /\ \A p \in Orders : orders[p] # None => orders'[p] = orders[p]
             /\ \A x \in Items : items[x] # None => items'[x] = items[x]
             /\ \A x \in Items : items[x] = None /\ items'[x] # None =>
                   items'[x].order = o /\ items'[x].license = None
             /\ orders[o] = None /\ orders'[o] # None
             /\ UNCHANGED <<chain, licenses>>
  <2>1. [total |-> t, status |-> "quoted", sig |-> None] # None
    BY DEF Order
  <2>2. QED
    BY <1>1, <2>1 DEF Quote, NewOrder, TypeOK
<1>2. ASSUME NEW r \in Requests, Conclude(r)
      PROVE  /\ \A o \in Orders : orders[o] # None =>
                   /\ orders'[o] # None
                   /\ orders'[o].total = orders[o].total
                   /\ orders'[o] # orders[o] => job[r].order = o
             /\ UNCHANGED <<items, chain, licenses>>
  <2>1. job[r] \in Job /\ orders[job[r].order] \in Order
    BY <1>2 DEF Conclude, RowsExist, Running, TypeOK, Job
  <2>2. [orders[job[r].order] EXCEPT !.status = Outcome(r), !.sig = job[r].sig] \in Order
    BY <2>1 DEF Order, Job, Outcome, Concluded
  <2>3. QED
    BY <1>2, <2>1, <2>2 DEF Conclude, TypeOK, Order, Job
<1>3. ASSUME NEW r \in Requests, Link(r)
      PROVE  /\ \A x \in Items : items[x] # None =>
                   items'[x] # None /\ items'[x].order = items[x].order
             /\ \A x \in Items : items[x] = None => items'[x] = None
             /\ UNCHANGED <<orders, chain, licenses>>
  <2>1. job[r] \in Job /\ hand[r] \in Items /\ items[hand[r]] \in Item
    BY <1>3 DEF Link, RowsExist, HandIsOfOrder, ItemsOf, Running, TypeOK, Job
  <2>2. [items[hand[r]] EXCEPT !.license = job[r].sig] \in Item
    BY <2>1 DEF Item, Job
  <2>3. QED
    BY <1>3, <2>1, <2>2 DEF Link, TypeOK, Item
<1>4. ASSUME NEW r \in Requests, Insert(r)
      PROVE  licenses \subseteq licenses' /\ UNCHANGED <<orders, items, chain>>
  BY <1>4 DEF Insert
<1>5. ASSUME NEW s \in Sigs, NEW t \in Totals, Pay(s, t)
      PROVE  /\ \A q \in Sigs : chain[q] # None => chain'[q] = chain[q]
             /\ UNCHANGED <<orders, items, licenses>>
  BY <1>5 DEF Pay, TypeOK
<1>6. \/ \E o \in Orders, xs \in SUBSET Items, t \in Totals : Quote(o, xs, t)
      \/ \E r \in Requests : Conclude(r) \/ Link(r) \/ Insert(r)
      \/ \E s \in Sigs, t \in Totals : Pay(s, t)
      \/ UNCHANGED <<orders, items, chain, licenses>>
  BY DEF Next, Worker, Receive, Screen, Verify, Look, Crash, vars
<1>7. \A o \in Orders : orders[o] # None =>
         /\ orders'[o] # None
         /\ orders'[o].total = orders[o].total
         /\ orders'[o] # orders[o] => \E r \in Requests : Conclude(r) /\ job[r].order = o
  <2>1. CASE \E r \in Requests : Conclude(r)
    <3>1. PICK r \in Requests : Conclude(r)
      BY <2>1
    <3>2. QED
      BY <3>1, <1>2
  <2>2. CASE \E o \in Orders, xs \in SUBSET Items, t \in Totals : Quote(o, xs, t)
    BY <2>2, <1>1
  <2>3. CASE UNCHANGED orders
    BY <2>3
  <2>4. QED
    BY <1>3, <1>4, <1>5, <1>6, <2>1, <2>2, <2>3
<1>8. /\ \A x \in Items : items[x] # None => items'[x] # None /\ items'[x].order = items[x].order
      /\ \A x \in Items : items[x] = None /\ items'[x] # None =>
            /\ items'[x].license = None
            /\ orders[items'[x].order] = None
            /\ orders'[items'[x].order] # None
  <2>1. CASE \E r \in Requests : Link(r)
    <3>1. PICK r \in Requests : Link(r)
      BY <2>1
    <3>2. QED
      BY <3>1, <1>3
  <2>2. CASE \E o \in Orders, xs \in SUBSET Items, t \in Totals : Quote(o, xs, t)
    <3>1. PICK o \in Orders, xs \in SUBSET Items, t \in Totals : Quote(o, xs, t)
      BY <2>2
    <3>2. QED
      BY <3>1, <1>1
  <2>3. CASE UNCHANGED items
    BY <2>3
  <2>4. QED
    BY <1>2, <1>4, <1>5, <1>6, <2>1, <2>2, <2>3
<1>9. /\ \A s \in Sigs : chain[s] # None => chain'[s] = chain[s]
      /\ licenses \subseteq licenses'
  BY <1>1, <1>2, <1>3, <1>4, <1>5, <1>6
<1>10. ASSUME NEW o \in Orders, orders[o] # None PROVE ItemsOf(o)' = ItemsOf(o)
  BY <1>7, <1>8, <1>10 DEF ItemsOf
<1>11. QED
  BY <1>7, <1>8, <1>9, <1>10
\* Request r takes no part in a step.
Rests(r) ==
    /\ pc'[r] = pc[r]
    /\ job'[r] = job[r]
    /\ todo'[r] = todo[r]
    /\ hand'[r] = hand[r]
    /\ missed'[r] = missed[r]

\* A step of another request, or of the buyer, leaves what a request holds as it is.
LEMMA Moves ==
    TypeOK /\ [Next]_vars =>
        \A r \in Requests :
            \/ Rests(r)
            \/ \E o \in Orders, s \in Sigs : Receive(r, o, s)
            \/ Worker(r)
            \/ Crash(r)
<1> SUFFICES ASSUME TypeOK, [Next]_vars, NEW r \in Requests
             PROVE  \/ Rests(r)
                    \/ \E o \in Orders, s \in Sigs : Receive(r, o, s)
                    \/ Worker(r)
                    \/ Crash(r)
  OBVIOUS
<1> USE DEF Rests, TypeOK, Goto
<1>1. ASSUME NEW q \in Requests, q # r, Worker(q) PROVE Rests(r)
  BY <1>1 DEF Worker, Screen, Verify, Look, Insert, Miss, Link, Conclude
<1>2. ASSUME NEW q \in Requests, q # r, Crash(q) PROVE Rests(r)
  BY <1>2 DEF Crash
<1>3. ASSUME NEW q \in Requests, q # r, NEW o \in Orders, NEW s \in Sigs, Receive(q, o, s)
      PROVE  Rests(r)
  BY <1>3 DEF Receive
<1>4. CASE \/ \E o \in Orders, xs \in SUBSET Items, t \in Totals : Quote(o, xs, t)
           \/ \E s \in Sigs, t \in Totals : Pay(s, t)
           \/ UNCHANGED vars
  BY <1>4 DEF Quote, NewOrder, Pay, vars
<1>5. QED
  BY <1>1, <1>2, <1>3, <1>4 DEF Next

\* Rows stay, and a request only begins with an order that it has read.
LEMMA NextRowsExist ==
    TypeOK /\ RowsExist /\ HandIsOfOrder /\ [Next]_vars => RowsExist'
<1> SUFFICES ASSUME TypeOK, RowsExist, HandIsOfOrder, [Next]_vars PROVE RowsExist'
  OBVIOUS
<1> USE NoneAssumption
<1>1. ASSUME NEW x \in Items, items'[x] # None PROVE orders'[items'[x].order] # None
  <2>1. CASE items[x] # None
    <3>1. items[x].order \in Orders /\ orders[items[x].order] # None
      BY <2>1 DEF RowsExist, TypeOK, Item
    <3>2. QED
      BY <2>1, <3>1, Growth
  <2>2. CASE items[x] = None
    BY <1>1, <2>2, Growth
  <2>3. QED
    BY <2>1, <2>2
<1>2. ASSUME NEW r \in Requests, pc'[r] \in Running
      PROVE  job'[r] # None /\ orders'[job'[r].order] # None
  <2>1. CASE job'[r] = job[r] /\ pc[r] \in Running
    <3>1. job[r].order \in Orders /\ orders[job[r].order] # None /\ job[r] # None
      BY <2>1 DEF RowsExist, TypeOK, Job
    <3>2. QED
      BY <2>1, <3>1, Growth
  <2>2. CASE \E o \in Orders, s \in Sigs : Receive(r, o, s)
    <3>1. PICK o \in Orders, s \in Sigs : Receive(r, o, s)
      BY <2>2
    <3>2. orders[o] \in Order
      BY <3>1 DEF Receive, TypeOK
    <3>3. [order |-> o, sig |-> s, status |-> orders[o].status, bound |-> orders[o].sig] \in Job
      BY <3>2 DEF Order, Job
    <3>4. job'[r] # None /\ job'[r].order = o /\ orders'[o] = orders[o]
      BY <3>1, <3>3 DEF Receive, TypeOK, rows
    <3>5. QED
      BY <3>1, <3>4 DEF Receive
  <2>3. CASE Worker(r)
    BY <1>2, <2>1, <2>3 DEF Worker, Screen, Verify, Look, Insert, Link, Conclude, Running
  <2>4. CASE Crash(r)
    BY <1>2, <2>4 DEF Crash, Goto, TypeOK, Running
  <2>5. CASE Rests(r)
    BY <1>2, <2>1, <2>5 DEF Rests
  <2>6. QED
    BY <2>2, <2>3, <2>4, <2>5, Moves
<1>3. QED
  BY <1>1, <1>2 DEF RowsExist

\* What a request works on while it runs does not move under it.
LEMMA Held ==
    TypeOK /\ RowsExist /\ HandIsOfOrder /\ [Next]_vars =>
        \A r \in Requests : pc[r] \in Running =>
            /\ job[r] \in Job
            /\ orders[job[r].order] \in Order
            /\ orders'[job[r].order].total = orders[job[r].order].total
            /\ ItemsOf(job[r].order)' = ItemsOf(job[r].order)
            /\ job'[r] = job[r]
            /\ licenses \subseteq licenses'
<1> SUFFICES ASSUME TypeOK, RowsExist, HandIsOfOrder, [Next]_vars,
                    NEW r \in Requests, pc[r] \in Running
             PROVE  /\ job[r] \in Job
                    /\ orders[job[r].order] \in Order
                    /\ orders'[job[r].order].total = orders[job[r].order].total
                    /\ ItemsOf(job[r].order)' = ItemsOf(job[r].order)
                    /\ job'[r] = job[r]
                    /\ licenses \subseteq licenses'
  OBVIOUS
<1>1. job[r] \in Job /\ job[r].order \in Orders /\ orders[job[r].order] \in Order
  BY DEF RowsExist, TypeOK, Job
<1>2. job'[r] = job[r]
  BY Moves DEF Rests, Receive, Worker, Screen, Verify, Look, Insert, Link, Conclude, Crash,
               Running, Answers
<1>3. \A o \in Orders : orders[o] # None =>
          /\ orders'[o].total = orders[o].total
          /\ ItemsOf(o)' = ItemsOf(o)
  BY Growth
<1>4. licenses \subseteq licenses'
  BY Growth
<1>5. orders[job[r].order] # None
  BY <1>1, NoneAssumption
<1>6. QED
  BY <1>1, <1>2, <1>3, <1>4, <1>5 DEF ItemsOf

\* Only the screening lets a request go on, and it asks for an order that is quoted.
LEMMA NextReadQuoted ==
    TypeOK /\ RowsExist /\ ReadQuoted /\ [Next]_vars => ReadQuoted'
<1> SUFFICES ASSUME TypeOK, RowsExist, ReadQuoted, [Next]_vars,
                    NEW r \in Requests, pc'[r] \in Granting \cup {"verifying"}
             PROVE  job'[r].status = "quoted"
  BY DEF ReadQuoted
<1>1. CASE Screen(r)
  <2>1. job[r] \in Job
    BY <1>1 DEF Screen, RowsExist, Running, TypeOK
  <2>2. pc'[r] = "verifying" => job[r].status \notin Concluded
    BY <1>1 DEF Screen, Goto, TypeOK, Concluded
  <2>3. QED
    BY <1>1, <2>1, <2>2 DEF Screen, Goto, TypeOK, Granting, Job, Concluded
<1>2. CASE Worker(r) /\ ~Screen(r)
  BY <1>2 DEF Worker, Verify, Look, Insert, Miss, Link, Conclude, Goto, TypeOK, ReadQuoted, Granting,
              Outcome
<1>3. CASE Rests(r)
  BY <1>3 DEF Rests, ReadQuoted
<1>4. CASE Crash(r) \/ \E o \in Orders, s \in Sigs : Receive(r, o, s)
  BY <1>4 DEF Crash, Receive, Goto, TypeOK, Granting
<1>5. QED
  BY <1>1, <1>2, <1>3, <1>4, Moves

\* A request that grants was granting before, or has just verified its payment; totals
\* and payments stay.
LEMMA NextGrantingIsPaid ==
    TypeOK /\ RowsExist /\ HandIsOfOrder /\ GrantingIsPaid /\ [Next]_vars => GrantingIsPaid'
<1> SUFFICES ASSUME TypeOK, RowsExist, HandIsOfOrder, GrantingIsPaid, [Next]_vars,
                    NEW r \in Requests, pc'[r] \in Granting
             PROVE  chain'[job'[r].sig] = orders'[job'[r].order].total
  BY DEF GrantingIsPaid
<1>1. pc[r] \in Granting \/ (Verify(r) /\ Matches(job[r].sig, job[r].order))
  BY Moves, ZenonT(60)
  DEF Worker, Screen, Verify, Look, Insert, Miss, Link, Conclude, Crash, Receive, Rests, Goto,
               TypeOK, Granting, Outcome, Concluded, Job, Running, RowsExist
<1>2. pc[r] \in Running
  BY <1>1 DEF Granting, Running, Verify
<1>3. chain[job[r].sig] = orders[job[r].order].total
  BY <1>1 DEF GrantingIsPaid, Matches
<1>4. /\ job'[r] = job[r]
      /\ job[r].sig \in Sigs
      /\ orders[job[r].order].total \in Totals
      /\ orders'[job[r].order].total = orders[job[r].order].total
  BY <1>2, Held DEF Job, Order
<1>5. chain[job[r].sig] # None
  BY <1>3, <1>4, NoneAssumption
<1>6. chain'[job[r].sig] = chain[job[r].sig]
  BY <1>4, <1>5, Growth
<1>7. QED
  BY <1>3, <1>4, <1>6

\* How a request comes to grant, to insert and to link.
LEMMA Grants ==
    TypeOK /\ RowsExist /\ [Next]_vars =>
        \A r \in Requests : pc'[r] \in Granting =>
            \/ Rests(r)
            \/ Verify(r) /\ pc'[r] = "granting" /\ todo'[r] = ItemsOf(job[r].order)
            \/ \E x \in Items : Look(r, x)
            \/ Insert(r)
            \/ Link(r)
<1> SUFFICES ASSUME TypeOK, RowsExist, [Next]_vars, NEW r \in Requests, pc'[r] \in Granting
             PROVE  \/ Rests(r)
                    \/ Verify(r) /\ pc'[r] = "granting" /\ todo'[r] = ItemsOf(job[r].order)
                    \/ \E x \in Items : Look(r, x)
                    \/ Insert(r)
                    \/ Link(r)
  OBVIOUS
<1>1. ~ Crash(r) /\ ~ Conclude(r) /\ ~ \E o \in Orders, s \in Sigs : Receive(r, o, s)
  BY DEF Crash, Conclude, Receive, Goto, Outcome, Granting, TypeOK
<1>2. ~ Screen(r)
  BY DEF Screen, Goto, Granting, TypeOK, RowsExist, Running, Job, Concluded
<1>3. Verify(r) => pc'[r] = "granting" /\ todo'[r] = ItemsOf(job[r].order)
  BY DEF Verify, Goto, Granting, TypeOK, Todo
<1>4. QED
  BY <1>1, <1>2, <1>3, Moves DEF Worker

\* What a request takes up comes from its list, and is linked when it has a License.
LEMMA NextHandIsOfOrder ==
    TypeOK /\ RowsExist /\ HandIsOfOrder /\ TodoIsOfOrder /\ [Next]_vars => HandIsOfOrder'
<1> SUFFICES ASSUME TypeOK, RowsExist, HandIsOfOrder, TodoIsOfOrder, [Next]_vars,
                    NEW r \in Requests, pc'[r] \in {"inserting", "linking"}
             PROVE  /\ hand'[r] \in ItemsOf(job[r].order)'
                    /\ pc'[r] = "linking" => <<job'[r].sig, hand'[r]>> \in licenses'
  BY DEF HandIsOfOrder
<1>1. CASE Rests(r)
  <2>1. pc[r] \in Running
    BY <1>1 DEF Rests, Running
  <2>2. QED
    BY <1>1, <2>1, Held DEF Rests, HandIsOfOrder
<1>2. ASSUME NEW x \in Items, Look(r, x)
      PROVE  /\ hand'[r] \in ItemsOf(job[r].order)'
             /\ pc'[r] = "linking" => <<job'[r].sig, hand'[r]>> \in licenses'
  <2>1. pc[r] \in Running /\ x \in ItemsOf(job[r].order) /\ hand'[r] = x
    BY <1>2 DEF Look, Running, TodoIsOfOrder, Granting, TypeOK
  <2>2. pc'[r] = "linking" => <<job[r].sig, x>> \in licenses
    BY <1>2 DEF Look, Miss, Goto, TypeOK
  <2>3. QED
    BY <2>1, <2>2, Held
<1>3. CASE Insert(r)
  <2>1. pc[r] \in Running /\ hand[r] \in ItemsOf(job[r].order) /\ hand'[r] = hand[r]
    BY <1>3 DEF Insert, Running, HandIsOfOrder
  <2>2. pc'[r] = "linking" => <<job[r].sig, hand[r]>> \in licenses'
    BY <1>3 DEF Insert, Miss, Goto, TypeOK
  <2>3. QED
    BY <2>1, <2>2, Held
<1>4. ~ Verify(r) \/ pc'[r] # "granting"
  OBVIOUS
<1>5. ~ Link(r)
  BY DEF Link, Goto, TypeOK
<1>6. QED
  BY <1>1, <1>2, <1>3, <1>4, <1>5, Grants DEF Granting

\* The list of a request only shrinks.
LEMMA NextTodoIsOfOrder ==
    TypeOK /\ RowsExist /\ HandIsOfOrder /\ TodoIsOfOrder /\ [Next]_vars => TodoIsOfOrder'
<1> SUFFICES ASSUME TypeOK, RowsExist, HandIsOfOrder, TodoIsOfOrder, [Next]_vars,
                    NEW r \in Requests, pc'[r] \in Granting
             PROVE  todo'[r] \subseteq ItemsOf(job[r].order)'
  BY DEF TodoIsOfOrder
<1>1. pc[r] \in Running
  BY Grants DEF Rests, Verify, Look, Insert, Link, Running, Granting
<1>2. todo'[r] \subseteq ItemsOf(job[r].order)
  <2>1. CASE Verify(r) /\ todo'[r] = ItemsOf(job[r].order)
    BY <2>1
  <2>2. CASE pc[r] \in Granting /\ todo'[r] \subseteq todo[r]
    BY <2>2 DEF TodoIsOfOrder
  <2>3. ASSUME NEW x \in Items, Look(r, x) PROVE pc[r] \in Granting /\ todo'[r] \subseteq todo[r]
    BY <2>3 DEF Look, TypeOK, Granting
  <2>4. CASE Rests(r) \/ Insert(r) \/ Link(r)
    BY <2>2, <2>4 DEF Rests, Insert, Link, TypeOK, Granting
  <2>5. QED
    BY <2>1, <2>2, <2>3, <2>4, Grants
<1>3. QED
  BY <1>1, <1>2, Held

\* An item leaves the list of a request into its hand, and its hand into the Licenses or
\* the failures.
LEMMA NextAccounted ==
    TypeOK /\ RowsExist /\ HandIsOfOrder /\ Accounted /\ [Next]_vars => Accounted'
<1> SUFFICES ASSUME TypeOK, RowsExist, HandIsOfOrder, Accounted, [Next]_vars,
                    NEW r \in Requests, pc'[r] \in Granting,
                    NEW x \in ItemsOf(job[r].order)'
             PROVE  \/ x \in todo'[r] \cup missed'[r]
                    \/ pc'[r] = "inserting" /\ x = hand'[r]
                    \/ <<job'[r].sig, x>> \in licenses'
  BY DEF Accounted
<1>1. pc[r] \in Running
  BY Grants DEF Rests, Verify, Look, Insert, Link, Running, Granting
<1>2. x \in ItemsOf(job[r].order) /\ job'[r] = job[r] /\ licenses \subseteq licenses'
  BY <1>1, Held
<1>3. CASE Rests(r)
  BY <1>2, <1>3 DEF Rests, Accounted
<1>4. CASE Verify(r) /\ todo'[r] = ItemsOf(job[r].order)
  BY <1>2, <1>4
<1>5. ASSUME NEW y \in Items, Look(r, y)
      PROVE  \/ x \in todo'[r] \cup missed'[r]
             \/ pc'[r] = "inserting" /\ x = hand'[r]
             \/ <<job'[r].sig, x>> \in licenses'
  <2>1. x \in todo[r] \cup missed[r] \/ <<job[r].sig, x>> \in licenses
    BY <1>2, <1>5 DEF Look, Accounted, Granting
  <2>2. todo'[r] = todo[r] \ {y} /\ hand'[r] = y /\ missed[r] \subseteq missed'[r]
    BY <1>5 DEF Look, Miss, TypeOK
  <2>3. pc'[r] = "inserting" \/ <<job[r].sig, y>> \in licenses \/ y \in missed'[r]
    BY <1>5 DEF Look, Miss, Goto, TypeOK
  <2>4. QED
    BY <1>2, <2>1, <2>2, <2>3
<1>6. CASE Insert(r)
  <2>1. x \in todo[r] \cup missed[r] \/ x = hand[r] \/ <<job[r].sig, x>> \in licenses
    BY <1>2, <1>6 DEF Insert, Accounted, Granting
  <2>2. todo'[r] = todo[r] /\ missed[r] \subseteq missed'[r]
    BY <1>6 DEF Insert, Miss, TypeOK
  <2>3. hand[r] \in missed'[r] \/ <<job[r].sig, hand[r]>> \in licenses'
    BY <1>6 DEF Insert, Miss, TypeOK
  <2>4. QED
    BY <1>2, <2>1, <2>2, <2>3
<1>7. CASE Link(r)
  BY <1>2, <1>7 DEF Link, Accounted, Granting, TypeOK
<1>8. QED
  BY <1>3, <1>4, <1>5, <1>6, <1>7, Grants

\* A License is inserted by a request that has verified the payment, for an item of its
\* order; a link is made when the License is there.
LEMMA NextLicensesArePaid == IInv /\ [Next]_vars => LicensesArePaid'
<1> SUFFICES ASSUME IInv, [Next]_vars PROVE LicensesArePaid'
  OBVIOUS
<1> USE NoneAssumption DEF IInv
<1>1. ASSUME NEW k \in licenses'
      PROVE  /\ items'[k[2]] # None
             /\ chain'[k[1]] = orders'[items'[k[2]].order].total
  <2>1. CASE k \in licenses
    <3>1. /\ k[1] \in Sigs /\ k[2] \in Items
          /\ items[k[2]] # None
          /\ chain[k[1]] = orders[items[k[2]].order].total
      BY <2>1 DEF LicensesArePaid, TypeOK
    <3>2. items[k[2]].order \in Orders /\ orders[items[k[2]].order] \in Order
      BY <3>1 DEF TypeOK, Item, RowsExist
    <3>3. chain[k[1]] # None
      BY <3>1, <3>2 DEF Order
    <3>4. QED
      BY <3>1, <3>2, <3>3, Growth
  <2>2. CASE k \notin licenses
    <3>1. PICK r \in Requests : Insert(r)
      BY <1>1, <2>2 DEF Next, Worker, Quote, NewOrder, Pay, Receive, Screen, Verify, Look, Link, Conclude,
                        Crash, vars, rows
    <3>2. k = <<job[r].sig, hand[r]>>
      BY <1>1, <2>2, <3>1 DEF Insert
    <3>3. hand[r] \in Items /\ items[hand[r]] # None /\ items[hand[r]].order = job[r].order
      BY <3>1 DEF Insert, HandIsOfOrder, ItemsOf
    <3>4. chain[job[r].sig] = orders[job[r].order].total
      BY <3>1 DEF Insert, GrantingIsPaid, Granting
    <3>5. UNCHANGED <<orders, items, chain>>
      BY <3>1 DEF Insert
    <3>6. QED
      BY <3>2, <3>3, <3>4, <3>5
  <2>3. QED
    BY <2>1, <2>2
<1>2. ASSUME NEW x \in Items, items'[x] # None, items'[x].license # None
      PROVE  <<items'[x].license, x>> \in licenses'
  <2>1. items[x] # None /\ licenses \subseteq licenses'
    BY <1>2, Growth
  <2>2. CASE items'[x] = items[x]
    BY <1>2, <2>1, <2>2 DEF LicensesArePaid
  <2>3. CASE items'[x] # items[x]
    <3>1. PICK r \in Requests : Link(r)
      BY <2>1, <2>3 DEF Next, Worker, Quote, NewOrder, Pay, Receive, Screen, Verify, Look, Insert, Conclude,
                        Crash, vars, rows, TypeOK
    <3>2. x = hand[r] /\ items'[x] = [items[x] EXCEPT !.license = job[r].sig]
      BY <2>3, <3>1 DEF Link, TypeOK
    <3>3. items[x] \in Item
      BY <2>1 DEF TypeOK
    <3>4. items'[x].license = job[r].sig
      BY <3>2, <3>3 DEF Item
    <3>5. <<job[r].sig, hand[r]>> \in licenses
      BY <3>1 DEF Link, HandIsOfOrder
    <3>6. QED
      BY <2>1, <3>2, <3>4, <3>5
  <2>4. QED
    BY <2>2, <2>3
<1>3. QED
  BY <1>1, <1>2 DEF LicensesArePaid

\* Who concludes an order as settled has no failures and an empty list, so that every item
\* is accounted for by a License.
LEMMA NextSettledIsComplete == IInv /\ [Next]_vars => SettledIsComplete'
<1> SUFFICES ASSUME IInv, [Next]_vars,
                    NEW o \in Orders, orders'[o] # None, orders'[o].status = "settled",
                    NEW x \in ItemsOf(o)'
             PROVE  <<orders'[o].sig, x>> \in licenses'
  BY DEF SettledIsComplete
<1> USE NoneAssumption DEF IInv
<1>1. orders[o] # None
  <2>1. ASSUME orders[o] = None
        PROVE  orders'[o].status = "quoted"
    <3>1. ASSUME NEW r \in Requests, Conclude(r) PROVE orders'[o] = None
      BY <2>1, <3>1 DEF Conclude, RowsExist, TypeOK, Running
    <3>2. PICK p \in Orders, xs \in SUBSET Items, t \in Totals : Quote(p, xs, t)
      BY <2>1, <3>1 DEF Next, Worker, Pay, Receive, Screen, Verify, Look, Insert, Link, Crash,
                        vars, rows
    <3>3. QED
      BY <2>1, <3>2 DEF Quote, NewOrder, TypeOK
  <2>2. QED
    BY <2>1
<1>2. x \in ItemsOf(o) /\ licenses \subseteq licenses'
  BY <1>1, Growth
<1>3. CASE orders'[o] = orders[o]
  BY <1>1, <1>2, <1>3 DEF SettledIsComplete
<1>4. CASE orders'[o] # orders[o]
  <2>1. PICK r \in Requests : Conclude(r) /\ job[r].order = o
    BY <1>1, <1>4, Growth
  <2>2. orders[o] \in Order
    BY <1>1 DEF TypeOK
  <2>3. orders'[o] = [orders[o] EXCEPT !.status = Outcome(r), !.sig = job[r].sig]
    BY <2>1, <2>2 DEF Conclude, TypeOK
  <2>4. orders'[o].status = Outcome(r) /\ orders'[o].sig = job[r].sig
    BY <2>2, <2>3 DEF Order
  <2>5. missed[r] = {} /\ todo[r] = {} /\ pc[r] = "granting"
    BY <2>1, <2>4 DEF Conclude, Outcome
  <2>6. <<job[r].sig, x>> \in licenses
    BY <1>2, <2>1, <2>5 DEF Accounted, Granting
  <2>7. QED
    BY <1>2, <2>4, <2>6
<1>5. QED
  BY <1>3, <1>4

\* The invariant is inductive.
LEMMA NextIInv == IInv /\ [Next]_vars => IInv'
<1> SUFFICES ASSUME IInv, [Next]_vars PROVE IInv'
  OBVIOUS
<1>1. TypeOK' /\ RowsExist'
  BY NextTypeOK, NextRowsExist DEF IInv
<1>2. ReadQuoted' /\ GrantingIsPaid'
  BY NextReadQuoted, NextGrantingIsPaid DEF IInv
<1>3. HandIsOfOrder' /\ TodoIsOfOrder' /\ Accounted'
  BY NextHandIsOfOrder, NextTodoIsOfOrder, NextAccounted DEF IInv
<1>4. LicensesArePaid' /\ SettledIsComplete'
  BY NextLicensesArePaid, NextSettledIsComplete
<1>5. QED
  BY <1>1, <1>2, <1>3, <1>4 DEF IInv

\* The inductive invariant holds in every reachable state.
THEOREM Invariance == Spec => []IInv
<1>1. Init => IInv
  BY InitIInv
<1>2. IInv /\ [Next]_vars => IInv'
  BY NextIInv
<1>3. QED
  BY <1>1, <1>2, PTL DEF Spec

\* Every variable of a batch settlement keeps its type.
THEOREM TypeCorrect == Spec => []TypeOK
<1>1. IInv => TypeOK
  BY DEF IInv
<1>2. QED
  BY <1>1, Invariance, PTL

\* Every License of a batch stands for a payment of the total of the order of its item,
\* and every link for a License, however requests interleave and die.
THEOREM BatchLicensesArePaid == Spec => []LicensesArePaid
<1>1. IInv => LicensesArePaid
  BY DEF IInv
<1>2. QED
  BY <1>1, Invariance, PTL

\* An order that says it is settled has a License of its payment for each of its items.
THEOREM SettledOrdersAreComplete == Spec => []SettledIsComplete
<1>1. IInv => SettledIsComplete
  BY DEF IInv
<1>2. QED
  BY <1>1, Invariance, PTL

\* A concluded order stays concluded, and only a request that read it before its
\* conclusion can still rewrite it.
THEOREM ConcludedOrdersStay == Spec => ConcludedStays
<1> DEFINE Kept ==
      \A o \in Orders : orders[o] # None /\ orders[o].status \in Concluded =>
          /\ orders'[o].status \in Concluded
          /\ orders'[o] # orders[o] =>
                \E r \in Requests : /\ pc[r] \in Running
                                    /\ job[r].order = o
                                    /\ job[r].status = "quoted"
<1>1. IInv /\ [Next]_vars => [Kept]_vars
  <2> SUFFICES ASSUME IInv, [Next]_vars,
                      NEW o \in Orders, orders[o] # None, orders[o].status \in Concluded,
                      orders'[o] # orders[o]
               PROVE  /\ orders'[o].status \in Concluded
                      /\ \E r \in Requests : /\ pc[r] \in Running
                                             /\ job[r].order = o
                                             /\ job[r].status = "quoted"
    OBVIOUS
  <2> USE DEF IInv
  <2>1. PICK r \in Requests : Conclude(r) /\ job[r].order = o
    BY Growth
  <2>2. orders[o] \in Order
    BY DEF TypeOK
  <2>3. orders'[o] = [orders[o] EXCEPT !.status = Outcome(r), !.sig = job[r].sig]
    BY <2>1, <2>2 DEF Conclude, TypeOK
  <2>4. orders'[o].status \in Concluded
    BY <2>2, <2>3 DEF Order, Outcome, Concluded
  <2>5. pc[r] \in Running /\ job[r].status = "quoted"
    BY <2>1 DEF Conclude, Running, ReadQuoted, Granting
  <2>6. QED
    BY <2>1, <2>4, <2>5
<1>2. QED
  BY <1>1, Invariance, PTL DEF Spec, ConcludedStays

----------------------------------------------------------------------------
(***************************************************************************)
(* One request at a time.  A client that waits for its answer, served by   *)
(* workers that do not die, never has an item licensed twice: what the     *)
(* request read of its order is still what the row says.  Both conditions  *)
(* are needed: two requests, or one that dies after its first grant, leave *)
(* an order quoted that already has a License.                             *)
(***************************************************************************)

\* What a request has read of the status of its order is what the row says.
ReadIsCurrent ==
    \A r \in Requests : pc[r] \in Running => job[r].status = orders[job[r].order].status

\* A License is of the payment its order was concluded with, or of the request that is
\* granting the items of that order.
OfOnePayment ==
    \A s \in Sigs, x \in Items : <<s, x>> \in licenses =>
        \/ /\ orders[items[x].order].status \in Concluded
           /\ orders[items[x].order].sig = s
        \/ \E r \in Requests :
              pc[r] \in Granting /\ job[r].order = items[x].order /\ job[r].sig = s

InTurn == crashes = 0 => ReadIsCurrent /\ OfOnePayment

\* While nobody else concludes an order, the copy a request works with is good.
LEMMA NextReadIsCurrent ==
    ASSUME NEW r0, Requests = {r0},
           IInv, ReadIsCurrent, [Next]_vars, crashes = 0, crashes' = 0
    PROVE  ReadIsCurrent'
<1> SUFFICES ASSUME pc'[r0] \in Running
             PROVE  job'[r0].status = orders'[job'[r0].order].status
  BY DEF ReadIsCurrent
<1> USE NoneAssumption DEF IInv
<1>1. ~ Conclude(r0)
  BY DEF Conclude, Goto, Outcome, Running, TypeOK
<1>2. \A o \in Orders : orders[o] # None => orders'[o] = orders[o]
  BY <1>1, Growth
<1>3. CASE pc[r0] \in Running
  <2>1. job'[r0] = job[r0] /\ job[r0].order \in Orders /\ orders[job[r0].order] # None
    BY <1>3, Held DEF Job, RowsExist
  <2>2. QED
    BY <1>2, <1>3, <2>1 DEF ReadIsCurrent
<1>4. CASE pc[r0] \notin Running
  <2>1. ~ Worker(r0) /\ ~ Crash(r0) /\ ~ Rests(r0)
    BY <1>4 DEF Worker, Screen, Verify, Look, Insert, Link, Conclude, Crash, Rests, Running
  <2>2. PICK o \in Orders, s \in Sigs : Receive(r0, o, s)
    BY <2>1, Moves
  <2>3. job'[r0] = [order |-> o, sig |-> s, status |-> orders[o].status, bound |-> orders[o].sig]
    BY <2>2 DEF Receive, TypeOK
  <2>4. QED
    BY <1>2, <2>2, <2>3 DEF Receive
<1>5. QED
  BY <1>3, <1>4

\* The request that grants keeps to its payment until it concludes, and no order is
\* concluded again.
LEMMA NextOfOnePayment ==
    ASSUME NEW r0, Requests = {r0},
           IInv, ReadIsCurrent, OfOnePayment, [Next]_vars, crashes = 0, crashes' = 0
    PROVE  OfOnePayment'
<1> SUFFICES ASSUME NEW s \in Sigs, NEW x \in Items, <<s, x>> \in licenses'
             PROVE  \/ /\ orders'[items'[x].order].status \in Concluded
                       /\ orders'[items'[x].order].sig = s
                    \/ /\ pc'[r0] \in Granting
                       /\ job'[r0].order = items'[x].order
                       /\ job'[r0].sig = s
  BY DEF OfOnePayment
<1> USE NoneAssumption DEF IInv
<1>1. ~ Crash(r0)
  BY DEF Crash, TypeOK
<1>2. ASSUME pc[r0] \in Granting, ~ Conclude(r0)
      PROVE  pc'[r0] \in Granting /\ job'[r0] = job[r0]
  <2>1. pc[r0] \in Running
    BY <1>2 DEF Granting, Running
  <2>2. job'[r0] = job[r0]
    BY <2>1, Held
  <2>3. Worker(r0) \/ Rests(r0)
    BY <1>1, <1>2, Moves DEF Receive, Granting, Answers
  <2>4. Worker(r0) => pc'[r0] \in Granting
    BY <1>2 DEF Worker, Screen, Verify, Look, Insert, Miss, Link, Goto, Granting, TypeOK
  <2>5. QED
    BY <1>2, <2>2, <2>3, <2>4 DEF Rests
<1>3. ASSUME Conclude(r0)
      PROVE  LET o == job[r0].order
             IN  /\ o \in Orders
                 /\ orders[o] # None
                 /\ orders[o].status = "quoted"
                 /\ orders'[o].status \in Concluded
                 /\ orders'[o].sig = job[r0].sig
  <2> DEFINE o == job[r0].order
  <2>1. pc[r0] \in Running /\ pc[r0] \in Granting
    BY <1>3 DEF Conclude, Running, Granting
  <2>2. o \in Orders /\ orders[o] \in Order
    BY <2>1, Held DEF Job
  <2>3. orders[o].status = "quoted"
    BY <2>1 DEF ReadQuoted, ReadIsCurrent
  <2>4. orders'[o] = [orders[o] EXCEPT !.status = Outcome(r0), !.sig = job[r0].sig]
    BY <1>3, <2>2 DEF Conclude, TypeOK
  <2>5. QED
    BY <2>2, <2>3, <2>4 DEF Order, Outcome, Concluded
<1>4. CASE <<s, x>> \in licenses
  <2> DEFINE o == items[x].order
  <2>1. items[x] # None /\ items'[x].order = o /\ o \in Orders /\ orders[o] # None
    BY <1>4, Growth DEF LicensesArePaid, RowsExist, TypeOK, Item
  <2>2. CASE orders[o].status \in Concluded /\ orders[o].sig = s
    <3>1. orders'[o] = orders[o]
      BY <1>3, <2>1, <2>2, Growth DEF Concluded
    <3>2. QED
      BY <2>1, <2>2, <3>1
  <2>3. CASE pc[r0] \in Granting /\ job[r0].order = o /\ job[r0].sig = s
    BY <1>2, <1>3, <2>1, <2>3
  <2>4. QED
    BY <1>4, <2>2, <2>3 DEF OfOnePayment
<1>5. CASE <<s, x>> \notin licenses
  <2>1. Insert(r0) /\ s = job[r0].sig /\ x = hand[r0]
    <3>1. Worker(r0)
      BY <1>5 DEF Next, Quote, Pay, Receive, Crash, vars, rows
    <3>2. Insert(r0)
      BY <1>5, <3>1 DEF Worker, Screen, Verify, Look, Link, Conclude, rows
    <3>3. QED
      BY <1>5, <3>2 DEF Insert
  <2>2. pc[r0] \in Granting /\ ~ Conclude(r0)
    BY <2>1 DEF Insert, Conclude, Granting
  <2>3. x \in ItemsOf(job[r0].order)
    BY <2>1 DEF Insert, HandIsOfOrder
  <2>4. items'[x] = items[x]
    BY <2>1 DEF Insert
  <2>5. QED
    BY <1>2, <2>1, <2>2, <2>3, <2>4 DEF ItemsOf
<1>6. QED
  BY <1>4, <1>5

\* At most one payment: the one its order is concluded with, or that of the one request.
LEMMA InTurnLicensesOnce ==
    ASSUME NEW r0, Requests = {r0}, IInv, ReadIsCurrent, OfOnePayment
    PROVE  LicensedOnce
<1> SUFFICES ASSUME NEW x \in Items
             PROVE  Cardinality({s \in Sigs : <<s, x>> \in licenses}) <= 1
  BY DEF LicensedOnce
<1> DEFINE S == {s \in Sigs : <<s, x>> \in licenses}
<1>1. ASSUME NEW s \in S, NEW z \in S PROVE s = z
  <2>1. pc[r0] \in Granting => orders[job[r0].order].status = "quoted"
    BY DEF IInv, ReadQuoted, ReadIsCurrent, Granting, Running
  <2>2. QED
    BY <2>1 DEF OfOnePayment, Concluded
<1>2. S = {} \/ \E s \in S : S = {s}
  BY <1>1
<1> HIDE DEF S
<1>3. Cardinality(S) = 0 \/ Cardinality(S) = 1
  BY <1>2, FS_EmptySet, FS_Singleton
<1>4. QED
  BY <1>3 DEF S

\* With one request at a time and no worker lost, no item is licensed for two payments,
\* whatever transactions the client settles its orders with and in whatever order.
THEOREM OneRequestLicensesOnce ==
    ASSUME NEW r0, Requests = {r0}
    PROVE  Spec => [](crashes = 0 => LicensedOnce)
<1>1. Init => InTurn
  BY DEF Init, InTurn, ReadIsCurrent, OfOnePayment, Running
<1>2. IInv /\ InTurn /\ [Next]_vars => InTurn'
  <2> SUFFICES ASSUME IInv, InTurn, [Next]_vars, crashes' = 0
               PROVE  ReadIsCurrent' /\ OfOnePayment'
    BY DEF InTurn
  <2>1. crashes = 0
    <3>1. crashes \in Nat
      BY BoundsAssumption DEF IInv, TypeOK
    <3>2. ASSUME NEW r \in Requests, Worker(r) PROVE crashes' = crashes
      BY <3>2 DEF Worker, Screen, Verify, Look, Insert, Link, Conclude
    <3>3. ASSUME NEW r \in Requests, Crash(r) PROVE FALSE
      BY <3>1, <3>3 DEF Crash
    <3>4. QED
      BY <3>2, <3>3 DEF Next, Quote, Pay, Receive, vars
  <2>2. QED
    BY <2>1, NextReadIsCurrent, NextOfOnePayment DEF InTurn
<1>3. IInv /\ InTurn => (crashes = 0 => LicensedOnce)
  BY InTurnLicensesOnce DEF InTurn
<1>4. QED
  BY <1>1, <1>2, <1>3, Invariance, PTL DEF Spec
=============================================================================
