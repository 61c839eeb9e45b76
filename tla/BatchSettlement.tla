-------------------------- MODULE BatchSettlement --------------------------
(***************************************************************************)
(* Batch licensing: a BatchOrder is quoted for several assets, the buyer   *)
(* pays its total in one transaction, and POST /api/v1/ip/batch/settle     *)
(* grants one License per item under the key batch:{tx}:{item}.            *)
(*                                                                         *)
(* settle_batch_order holds no lock and no transaction.  It reads the      *)
(* order, asks Solana, grants item by item, and writes the order last from *)
(* the copy it read first; every database access is a step of its own.     *)
(* LicenseService.grant looks for the key and inserts it afterwards.  An   *)
(* item whose grant raises, for whatever reason, is a failed item; the     *)
(* order is then partial, and stays that.                                  *)
(***************************************************************************)
EXTENDS Naturals, FiniteSets

CONSTANTS
    Orders,      \* ids of BatchOrder rows
    Items,       \* ids of BatchItem rows
    Sigs,        \* signatures of Solana transactions
    Requests,    \* settlement requests in flight
    Totals,      \* what a transaction can pay: a recipient and an amount
    WidthsHold,  \* does the database enforce max_length?  (SQLite does not)
    MaxCrashes,  \* bound: workers that die in the middle of a request
    None

Concluded == {"settled", "partial"}
Order == [total: Totals, status: {"quoted"} \cup Concluded, sig: Sigs \cup {None}]
Item  == [order: Orders, license: Sigs \cup {None}]
Job   == [order: Orders, sig: Sigs, status: {"quoted"} \cup Concluded, bound: Sigs \cup {None}]

ASSUME NoneAssumption ==
    /\ None \notin Sigs
    /\ None \notin Items
    /\ None \notin Order
    /\ None \notin Item
    /\ None \notin Job
    /\ None \notin Totals

ASSUME BoundsAssumption == MaxCrashes \in Nat /\ WidthsHold \in BOOLEAN

VARIABLES
    orders,    \* orders[o]: the row of order o, None before it is quoted
    items,     \* items[x]: the row of item x; license is the signature in its License's key
    chain,     \* chain[s]: what transaction s pays, None until it is confirmed
    licenses,  \* the granted Licenses: <<s, x>> for the key batch:{s}:{x}
    pc,        \* pc[r]: where request r is, or how it was answered
    job,       \* job[r]: the order and signature r submits, and the row r read
    todo,      \* todo[r]: the items r has not handled yet
    hand,      \* hand[r]: the item r is handling
    missed,    \* missed[r]: the items r reports as failures
    crashes    \* workers that died so far

vars == <<orders, items, chain, licenses, pc, job, todo, hand, missed, crashes>>
rows == <<orders, items, licenses>>

Answers == {"idle", "settled", "partial", "taken", "invalid", "failed"}
Running == {"loaded", "verifying", "granting", "inserting", "linking"}

TypeOK ==
    /\ orders \in [Orders -> Order \cup {None}]
    /\ items \in [Items -> Item \cup {None}]
    /\ chain \in [Sigs -> Totals \cup {None}]
    /\ licenses \in SUBSET (Sigs \X Items)
    /\ pc \in [Requests -> Answers \cup Running]
    /\ job \in [Requests -> Job \cup {None}]
    /\ todo \in [Requests -> SUBSET Items]
    /\ hand \in [Requests -> Items \cup {None}]
    /\ missed \in [Requests -> SUBSET Items]
    /\ crashes \in 0..MaxCrashes

Init ==
    /\ orders = [o \in Orders |-> None]
    /\ items = [x \in Items |-> None]
    /\ chain = [s \in Sigs |-> None]
    /\ licenses = {}
    /\ pc = [r \in Requests |-> "idle"]
    /\ job = [r \in Requests |-> None]
    /\ todo = [r \in Requests |-> {}]
    /\ hand = [r \in Requests |-> None]
    /\ missed = [r \in Requests |-> {}]
    /\ crashes = 0

ItemsOf(o) == {x \in Items : items[x] # None /\ items[x].order = o}

\* Length of batch:{signature}:{item uuid} for an 88 character signature, and the
\* max_length of License.payment_tx_sig.
KeyLength == 6 + 88 + 1 + 36
KeyWidth == 90

----------------------------------------------------------------------------
(***************************************************************************)
(* The buyer and the chain.                                                *)
(***************************************************************************)

\* quote_batch_order: one order, at the sum of the prices of its items.
NewOrder(t) == [total |-> t, status |-> "quoted", sig |-> None]

\* /batch/negotiate: the order and an item for every asset asked for.
Quote(o, xs, t) ==
    /\ orders[o] = None
    /\ xs # {}
    /\ \A x \in xs : items[x] = None
    /\ orders' = [orders EXCEPT ![o] = NewOrder(t)]
    /\ items' = [x \in Items |-> IF x \in xs THEN [order |-> o, license |-> None] ELSE items[x]]
    /\ UNCHANGED <<chain, licenses, pc, job, todo, hand, missed, crashes>>

\* The transaction a buyer pays an order with carries no reference to the order.
Pay(s, t) ==
    /\ chain[s] = None
    /\ chain' = [chain EXCEPT ![s] = t]
    /\ UNCHANGED <<rows, pc, job, todo, hand, missed, crashes>>

----------------------------------------------------------------------------
(***************************************************************************)
(* settle_batch_order, one request r at a time.                            *)
(***************************************************************************)
Goto(r, a) == pc' = [pc EXCEPT ![r] = a]

\* The unlocked read of the order.
Receive(r, o, s) ==
    /\ pc[r] \in Answers
    /\ orders[o] # None
    /\ Goto(r, "loaded")
    /\ job' = [job EXCEPT ![r] = [order |-> o, sig |-> s, status |-> orders[o].status,
                                  bound |-> orders[o].sig]]
    /\ UNCHANGED <<rows, chain, todo, hand, missed, crashes>>

Screen_AcceptsSecondPayment(r) ==
    /\ pc[r] = "loaded"
    /\ Goto(r, IF job[r].status \in Concluded /\ job[r].bound = job[r].sig
               THEN job[r].status ELSE "verifying")
    /\ UNCHANGED <<rows, chain, job, todo, hand, missed, crashes>>

\* The replay of the payment an order was settled with is answered from the rows;
\* another payment for a concluded order is refused.
Screen_UnpaidIsTaken(r) ==
    /\ pc[r] = "loaded"
    /\ Goto(r, IF job[r].bound # job[r].sig THEN "taken" ELSE job[r].status)
    /\ UNCHANGED <<rows, chain, job, todo, hand, missed, crashes>>

Screen(r) ==
    /\ pc[r] = "loaded"
    /\ Goto(r, IF job[r].status \notin Concluded THEN "verifying"
               ELSE IF job[r].bound = job[r].sig THEN job[r].status
               ELSE "taken")
    /\ UNCHANGED <<rows, chain, job, todo, hand, missed, crashes>>

\* The transaction pays the order's total to its recipient.
Matches_AnyAmount(s, o) == chain[s] # None
Matches(s, o) == chain[s] = orders[o].total

\* The items a settlement goes through: all of them.
Todo_SkipsLinked(o) == {x \in ItemsOf(o) : items[x].license = None}
Todo(o) == ItemsOf(o)

\* _verify_payment: the total and its recipient; the RPC node may be down.
Verify(r) ==
    LET o == job[r].order
        s == job[r].sig
    IN  /\ pc[r] = "verifying"
        /\ \/ /\ Goto(r, "failed")
              /\ UNCHANGED <<todo, missed>>
           \/ /\ ~Matches(s, o)
              /\ Goto(r, "invalid")
              /\ UNCHANGED <<todo, missed>>
           \/ /\ Matches(s, o)
              /\ Goto(r, "granting")
              /\ todo' = [todo EXCEPT ![r] = Todo(o)]
              /\ missed' = [missed EXCEPT ![r] = {}]
        /\ UNCHANGED <<rows, chain, job, hand, crashes>>

\* "except Exception": whatever grant raises, the item is reported as a failure.
Miss(r, x) ==
    /\ missed' = [missed EXCEPT ![r] = @ \cup {x}]
    /\ Goto(r, "granting")

\* grant, first half: is there a License with the key of item x?  The database may fail.
Look(r, x) ==
    /\ pc[r] = "granting"
    /\ x \in todo[r]
    /\ hand' = [hand EXCEPT ![r] = x]
    /\ todo' = [todo EXCEPT ![r] = @ \ {x}]
    /\ \/ Miss(r, x)
       \/ /\ Goto(r, IF <<job[r].sig, x>> \in licenses THEN "linking" ELSE "inserting")
          /\ UNCHANGED missed
    /\ UNCHANGED <<rows, chain, job, crashes>>

\* grant, second half.  A key that is taken by now, or longer than its column, cannot
\* be inserted, and any other insert may fail too.
Insertable(s, x) ==
    /\ <<s, x>> \notin licenses
    /\ WidthsHold => KeyLength <= KeyWidth

Insert(r) ==
    LET s == job[r].sig
        x == hand[r]
    IN  /\ pc[r] = "inserting"
        /\ \/ /\ Insertable(s, x)
              /\ licenses' = licenses \cup {<<s, x>>}
              /\ Goto(r, "linking")
              /\ UNCHANGED missed
           \/ /\ Miss(r, x)
              /\ UNCHANGED licenses
        /\ UNCHANGED <<orders, items, chain, job, todo, hand, crashes>>

\* item.save(update_fields=["license"]), best effort.
Link(r) ==
    /\ pc[r] = "linking"
    /\ items' \in {items, [items EXCEPT ![hand[r]].license = job[r].sig]}
    /\ Goto(r, "granting")
    /\ UNCHANGED <<orders, chain, licenses, job, todo, hand, missed, crashes>>

\* The status the order gets, and the answer.
Outcome(r) == IF missed[r] = {} THEN "settled" ELSE "partial"

\* order.save(update_fields=["status", "payment_tx_sig"]), whatever the row says now.
Conclude(r) ==
    LET o == job[r].order
        s == job[r].sig
    IN  /\ pc[r] = "granting"
        /\ todo[r] = {}
        /\ orders' = [orders EXCEPT ![o].status = Outcome(r), ![o].sig = s]
        /\ Goto(r, Outcome(r))
        /\ UNCHANGED <<items, chain, licenses, job, todo, hand, missed, crashes>>

\* The worker dies, or the last save raises: what was written stays.
Crash(r) ==
    /\ pc[r] \in Running
    /\ crashes < MaxCrashes
    /\ crashes' = crashes + 1
    /\ Goto(r, "failed")
    /\ UNCHANGED <<rows, chain, job, todo, hand, missed>>

Worker(r) ==
    \/ Screen(r) \/ Verify(r) \/ Insert(r) \/ Link(r) \/ Conclude(r)
    \/ \E x \in Items : Look(r, x)

Next ==
    \/ \E o \in Orders, xs \in SUBSET Items, t \in Totals : Quote(o, xs, t)
    \/ \E s \in Sigs, t \in Totals : Pay(s, t)
    \/ \E r \in Requests, o \in Orders, s \in Sigs : Receive(r, o, s)
    \/ \E r \in Requests : Worker(r) \/ Crash(r)

Spec == Init /\ [][Next]_vars

\* A worker runs its request to the end, the RPC node is not down for ever for any
\* payment, and the buyer repeats the call for each of its payments.
Fairness ==
    /\ \A r \in Requests : WF_vars(Worker(r))
    /\ \A r \in Requests, s \in Sigs :
          SF_vars(Verify(r) /\ job[r].sig = s /\ pc'[r] # "failed")
    /\ \A o \in Orders, s \in Sigs : SF_vars(\E r \in Requests : Receive(r, o, s))

FairSpec == Spec /\ Fairness

----------------------------------------------------------------------------
(***************************************************************************)
(* Properties.                                                             *)
(***************************************************************************)

\* Every License of a batch stands for a confirmed payment of exactly the total of
\* the order its item belongs to, and an item's link names a License that exists.
LicensesArePaid ==
    /\ \A k \in licenses : /\ items[k[2]] # None
                           /\ chain[k[1]] = orders[items[k[2]].order].total
    /\ \A x \in Items : items[x] # None /\ items[x].license # None =>
           <<items[x].license, x>> \in licenses

\* A settled order has a License of its recorded payment for every one of its
\* items, whichever of several competing or crashed requests wrote the row.
SettledIsComplete ==
    \A o \in Orders : orders[o] # None /\ orders[o].status = "settled" =>
        \A x \in ItemsOf(o) : <<orders[o].sig, x>> \in licenses

\* A concluded order is never reopened, and once every request that works on it is
\* answered it stays with the payment it was concluded with.
ConcludedStays ==
    [][\A o \in Orders : orders[o] # None /\ orders[o].status \in Concluded =>
          /\ orders'[o].status \in Concluded
          /\ orders'[o] # orders[o] =>
                \E r \in Requests : /\ pc[r] \in Running
                                    /\ job[r].order = o
                                    /\ job[r].status = "quoted"]_vars

\* "A second, different tx for an already-settled order is rejected: the per-item
\* license keys would otherwise double-license the assets."  That is so for a client that
\* waits for each answer; a second request beside the first, or a retry with another
\* payment after a worker died half way, passes the screening of an order still quoted.
LicensedOnce ==
    \A x \in Items : Cardinality({s \in Sigs : <<s, x>> \in licenses}) <= 1

\* Some item of the order has no License of the payment the order was concluded with.
ShortOfLicense(o) == \E x \in ItemsOf(o) : <<orders[o].sig, x>> \notin licenses

\* An order whose total was paid, and whose settlement the buyer keeps asking for, is
\* concluded, whatever other payments were submitted for it and whichever grants fail;
\* and "partial", which no replay ever leaves, is only said of an order that is short of
\* a License (R8: a failed item does not stop the others, and is reported).
PaidOrderConcludes ==
    \A o \in Orders :
        (orders[o] # None /\ \E s \in Sigs : chain[s] = orders[o].total)
            ~> /\ orders[o] # None
               /\ \/ orders[o].status = "settled"
                  \/ orders[o].status = "partial" /\ ShortOfLicense(o)
=============================================================================
