------------------------------ MODULE Sandbox ------------------------------
(***************************************************************************)
(* A run of the sandbox: the agent reads the terms of a work, offers, and  *)
(* settles with a transaction its user made before the run.  The runner    *)
(* calls the views of the shop, one after the other; all runs of the page  *)
(* offer under one buyer id and so continue one negotiation session.       *)
(*                                                                         *)
(* The negotiation and the settlement are modules of their own; here each  *)
(* is one step with the outcomes they leave.                               *)
(***************************************************************************)
EXTENDS Naturals, Sequences

CONSTANTS
    Runs,
    Payments,   \* signatures of the transactions users submit
    Prices,
    LastSale,   \* bound: changes of the work
    Nothing

VARIABLES
    limit,     \* how many runs there are at once
    work,      \* its price and whether it is on sale, off it, or deleted
    agreed,    \* the price of the accepted session, Nothing before
    paid,      \* paid[t]: what transaction t pays, and whether its memo names the session
    licensed,  \* transactions with a License
    run,       \* run[r]: its step, its transaction, and the deal it was told
    feed,      \* feed[r]: the types of the documents of r
    sales

sandboxVars == <<limit, work, agreed, paid, licensed, run, feed, sales>>

Fresh == [at |-> "idle", tx |-> Nothing, deal |-> Nothing]
Run == [at: {"idle", "get", "negotiate", "settle", "success", "failed", "not found"},
        tx: Payments \cup {Nothing}, deal: Prices \cup {Nothing}]
Running == {r \in Runs : run[r].at \in {"get", "negotiate", "settle"}}
Kinds == {"HTTP_402", "OFFER", "COUNTER", "ACCEPT", "PAYMENT_VERIFIED", "CERT_ISSUED", "SIMULATION_FAILED"}

SandboxTypeOK ==
    /\ work \in [price: Prices, state: {"public", "private", "deleted"}]
    /\ agreed \in Prices \cup {Nothing}
    /\ paid \in [Payments -> [amount: Prices, session: BOOLEAN] \cup {Nothing}]
    /\ licensed \subseteq Payments
    /\ run \in [Runs -> Run]
    /\ feed \in [Runs -> Seq(Kinds)]

SandboxInit ==
    /\ limit \in 1..2
    /\ work \in [price: Prices, state: {"public"}]
    /\ agreed = Nothing
    /\ paid = [t \in Payments |-> Nothing]
    /\ licensed = {}
    /\ run = [r \in Runs |-> Fresh]
    /\ feed = [r \in Runs |-> <<>>]
    /\ sales = 0

----------------------------------------------------------------------------
\* The world: the seller changes the work; a user pays, for the work or, with the
\* session id an earlier run has answered, for the session.
ChangeWork(w) ==
    /\ sales < LastSale
    /\ work.state # "deleted"
    /\ work' = w
    /\ sales' = sales + 1
    /\ UNCHANGED <<limit, agreed, paid, licensed, run, feed>>

Pay(t, amount, session) ==
    /\ paid[t] = Nothing
    /\ session => agreed # Nothing
    /\ paid' = [paid EXCEPT ![t] = [amount |-> amount, session |-> session]]
    /\ UNCHANGED <<limit, work, agreed, licensed, run, feed, sales>>

\* run_simulation begins; the transaction is not looked at yet.
Begun(t) == [Fresh EXCEPT !.at = "get", !.tx = t]

\* /sandbox/run: a work that is not there is a 404, any other is tried.
Start(r, t) ==
    /\ run[r].at = "idle"
    /\ limit = 2 \/ Running = {}
    /\ run' = [run EXCEPT ![r] = IF work.state = "deleted" THEN [Fresh EXCEPT !.at = "not found"]
                                 ELSE Begun(t)]
    /\ UNCHANGED <<limit, work, agreed, paid, licensed, feed, sales>>

Emitted(r, types) == feed' = [feed EXCEPT ![r] = @ \o types]
Step(r, at) == run' = [run EXCEPT ![r].at = at]

\* _fail, also for an exception: one document, and the run is over.
Fail(r, types) ==
    /\ Emitted(r, Append(types, "SIMULATION_FAILED"))
    /\ Step(r, "failed")

\* Only 404 ends the run here; a work that cannot be sold for SOL goes on.
Get(r) ==
    /\ run[r].at = "get"
    /\ IF work.state = "public" THEN Emitted(r, <<"HTTP_402">>) /\ Step(r, "negotiate")
                                ELSE Fail(r, <<>>)
    /\ UNCHANGED <<limit, work, agreed, paid, licensed, sales>>

\* The offer is shown after the answer is there.  Off sale, one can still negotiate.
Accepted(r, p) ==
    /\ run[r].at = "negotiate"
    /\ work.state # "deleted"
    /\ agreed' = p
    /\ run' = [run EXCEPT ![r].at = "settle", ![r].deal = p]
    /\ Emitted(r, <<"OFFER", "ACCEPT">>)
    /\ UNCHANGED <<limit, work, paid, licensed, sales>>

\* A counter offer, a rejection, or an error of the model or the request.
NotAccepted(r) ==
    /\ run[r].at = "negotiate"
    /\ \E types \in {<<"OFFER", "COUNTER">>, <<"OFFER">>, <<>>} : Fail(r, types)
    /\ UNCHANGED <<limit, work, agreed, paid, licensed, sales>>

\* settle_agent_sol_payment with ?session_id=: the price is the session's, and the
\* memo of the payment has to name it.
Valid_ListPrice(t) == paid[t] # Nothing /\ ~paid[t].session /\ paid[t].amount = work.price
Valid(t) ==
    /\ paid[t] # Nothing
    /\ paid[t].session
    /\ paid[t].amount = agreed

\* The pipeline may fail before the License is granted and after; a payment that was
\* settled before answers with the License it has.
Settle(r) ==
    LET t == run[r].tx
    IN  /\ run[r].at = "settle"
        /\ \/ /\ work.state = "public" /\ Valid(t)
              /\ licensed' = licensed \cup {t}
              /\ \/ Step(r, "success") /\ Emitted(r, <<"PAYMENT_VERIFIED", "CERT_ISSUED">>)
                 \/ Fail(r, <<>>)
           \/ Fail(r, <<>>) /\ UNCHANGED licensed
        /\ UNCHANGED <<limit, work, agreed, paid, sales>>

SandboxNext ==
    \/ \E w \in [price: Prices, state: {"public", "private", "deleted"}] : ChangeWork(w)
    \/ \E t \in Payments : \E p \in Prices, s \in BOOLEAN : Pay(t, p, s)
    \/ \E r \in Runs : \E t \in Payments : Start(r, t)
    \/ \E r \in Runs : \E p \in Prices : Accepted(r, p)
    \/ \E r \in Runs : Get(r) \/ NotAccepted(r) \/ Settle(r)

SandboxSpec == SandboxInit /\ [][SandboxNext]_sandboxVars

----------------------------------------------------------------------------
(* Properties.                                                             *)

\* What the inspector shows is what happened: a run that ends in success has a License,
\* paid by its own transaction at the price of the deal the feed shows.  Of two runs at
\* once, one can settle at the price the other has agreed on.
SuccessIsTheDeal ==
    \A r \in Runs : run[r].at = "success" =>
        /\ run[r].tx \in licensed
        /\ limit = 1 => paid[run[r].tx] = [amount |-> run[r].deal, session |-> TRUE]
=============================================================================
