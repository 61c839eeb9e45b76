------------------------------ MODULE Wallets ------------------------------
(***************************************************************************)
(* The wallets of one account.  The work a creator registers is signed by  *)
(* the active WalletConfiguration; the pages list the creator's works,     *)
(* drafts and sales by another field, UserPreference.creator_wallet, which *)
(* four handlers keep in step with the active wallet and a fifth writes as *)
(* the page tells it.                                                      *)
(*                                                                         *)
(* Saving and deleting a wallet are transactions, but the first wallet has *)
(* no row to lock; activating one is four statements.                      *)
(***************************************************************************)
EXTENDS Naturals, FiniteSets

CONSTANTS
    Ids,        \* ids of WalletConfiguration rows, numbers: a later row has a larger one
    Addresses,
    Clerks,     \* requests in flight
    NoWallet

VARIABLES
    workers,    \* the web workers that are up
    wallets,    \* wallets[w]: the row w, NoWallet when there is none
    lastId,
    shown,      \* UserPreference.creator_wallet, NoWallet when it is blank
    page,       \* the creator_wallet an open page has loaded
    task,       \* task[r]: what request r is doing, with what it has read
    drifted     \* a page has written a wallet that is not the active one, or a worker died

walletVars == <<workers, wallets, lastId, shown, page, task, drifted>>

Wallet == [address: Addresses, active: BOOLEAN]
Idle == [at |-> "idle", id |-> NoWallet, address |-> NoWallet]
Task == [at: {"idle", "creating", "clearing", "setting", "showing"},
         id: Ids \cup {NoWallet}, address: Addresses \cup {NoWallet}]

WalletsTypeOK ==
    /\ workers \subseteq Clerks
    /\ wallets \in [Ids -> Wallet \cup {NoWallet}]
    /\ shown \in Addresses \cup {NoWallet}
    /\ page \in Addresses \cup {NoWallet}
    /\ task \in [Clerks -> Task]
    /\ drifted \in BOOLEAN

Rows == {w \in Ids : wallets[w] # NoWallet}
Active == {w \in Rows : wallets[w].active}
Latest(S) == CHOOSE w \in S : \A v \in S : v <= w

\* Meta.ordering: the active ones first, the latest first.
FirstRow == IF Active # {} THEN Latest(Active) ELSE Latest(Rows)

\* active_wallet_address and active_wallet_signer: whose key signs.
Signer == IF Active = {} THEN NoWallet ELSE wallets[Latest(Active)].address

\* An account starts without wallets, or with several from before there was one form.
WalletsInit ==
    /\ workers \in SUBSET Clerks \ {{}}
    /\ \E a \in [Ids -> Addresses \cup {NoWallet}], k \in Ids \cup {NoWallet} :
          /\ \A v, w \in Ids : a[v] = a[w] /\ v # w => a[v] = NoWallet
          /\ \A v, w \in Ids : v < w /\ a[v] = NoWallet => a[w] = NoWallet
          /\ IF \A w \in Ids : a[w] = NoWallet THEN k = NoWallet
             ELSE k # NoWallet /\ a[k] # NoWallet
          /\ wallets = [w \in Ids |-> IF a[w] = NoWallet THEN NoWallet
                                      ELSE [address |-> a[w], active |-> w = k]]
          /\ lastId = Cardinality({w \in Ids : a[w] # NoWallet})
          /\ shown = IF k = NoWallet THEN NoWallet ELSE a[k]
    /\ page = shown
    /\ task = [r \in Clerks |-> Idle]
    /\ drifted = FALSE

----------------------------------------------------------------------------
Vacant(r) == r \in workers /\ task[r] = Idle
Done(r) == task' = [task EXCEPT ![r] = Idle]
Taken(a) == \E w \in Rows : wallets[w].address = a

\* wallet_configurations, for an account with a wallet: the first one is edited.
EditWallet(r, a) ==
    /\ Vacant(r)
    /\ Rows # {}
    /\ a = wallets[FirstRow].address \/ ~Taken(a)
    /\ wallets' = [wallets EXCEPT ![FirstRow] = [address |-> a, active |-> @.active \/ Active = {}]]
    /\ shown' = a
    /\ UNCHANGED <<workers, lastId, page, task, drifted>>

\* For an account without one there is no row to lock: the look-up, then the insert,
\* which the unique address may refuse.
FindNone(r, a) ==
    /\ Vacant(r)
    /\ Rows = {}
    /\ task' = [task EXCEPT ![r] = [Idle EXCEPT !.at = "creating", !.address = a]]
    /\ UNCHANGED <<workers, wallets, lastId, shown, page, drifted>>

CreateWallet(r) ==
    LET a == task[r].address
    IN  /\ task[r].at = "creating"
        /\ IF Taken(a) THEN UNCHANGED <<wallets, lastId, shown>>
           ELSE /\ lastId + 1 \in Ids
                /\ lastId' = lastId + 1
                /\ wallets' = [wallets EXCEPT ![lastId'] = [address |-> a, active |-> TRUE]]
                /\ shown' = a
        /\ Done(r)
        /\ UNCHANGED <<workers, page, drifted>>

\* activate_wallet: the row is read, the others are made inactive, the row is saved (an
\* error when it is gone), and its address is shown.
ReadWallet(r, w) ==
    /\ Vacant(r)
    /\ w \in Rows
    /\ task' = [task EXCEPT ![r] = [at |-> "clearing", id |-> w, address |-> wallets[w].address]]
    /\ UNCHANGED <<workers, wallets, lastId, shown, page, drifted>>

Cleared == [w \in Ids |-> IF w \in Rows THEN [wallets[w] EXCEPT !.active = FALSE] ELSE NoWallet]
ClearActive(r) ==
    /\ task[r].at = "clearing"
    /\ wallets' = Cleared
    /\ task' = [task EXCEPT ![r].at = "setting"]
    /\ UNCHANGED <<workers, lastId, shown, page, drifted>>

SetActive(r) ==
    /\ task[r].at = "setting"
    /\ IF task[r].id \in Rows
       THEN /\ wallets' = [wallets EXCEPT ![task[r].id].active = TRUE]
            /\ task' = [task EXCEPT ![r].at = "showing"]
       ELSE Done(r) /\ UNCHANGED wallets
    /\ UNCHANGED <<workers, lastId, shown, page, drifted>>

ShowActive(r) ==
    /\ task[r].at = "showing"
    /\ shown' = task[r].address
    /\ Done(r)
    /\ UNCHANGED <<workers, wallets, lastId, page, drifted>>

\* delete_wallet: the latest of the others replaces the active one.  Heir_None leaves the
\* account without one.
Heir_None(S) == {}
Heir(S) == IF S = {} THEN {} ELSE {Latest(S)}
DeleteWallet(r, w) ==
    LET heir == IF wallets[w].active THEN Heir(Rows \ {w}) ELSE {}
    IN  /\ Vacant(r)
        /\ w \in Rows
        /\ wallets' = [v \in Ids |-> IF v = w THEN NoWallet
                                     ELSE IF v \in heir THEN [wallets[v] EXCEPT !.active = TRUE]
                                     ELSE wallets[v]]
        /\ shown' = IF ~wallets[w].active THEN shown
                    ELSE IF heir = {} THEN NoWallet ELSE wallets[Latest(heir)].address
        /\ UNCHANGED <<workers, lastId, page, task, drifted>>

----------------------------------------------------------------------------
\* A page is loaded.
LoadPage ==
    /\ page' = shown
    /\ UNCHANGED <<workers, wallets, lastId, shown, task, drifted>>

\* preferences: every saved setting brings the page's wallet with it; in the wallet form
\* the creator may type any address.
SavePreferences(r, a) ==
    /\ Vacant(r)
    /\ a \in Addresses \cup {page}
    /\ shown' = a
    /\ drifted' = (drifted \/ a # Signer)
    /\ UNCHANGED <<workers, wallets, lastId, page, task>>

\* The worker dies between two statements of activate_wallet, or in a transaction.
ClerkDies(r) ==
    /\ task[r] # Idle
    /\ Done(r)
    /\ drifted' = TRUE
    /\ UNCHANGED <<workers, wallets, lastId, shown, page>>

WalletsNext ==
    \/ \E r \in Clerks :
          \/ \E a \in Addresses : EditWallet(r, a) \/ FindNone(r, a)
          \/ \E w \in Ids : ReadWallet(r, w) \/ DeleteWallet(r, w)
          \/ CreateWallet(r) \/ ClearActive(r) \/ SetActive(r) \/ ShowActive(r)
          \/ \E a \in Addresses \cup {NoWallet} : SavePreferences(r, a)
          \/ ClerkDies(r)
    \/ LoadPage

----------------------------------------------------------------------------
(***************************************************************************)
(* Properties.                                                             *)
(***************************************************************************)

\* With one worker: the account has one active wallet when it has any, also after a
\* deletion, and no worker's death leaves two; and unless a page has written another
\* address, the wallet under which works, drafts and sales are listed is the one that
\* signs.
SignerIsShown ==
    Cardinality(workers) = 1 =>
        /\ Cardinality(Active) <= 1
        /\ (~drifted /\ \A r \in Clerks : task[r] = Idle) =>
              /\ Rows # {} => Active # {}
              /\ shown = Signer
=============================================================================
