---------------------------- MODULE MCSettlement ----------------------------
(***************************************************************************)
(* Two requests at once: the settlement of a batch order, and the pipeline *)
(* that settles single purchases.  The two write Licenses under different  *)
(* keys and share no row: a behaviour is one of the part it begins with,   *)
(* and the other part stays as it began.                                   *)
(***************************************************************************)
EXTENDS BatchSettlement, Sequences, TLC

CONSTANTS Assets, Derivatives, Payments, Amounts, TransferWired, MaxCerts, MaxLost

VARIABLES
    part,
    price, live, derived, paid, granted, certs, legs, transfers, unheard, req, died

\* No worker of the pipeline dies in this run; those of a batch may.
Single == INSTANCE SettlePipeline
            WITH Sigs <- Payments, chain <- paid, licenses <- granted,
                 crashes <- died, MaxCrashes <- 0

ASSUME SingleAssumption ==
    /\ Derivatives \subseteq Assets
    /\ TransferWired \in BOOLEAN
    /\ MaxCerts \in Nat /\ MaxLost \in Nat
    /\ None \notin Assets /\ None \notin Single!Tx /\ None \notin Single!License
    /\ None \notin Single!Job

singleVars ==
    <<price, live, derived, paid, granted, certs, legs, transfers, unheard, req, died>>

SettlementInit ==
    /\ part \in {"batch", "single"}
    /\ Init
    /\ Single!Init
    /\ part = "single" \/ price = [a \in Assets |-> CHOOSE m \in Amounts : TRUE]

SettlementNext ==
    \/ part = "batch" /\ Next /\ UNCHANGED <<part, singleVars>>
    \/ part = "single" /\ Single!Next /\ UNCHANGED <<part, vars>>

SettlementSpec == SettlementInit /\ [][SettlementNext]_<<part, vars, singleVars>>

Symmetry == Permutations(Requests)

----------------------------------------------------------------------------
(***************************************************************************)
(* Properties: those of the parts, where they are stated and explained.    *)
(* LicensesArePaid, SettledIsComplete and ConcludedStays are those of      *)
(* BatchSettlement.                                                        *)
(***************************************************************************)

\* SettlePipeline: a License stands for a payment of its price to the right payee.
LicenseIsPaid == Single!LicenseIsPaid

\* SettlePipeline: a certificate memo stands for a payment to the payee of its asset.
CertificatesArePaid == Single!CertificatesArePaid

\* SettlePipeline: a settled royalty leg was sent, out of a payment to the escrow.
SettledLegsWereSent == Single!SettledLegsWereSent
=============================================================================
