----------------------------- MODULE MCRetries -----------------------------
(***************************************************************************)
(* Registration drafts and batch orders, each with one request at a time   *)
(* and a client that tries again.  They share no row: a behaviour is one   *)
(* of the part it begins with, and the other part, of which nothing is     *)
(* enabled then, stays as it began.  Batch orders are this module's own    *)
(* variables, the registration desk, Studio, has variables beside them.    *)
(***************************************************************************)
EXTENDS BatchSettlement

CONSTANTS Works, Terms, Saleable, Drafts, Tokens, Assets

VARIABLES part, workers, drafts, shown, assets, traces, at, form

Studio == INSTANCE Registration WITH pc <- at, job <- form

studioVars == <<workers, drafts, shown, assets, traces, at, form>>

RetriesInit ==
    /\ part \in {"studio", "batch"}
    /\ Studio!Init
    /\ Init

RetriesNext ==
    \/ part = "studio" /\ Studio!Next /\ UNCHANGED <<part, vars>>
    \/ part = "batch" /\ Next /\ UNCHANGED <<part, studioVars>>

RetriesSpec ==
    /\ RetriesInit /\ [][RetriesNext]_<<part, studioVars, vars>>
    /\ Studio!Fairness /\ Fairness

----------------------------------------------------------------------------
(* Properties: those of the parts, where they are stated and explained.    *)

\* Registration: a confirmed draft that is uploaded again and again is registered.
ConfirmedIsRegistered == Studio!ConfirmedIsRegistered
=============================================================================
