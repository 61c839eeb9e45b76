----------------------------- MODULE MCProgress -----------------------------
(***************************************************************************)
(* What has to happen in the end, in one run for four parts that share no  *)
(* state: the tools of the buyer agent, the overlay of a registration, the *)
(* live demo, and payments settled one request at a time.  A behaviour is  *)
(* one of the part it begins with, under the fairness that part's module   *)
(* states; the other parts stay in a state where nothing of theirs is      *)
(* enabled, which is fair.                                                 *)
(***************************************************************************)
EXTENDS SettlePipeline

CONSTANTS
    Prices, Deals, MaxEdits, Limit, MaxTurns,
    Flows, Mine, MaxBreaks, MaxForeign, Joins,
    LastEvent, WindowSize, QueueSize

VARIABLES
    part,
    asset, deals, sent, bought, references, edits,
    mode, approval, remembered, pc, call, purchased, approved, signed,
    rows, flow, stream, breaks, overlay, nodes, timely,
    own, stamped, committed, late, mirror, since, polled, answers, phase, reported, queue, dropped, showing

Buyer == INSTANCE BuyerAgent WITH chain <- sent, licenses <- bought
Overlay == INSTANCE RegistrationFeed
Feeds == INSTANCE EventFeeds

buyerVars == <<asset, deals, sent, bought, references, edits,
               mode, approval, remembered, pc, call, purchased, approved, signed>>
overlayVars == <<rows, flow, stream, breaks, overlay, nodes, timely>>
feedVars == <<own, stamped, committed, late, mirror, since, polled, answers, phase, reported, queue, dropped, showing>>
partVars == <<part, buyerVars, overlayVars, feedVars, vars>>

OverlayClosed ==
    /\ rows = <<>>
    /\ flow = [f \in Flows |-> [state |-> "waiting", recorded |-> 0, writing |-> 0]]
    /\ stream = Overlay!Off
    /\ breaks = 0
    /\ overlay = [phase |-> "finished", follows |-> None]
    /\ nodes = [k \in Overlay!Steps |-> "done"]
    /\ timely = FALSE

NothingForSale ==
    /\ price = [a \in Assets |-> CHOOSE m \in Amounts : TRUE]
    /\ live = {} /\ derived = {}
    /\ chain = [s \in Sigs |-> None]
    /\ licenses = [s \in Sigs |-> None]
    /\ certs = <<>> /\ legs = {}
    /\ transfers = [l \in Sigs \X Roles |-> 0]
    /\ unheard = [l \in Sigs \X Roles |-> 0]
    /\ req = [r \in Requests |-> None]
    /\ crashes = 0

PartsInit ==
    /\ part \in {"buyer", "overlay", "feeds", "settle"}
    /\ Buyer!Init
    /\ part = "buyer" \/ (mode = "autonomous" /\ ~asset.derived /\ asset.amount = CHOOSE p \in Prices : TRUE)
    /\ IF part = "overlay" THEN Overlay!Init ELSE OverlayClosed
    /\ Feeds!FeedsInit
    /\ part = "feeds" \/ phase = "none"
    /\ IF part = "settle" THEN Init ELSE NothingForSale

PartsNext ==
    \/ /\ part = "buyer" /\ Buyer!Next
       /\ UNCHANGED <<part, overlayVars, feedVars, vars>>
    \/ /\ part = "overlay" /\ Overlay!Next
       /\ UNCHANGED <<part, buyerVars, feedVars, vars>>
    \/ /\ part = "feeds" /\ Feeds!FeedsNext
       /\ UNCHANGED <<part, buyerVars, overlayVars, vars>>
    \/ /\ part = "settle" /\ Next
       /\ UNCHANGED <<part, buyerVars, overlayVars, feedVars>>

PartsSpec ==
    /\ PartsInit /\ [][PartsNext]_partVars
    /\ Buyer!Fairness /\ Overlay!Fairness /\ Feeds!FeedsFairness /\ Fairness

----------------------------------------------------------------------------
(* Properties: those of the parts, where they are stated and explained.    *)
(* RoyaltyPaidOnce and RoyaltiesAreRecorded are those of SettlePipeline.   *)

\* BuyerAgent: a purchase the agent has begun comes to an end.
EveryPurchaseEnds == Buyer!EveryPurchaseEnds

\* RegistrationFeed: the overlay ends, also without a stream.
OverlayEnds == Overlay!OverlayEnds

\* EventFeeds: what is mirrored comes to the live demo.
MirroredIsShown == Feeds!MirroredIsShown
=============================================================================
