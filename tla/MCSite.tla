------------------------------- MODULE MCSite -------------------------------
(***************************************************************************)
(* Seven parts of the site that share no state, checked in one run: the    *)
(* overlay of a registration, the event feeds, the wallets of an account,  *)
(* passkeys and certificates, the assistant, the sandbox, and downloads.   *)
(* A behaviour is one of the part it begins with; the other parts stay as  *)
(* they began.                                                             *)
(***************************************************************************)
EXTENDS Naturals, FiniteSets, Sequences

CONSTANTS
    Flows, Mine, MaxBreaks, MaxForeign, Joins,
    LastEvent, WindowSize, QueueSize,
    Ids, Addresses, Clerks,
    Certificates, Passkeys, LastCall, LastNow, Lifetime, LastNonce,
    Calls, Dialogs, Files, Terms, MaxCrashes,
    Runs, Payments, Prices, LastSale,
    Sales, Users, Gallery, LastDay, Right,
    None

VARIABLES
    part,
    rows, flow, stream, breaks, overlay, nodes, timely,
    own, stamped, committed, late, mirror, since, polled, answers, phase, reported, queue, dropped, showing,
    workers, wallets, lastId, shown, page, task, drifted,
    servers, now, nonce, session, keys, password, visit, accepted, reused, proved, download,
    parallel, call, said, replied, files, audit, spent, terms, wrote, crashes,
    limit, work, agreed, paid, licensed, run, feed, sales,
    day, offer, stored, license, links, fetch

Overlay == INSTANCE RegistrationFeed
Feeds == INSTANCE EventFeeds
Accounts == INSTANCE Wallets WITH NoWallet <- None
Proofs == INSTANCE StepUp WITH workers <- servers, Nothing <- None
Chat == INSTANCE Assistant WITH rows <- audit, Nothing <- None
Show == INSTANCE Sandbox WITH Nothing <- None
Shelf == INSTANCE Delivery WITH work <- offer, Nothing <- None

----------------------------------------------------------------------------
(***************************************************************************)
(* What the proofs need of the constants: bounds are numbers, ids are      *)
(* numbers, sets that are counted are finite, and None is none of the      *)
(* values it stands beside.                                                *)
(***************************************************************************)
\* A registration that another page has begun has not recorded its last event.
ASSUME OverlayAssumption ==
    /\ Mine \in Flows /\ None \notin Flows
    /\ Joins \subseteq 0..7

ASSUME FeedsAssumption == LastEvent \in Nat

ASSUME AccountsAssumption ==
    /\ \E n \in Ids \cup {0} : n \in Nat /\ Ids \subseteq 0..n
    /\ None \notin Accounts!Wallet /\ None \notin Ids /\ None \notin Addresses
    /\ IsFiniteSet(Clerks)

\* What a session holds: a challenge that is open, and a proof that was given.
Ceremonies == [kind: Proofs!Kinds, challenge: Nat, about: Certificates \cup {None}, at: Nat]
Grants == [about: Certificates, at: Nat]

ASSUME ProofsAssumption ==
    /\ LastCall \in Nat /\ Lifetime \in Nat /\ LastNonce \in Nat
    /\ None \notin Nat /\ None \notin Certificates /\ None \notin Passkeys
    /\ None \notin Ceremonies /\ None \notin Grants
    /\ None \notin [ceremony: Ceremonies \cup {None}, grant: Grants \cup {None}]

ASSUME ChatAssumption ==
    /\ IsFiniteSet(Calls)
    /\ Chat!Absent \notin Calls /\ Chat!Unsent \notin Calls
    /\ None \notin Chat!Statuses

ASSUME ShowAssumption ==
    None \notin Payments /\ None \notin Prices /\ None \notin [amount: Prices, session: BOOLEAN]

\* What a download link carries, and the License it opens.
Tokens == [sale: Sales, day: Nat]
Licenses == [buyer: Shelf!Buyers, token: Tokens, expires: Nat]
ToldLinks == [holder: Shelf!Buyers, token: Tokens]

ASSUME ShelfAssumption ==
    /\ Right \in Nat
    /\ None \notin Licenses /\ None \notin ToldLinks

----------------------------------------------------------------------------
overlayVars == <<rows, flow, stream, breaks, overlay, nodes, timely>>
feedVars == <<own, stamped, committed, late, mirror, since, polled, answers, phase, reported, queue, dropped, showing>>
accountVars == <<workers, wallets, lastId, shown, page, task, drifted>>
proofVars == <<servers, now, nonce, session, keys, password, visit, accepted, reused, proved, download>>
chatVars == <<parallel, call, said, replied, files, audit, spent, terms, wrote, crashes>>
showVars == <<limit, work, agreed, paid, licensed, run, feed, sales>>
shelfVars == <<day, offer, stored, license, links, fetch>>
siteVars == <<part, overlayVars, feedVars, accountVars, proofVars, chatVars, showVars, shelfVars>>

SiteInit ==
    /\ part \in {"overlay", "feeds", "accounts", "proofs", "chat", "show", "shelf"}
    /\ Overlay!Init
    /\ Feeds!FeedsInit    /\ (part = "feeds" \/ phase = "none")
    /\ Accounts!WalletsInit /\ (part = "accounts" \/ (workers = Clerks /\ lastId = 0))
    /\ Proofs!StepUpInit  /\ (part = "proofs" \/ (servers = 1 /\ keys = {} /\ password))
    /\ Chat!ChatInit      /\ (part = "chat" \/ (parallel = 1 /\ terms = CHOOSE t \in Terms : TRUE))
    /\ Shelf!DeliveryInit
    /\ Show!SandboxInit   /\ (part = "show" \/ (limit = 1 /\ work.price = CHOOSE p \in Prices : TRUE))

SiteNext ==
    \/ /\ part = "overlay" /\ Overlay!Next
       /\ UNCHANGED <<part, feedVars, accountVars, proofVars, chatVars, showVars, shelfVars>>
    \/ /\ part = "feeds" /\ Feeds!FeedsNext
       /\ UNCHANGED <<part, overlayVars, accountVars, proofVars, chatVars, showVars, shelfVars>>
    \/ /\ part = "accounts" /\ Accounts!WalletsNext
       /\ UNCHANGED <<part, overlayVars, feedVars, proofVars, chatVars, showVars, shelfVars>>
    \/ /\ part = "proofs" /\ Proofs!StepUpNext
       /\ UNCHANGED <<part, overlayVars, feedVars, accountVars, chatVars, showVars, shelfVars>>
    \/ /\ part = "chat" /\ Chat!ChatNext
       /\ UNCHANGED <<part, overlayVars, feedVars, accountVars, proofVars, showVars, shelfVars>>
    \/ /\ part = "show" /\ Show!SandboxNext
       /\ UNCHANGED <<part, overlayVars, feedVars, accountVars, proofVars, chatVars, shelfVars>>
    \/ /\ part = "shelf" /\ Shelf!DeliveryNext
       /\ UNCHANGED <<part, overlayVars, feedVars, accountVars, proofVars, chatVars, showVars>>

SiteSpec == SiteInit /\ [][SiteNext]_siteVars

----------------------------------------------------------------------------
(* Properties: those of the parts, where they are stated and explained.    *)

\* RegistrationFeed: a stream that was ready before the upload passes over no event.
NothingPassedOver == Overlay!NothingPassedOver

\* RegistrationFeed: a step shown as done has been done on the server.
ShownIsDone == Overlay!ShownIsDone

\* EventFeeds: a polling page misses no event below its cursor that was committed in
\* the order of the stamps.
NoneBelowCursor == Feeds!NoneBelowCursor

\* Wallets: the wallet the pages list works by is the one that signs.
SignerIsShown == Accounts!SignerIsShown

\* StepUp: a certificate is downloaded only after a recent proof about that certificate.
DownloadsAreProven == Proofs!DownloadsAreProven

\* StepUp: one challenge proves one thing once.
ChallengesAreUsedOnce == Proofs!ChallengesAreUsedOnce

\* Assistant: the audit log says what the assistant changed.
ChangesAreRecorded == Chat!ChangesAreRecorded

\* Assistant: a file stays with the message it was sent with.
FilesStayWithMessage == Chat!FilesStayWithMessage

\* Sandbox: a run that shows success has a License paid at the price of the deal it shows.
SuccessIsTheDeal == Show!SuccessIsTheDeal

\* Delivery: a link serves the whole work for as long as the right lasts.
LinksServeTheWork == Shelf!LinksServeTheWork
=============================================================================
