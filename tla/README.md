# VeriProof in TLA+

VeriProof sells licenses for registered images to software agents: a creator registers a
work, a buyer negotiates a price and pays on Solana, and the web application verifies the
payment, grants a `License`, writes a certificate memo on chain, splits the proceeds of
derivative works, and serves the files. This directory models the parts of `src/veriproof`
and `src/agents` where a wrong interleaving, a repeated request, a crash or a stale read
would cost somebody money, a work or the truth: TLA+ modules, TLC configurations and TLAPS
proofs.

## 1. The system

Django views run concurrently in several workers; `ATOMIC_REQUESTS` is off, so a view holds
a transaction or a row lock only where it asks for one. State lives in the database, on the
Solana chain, in browser sessions, in the pages, in the conversation of the buyer agent, and
in the local variables of a request in flight.

| Component | State | Operations | Interacts with | Module |
|---|---|---|---|---|
| Sponsored USDC payments (`ip/views_api.py` 599-895) | `SponsoredPaymentIntent`: frozen amount, deadline, bound signature | create intent, settle | pipeline inside a transaction with a row lock | `SponsoredPayment` |
| Settlement pipeline (`settlement/services.py`, `license_service.py`) | `License` rows, certificate memos | `settle`, webhook, agent SOL, `grant`, certificate | all channels; `License.payment_tx_sig` is the shared unique key | `SettlePipeline` |
| Royalty distribution (`royalty_service.py`) | `RoyaltyDistribution` rows, escrow wallet | `distribute`, `_settle_leg` | last step of the pipeline | `SettlePipeline` |
| Batch licensing (`settlement/batch_services.py`) | `BatchOrder`, `BatchItem` | quote, settle | `LicenseService.grant` | `BatchSettlement` |
| Negotiation (`apps/negotiation`, `negotiation_engine.py`) | `NegotiationSession`: round log, status, final price | `negotiate` | terms, the model, every payment channel | `Negotiation` |
| x402, agent SOL, Solana Pay page (`ip/views_api.py`, `x402_service.py`) | facilitator charges, references in the browser session | challenge, settle, confirm, poll | pipeline, accepted sessions | `Checkout` |
| Buyer agent (`src/agents/buyer_agent`) | conversation: approvals, remembered deal, spending limit | negotiate, approve, pay, poll | every route of `Checkout` | `BuyerAgent` |
| Registration, drafts (`registration_service.py`, `registration_draft_service.py`) | `IpAsset`, `RegistrationDraft`, memos, storage | save, confirm, consume, register, delete | chain, storage, unique hash | `Registration` |
| Progress overlay (`views_registration_stream.py`, `registration-progress.js`) | cursor, connection, nine steps on the page | prepare, stream, answer | `AgentEvent` rows of registrations | `RegistrationFeed` |
| Event feeds (`views_live_demo.py`, `firestore_mirror.py`, `library.js`, `live_demo.js`) | rows, documents, queue, page cursor | record, mirror, poll, stream | every recorder | `EventFeeds` |
| Wallets (`accounts/services.py`, `accounts/views.py`) | `WalletConfiguration`, `UserPreference` | save, activate, delete, preferences | who signs a registration, what pages list | `Wallets` |
| Passkeys and certificates (`accounts/passkeys.py`, `ip/views_web.py`) | session: challenge, grant; credentials | ceremonies, verify, download, delete | certificates | `StepUp` |
| Assistant (`creator_assistant_service.py`, `creator_action_service.py`) | messages, attachments, actions | chat, execute, delete conversation | terms of a work | `Assistant` |
| Sandbox (`sandbox/services.py`) | run, feed of the inspector | start, negotiate, settle | negotiation and pipeline | `Sandbox` |
| Delivery (`settlement/views_api.py`, `license_service.py`) | License, files | page, fulfilment, download | storage, deletion | `Delivery` |
| Asset terms and deletion (`ip/views_api.py` 213-303) | price, visibility, parent | edit, delete | everything that read the work earlier | an action of each |
| Seller agent, Solana service, content analysis, catalogue, keys | see section 6 | | | |

What is hard here:

- **Reads before a long call, writes after it.** A negotiation waits for a model, a
  settlement for an RPC node; the row written afterwards is the copy read before.
- **Idempotency by unique index.** Repeats and races of one payment are told apart only by
  `License.payment_tx_sig`, those of one work by its hash; look-up and insert are separate
  statements, and writes to the chain come before the insert.
- **Effects outside the database.** Memos, stored files, facilitator charges and royalty
  transfers are not rolled back with a transaction and not repeated with one.
- **Retries everywhere.** Clients poll, pay.sh redelivers, agents time out and call again.
- **Terms that move.** Prices, floors, parents, wallets and whole works change or vanish
  between quote, payment and settlement.
- **Pages that follow events.** Streams break, answers overtake events, queues overflow.
- **Sessions saved as a whole.** Two requests of one browser load and save one session.

The `hazards` of `PROJECT.json` list these at their lines with the properties that watch
them.

## 2. How the modules were chosen

Money first, then what prices it, then what creates the goods, then what people see.

1. `SponsoredPayment` with its abstract specification `LicenseLedger`;
2. `BatchSettlement`, `Negotiation`, `SettlePipeline`: the other writers of Licenses and
   prices;
3. `Registration`: where works come from;
4. `Checkout` and `BuyerAgent`: a whole purchase, from the agent's tools to the License;
5. `RegistrationFeed`, `EventFeeds`, `Wallets`, `StepUp`, `Assistant`, `Sandbox`,
   `Delivery`: what the site shows and whom it lets do what.

The modules with proofs use no recursive operators, name their assumptions and have one
action per step of the code. What could follow: an abstract specification of a deal that
negotiation and pipeline implement together, the split arithmetic of royalties as a module
of its own, and one `License` table for all channels. The last one would show that a
signature spent in one channel is spent in all; today each channel is modelled with the rows
it writes itself.

## 3. The modules

In every module a request is a worker that has read something: it has a program point and
the values it read. A step is one database access, one call of an external service, or one
atomic block. Operators with a suffix (`Probe_IgnoresFinality`, `Todo_SkipsLinked`) are the
same definition with a plausible mistake in it; the specification does not use them, they
are there to show that a property notices the mistake.

### LicenseLedger

What a buyer is promised: a payment is for one purchase with fixed terms; a License is
granted against one payment, with those terms; a purchase is licensed at most once; and
nothing is withdrawn. No source code is modelled here; `SponsoredPayment` implements it.

### SponsoredPayment

`ip/views_api.py`: `_create_sponsored_usdc_intent` is `CreateIntent` (with the sweep of
expired intents, `Swept`), `_settle_sponsored_usdc_intent` is the worker: `Receive` reads
the row, `Screen` takes the early returns, `Expire` is the write of EXPIRED, `Probe` the
Solana calls, `Lock` the `SELECT ... FOR UPDATE` with its re-checks, `Certify` the memo
inside the block, `Commit` everything the block writes. `Crash` before the commit loses the
block and keeps the memo. The environment reprices assets, lets deadlines pass, sends
transactions and makes them final. SUBMITTED is never seen outside the block and is not a
status of the model. Assets with intents are protected from deletion, so there is no
deletion here.

### BatchSettlement

`settlement/batch_services.py`: `Quote` is `quote_batch_order`; `settle_batch_order` is
`Receive`, `Screen`, `Verify`, then `Look`, `Insert`, `Link` for each item, and `Conclude`,
which writes the order from the copy that was read first. Both halves of `grant` may raise
for any reason, which makes the item a failure (`Miss`) and the order partial; the link is
best effort. `WidthsHold` says whether the database enforces the length of a column:
PostgreSQL does, and then no key (`KeyLength`, 131) fits `License.payment_tx_sig`
(`KeyWidth`, 90) and every item is missed; SQLite, the default of `settings.py`, does not,
and the runs set it to FALSE so that there are Licenses to speak of. The proofs are for
both.

### Negotiation

`negotiate` and `NegotiationEngine`: `Receive` (asset terms), `Find` and `Create`
(`get_or_create`), `Judge` (rules, model, clamp, rounding) and `Save` (the whole row).
`Opinions` is everything the parser of the model's answer lets through. The seller edits the
terms (`Edit`) and deletes the asset (`Delete`). Amounts count ninth decimals, `Tick` is one
sixth decimal.

### SettlePipeline

`SettlementService.settle_pipeline` outside any transaction: `Receive` (asset, payee and
amount as read), `Verify`, `Look` and `Insert` (`grant`), `Certify` and `SaveCertificate`,
then `ReadLeg`, `Transfer`, `RecordLeg` for the original and the secondary leg. The
environment reprices, deletes assets (`Delete`) and their parents (`Orphan`), and pays. USDC
requests stand for `/settle` and the webhook (whose payload carries its own amount), SOL
requests for the agent's native payment. `TransferWired = FALSE` is the source as it is:
`transfer_usdc` raises before anything is sent, and every leg is recorded as failed. `TRUE`
is the interface that `RoyaltyService` is written against and its tests inject: a transfer
may be reported, may fail, or may be sent although its call raises, as a time-out after the
broadcast does (`unheard` counts these; `_settle_leg` catches any exception and records
FAILED). The properties hold of both, and none needs a transfer to succeed. The price of an
asset is the final price of the session given, or the legacy `target_price_usdc`; an asset
with neither cannot be settled here and is not in `Assets`.

### Registration

`registration_draft_service.py` and `registration_service.py`. A draft is read and saved or
confirmed in two steps without a lock (`BeginSave`, `EndSave`, `BeginConfirm`,
`EndConfirm`); `consume` checks a token under a lock that it gives up at once; then the
duplicate check, the anchor memo, the certificate memo, the storage and the insert of the
`IpAsset` follow as steps that may each fail or be the last one of a worker, and
`mark_executed` comes after all. `traces` is what a registration leaves outside the
database. `shown` remembers what the creator saw when a token was issued.

### Checkout and BuyerAgent

`Checkout` is one work in the shop: its terms, accepted negotiations, the chain, and the
routes x402, native SOL and the Solana Pay page, each of which reads the price when it
quotes, when it charges and when it grants. A negotiation is a row that stays in use:
`Accept` rewrites the final price of an accepted session, `SaveOldCopy` is a round that
saves a copy read earlier (`Negotiation` models these rounds in detail), and other
conversations do both at any time (`OtherRound`), since the agent is told to present one
fixed buyer id. `accepted` remembers every price a session has answered ACCEPT to. The
sponsored route is `SponsoredPayment`; here it is its quote and the answer to the agent's
polling. `BuyerAgent` adds one conversation (`tools.py`, `payment_approval.py`,
`payments/`): the model may call any tool at any time, the tools remember the last accepted
negotiation, ask for the user's approval, hold the price against the limit, pay, poll at
most twelve times, and report. An x402 payment is presented (`Present`, the server's reading
of work and negotiation) and charged by the facilitator (`Charge`) in two steps, between
which both may change.

### RegistrationFeed and EventFeeds

`RegistrationFeed` is the overlay of the workspace: `views_registration_stream.py` and the
page's scripts, with a cursor drawn in one request while the registration runs in another,
rows of concurrent registrations, a connection that breaks and comes back with a new cursor,
and an answer of the POST that may overtake its own events. The frames under way are a set
of row ids: the server sends rows by ascending id and a socket keeps the order, so that the
least id is the next frame. `EventFeeds` is recording (row,
then document), the polling pages with their `since`, and the live demo: snapshot, listener
with a window, bounded queue, and the fallback to snapshots.

### Wallets, StepUp

`Wallets`: two workers (or one) create, edit, activate and delete wallets while pages write
the wallet they show. `StepUp`: challenge and grant in a session that each request loads and
stores as a whole; passkey registration, log-in, certificate proofs by passkey or password,
downloads, and the deletion of credentials. WebAuthn is a verdict.

### Assistant, Sandbox, Delivery

`Assistant`: a message is stored, files are linked to it, the model answers, fails or plans
one action, which is carried out, verified and written into its audit row, statement by
statement, while conversations are deleted and workers die. `Sandbox`: runs under one buyer
id, each with a payment made before it, over `GET`, negotiation and settlement as they
answer. `Delivery`: links from settlements, replays, pages and fulfilments, and the readings
of one download.

### Compositions

Each of these checks, in one run, parts that share no state: a variable `part` is chosen at
the start, a behaviour takes the steps of that part only, and the properties of each part
hold trivially in the others. One run thus explores the sum of the parts' states and not
their product; nothing is claimed about interactions, and there are none: the parts read and
write disjoint rows.

- `MCSettlement`: `BatchSettlement` and `SettlePipeline`, two requests at once;
- `MCRetries`: `BatchSettlement`, whose variables are its own, and `Registration`
  (`Studio`), one request at a time and a client that tries again;
- `MCProgress`: liveness of `BuyerAgent`, `RegistrationFeed`, `EventFeeds`,
  `SettlePipeline`;
- `MCSite`: `RegistrationFeed`, `EventFeeds`, `Wallets`, `StepUp`, `Assistant`, `Sandbox`,
  `Delivery`.

`BuyerAgent` EXTENDS `Checkout`, and there the two do interact: agent, browser, seller and
chain act on the same terms and payments.

## 4. The runs

| Run | What it asks | Properties | Result |
|---|---|---|---|
| `sponsored_race` | two requests, two signatures, two intents, one crash: does the channel implement the ledger, and is a bound intent a licensed one? | `BoundIffLicensed`, `LicensePermanent`, `ImplementsLedger` | holds |
| `sponsored_live` | with a moving price: is the License for the frozen amount, and is a final payment made in time settled? | `LicenseBacked`, `PolledPaymentSettles` | holds |
| `settlement_race` | two requests at once, a crash: are Licenses, certificates and royalties backed by payments, is a settled order complete, and does a concluded one stay so? | `LicensesArePaid`, `SettledIsComplete`, `ConcludedStays`, `LicenseIsPaid`, `CertificatesArePaid`, `SettledLegsWereSent` | holds |
| `retries` | one request at a time, a client that repeats: is a confirmed draft registered, a paid order concluded, and partial only when it is, an item licensed once? | `LicensedOnce`, `ConfirmedIsRegistered`, `PaidOrderConcludes` | holds |
| `negotiation_race` | concurrent rounds and edits: logged prices, fair deals | `PriceIsLogged`, `FairDeal` | holds |
| `negotiation_list` | two buyers, two currencies: do sessions stay apart, and does the list price sell? | `OffersStayApart`, `ListPriceSells` | holds |
| `registration_drafts` | two workers that may die: is every work in the shop proven, does a token register one work, and with one worker the one that was confirmed? | `AssetsAreProven`, `TokenRegistersOnce`, `OneWorkerRegistersAsConfirmed` | holds |
| `buyer_shop` | a model that calls tools in any order, payments that get lost, land late or lose their answer: do Licenses say what was paid, are negotiations paid at a price they accepted though it is rewritten, are approvals used up, is a reported purchase a License? | `LicenseIsWhatWasPaid`, `NegotiationsArePaidAsAccepted`, `ApprovalsAreUsedOnce`, `PurchasesAreLicensed` | holds |
| `progress` | what has to happen in the end: purchases and overlays end, mirrored events are shown, both royalty legs are recorded, each paid once but for calls that raised after sending | `RoyaltyPaidOnce`, `EveryPurchaseEnds`, `OverlayEnds`, `MirroredIsShown`, `RoyaltiesAreRecorded` | holds |
| `site` | seven parts of the site: what pages show, who signs, what a proof opens, what the audit says, what a link serves | `NothingPassedOver`, `ShownIsDone`, `NoneBelowCursor`, `SignerIsShown`, `DownloadsAreProven`, `ChallengesAreUsedOnce`, `ChangesAreRecorded`, `SuccessIsTheDeal`, `FilesStayWithMessage`, `LinksServeTheWork` | holds |
| `batch_twice` | two payments, two requests: is an item licensed once? | `LicensedOnce` | violated |
| `buyer_page` | is a payment made on the page of a work ever licensed? | `PagePaymentIsLicensed` | violated |

The two violations are sentences of the repository that the code does not keep;
`PROJECT.json` quotes them under `findings`. `LicensedOnce` is true of one request at a time
(`retries`) and false of two (`batch_twice`). `SignerIsShown`, `ChallengesAreUsedOnce`,
`FilesStayWithMessage` and `OneWorkerRegistersAsConfirmed` are about one worker, and the
second conjunct of `SuccessIsTheDeal` about one run at a time; their comments say what two
do. The runs nevertheless let two act, because the number is chosen at the start.

### Bounds

Two requests are enough for every race found: each race is between the read of one request
and the write of one other. One signature tests replays, two test competing payments. One
order is enough for a batch, whose code relates nothing across orders; two intents and two
assets are there because the uniqueness of a signature, and payees, do relate them. Prices
take two values so that a moved price differs. In `Negotiation` terms and offers range over
two amounts that are not multiples of `Tick`, so that rounding matters. Two works, drafts'
tokens and ids in `Registration` make a token outlive the files it was issued for. In the
feeds, three events with a window of two and a queue of one make both overflow. In `StepUp`
lifetimes are zero ticks, so that the next tick expires them; in `Delivery` a right of one
day is looked at for three.

Bounds that restrict only the environment, or failures that may happen anyway: `MaxCrashes`
workers die; at `MaxCerts` certificates further issuing fails; at `MaxLog` rounds of a
session only list-price offers come; `MaxEdits`, `LastSale` changes of the terms (in
`Checkout` also of a final price by other conversations); `MaxLost` calls of a leg's
transfer raise after sending (one in `progress`, none in `settlement_race`, which asks only
what a leg recorded as settled stands for); `MaxTurns` decisions of the user; `MaxBreaks`
broken connections; `MaxForeign` events of other registrations and `Joins`, how far those
had come; `LastEvent`, `LastNow`, `LastDay`, `LastNonce`, `LastCall`, which end the clock,
the events and the requests.

Symmetry is used for requests, signatures and the like in runs without liveness. Runs
without deadlock checking are those in which everything may be over: all assets deleted, all
events recorded, every request answered (`settlement_race`, `progress`, `site`).

### Fairness

- Workers are weakly fair everywhere: gunicorn runs a request until it answers.
- Row locks (`Lock`, `Expire` of `SponsoredPayment`) are strongly fair: the database grants
  a lock that is released again and again.
- The RPC node (`ProbeAnswered`, `Verify`/`Answered`) is strongly fair per payment, and the
  services a registration calls are strongly fair per work: they may fail any number of
  times but not for ever, which is the outage that the 503 answers and the polling loops are
  written for.
- Clients submit again (`Receive`, `Submit`, `Retry`), as the polling loops of the agent and
  of the pages, pay.sh's redelivery, and the workspace with a confirmed draft do. `Submit`
  ends with the License: nobody is assumed to replay a settlement that was answered.
- Of royalty transfers nothing is assumed, nor that the database takes a grant: such
  failures are outcomes the properties name (a leg recorded as failed, a partial order).
- `BuyerAgent`: a tool that has been called goes on; it polls at most twelve times, so
  nothing is assumed about the chain, except in `buyer_page`, where the page polls for ever
  and its payment lands.
- `RegistrationFeed`: page and server go on; that the stream ever answers is not assumed.
- `EventFeeds`: listener, queue and timer go on; whether the listener can be installed is
  left open.
- Nothing is assumed of sellers, crashes or buyers who have not paid.

## 5. The proofs

Eight modules hold theorems about every value of the constants: any number of requests,
payments, works, prices, rounds, events and crashes. Six are about one component each, with
one lemma per part of an inductive invariant `IInv`, a theorem `Invariance`, the type
invariant, and the properties that follow; `SettlementProofs` and `SiteProofs` are about
compositions. Every safety property of the passing runs, invariant or action property, is
stated by a theorem. The type invariants (`TypeOK`) are not repeated among the properties of
the runs, which are kept for what a type does not say; `SiteProofs` proves the types its
parts need and no more.

**`SponsoredPaymentProofs`**: `TypeOK`, `LicenseBacked`, `BoundIffLicensed`,
`MemosFollowPayment`, `LicensePermanent`, and the refinement `ImplementsLedger`. `IInv`
joins the properties with three facts that a step needs: `References` (a bound intent and
every request name rows that exist), `VerifiedIsPaid` (a request past the Solana check holds
a payment that is final and matches its intent, which stays true since amounts are frozen
and final transactions do not change), and `BlockExclusive` (two requests are never inside
the block for one intent: the row lock). Without the last one two requests could each
license one intent, without the second a License could be committed for a payment that was
never checked. The refinement maps a final matching transaction to a payment of its intent,
and a License to a grant; `Commit` is the step that maps to `Grant`, `Finalize` to `Pay`,
everything else stutters.

**`BatchSettlementProofs`**: `TypeOK`, `LicensesArePaid`, `SettledIsComplete`,
`ConcludedStays`. Without a lock an order cannot be trusted to stay as it was read; what
makes the properties true is what a request carries: `ReadQuoted` (a request past the
screening read a quoted order), `GrantingIsPaid` (it has seen a payment of the total),
`HandIsOfOrder` and `TodoIsOfOrder` (it goes through items of its order only), and
`Accounted`: each item is still to do, was missed, is in hand, or has its License. When
`todo` is empty and nothing was missed, `Accounted` is `SettledIsComplete`. `Growth` (rows,
payments and Licenses only grow) carries the facts over the steps of the others.

That an item is never licensed for two payments (`LicensedOnce`) is false of two requests,
as `batch_twice` shows. `OneRequestLicensesOnce` says when it is true: with one request at a
time, as long as no worker has died. Then what the request has read of its order is still
what the row says (`ReadIsCurrent`), and every License is of the payment its order was
concluded with, or of the one request that is granting (`OfOnePayment`). Both conditions are
needed: a worker that dies after its first grant leaves an order quoted that has a License,
and the client may come back with another payment.

**`SettlePipelineProofs`**: `TypeOK`, `LicenseIsPaid`, `CertificatesArePaid`,
`SettledLegsWereSent`. A request checks its payment once and then works from its copy, while
prices move and parents vanish. `JobsAreSound` says what the copy is worth at each program
point; `WorldMoves` is why it stays so: a confirmed transaction never changes, and a work
may lose its parent but never gets one. A request that read no parent has therefore to be
about a work without one for good (`JobIsSound`), or it would have paid the seller of a
derivative work directly.

`RoyaltyIsPaidOnce`: with one request at a time a transfer that was reported is not sent
again, while the world is `Undisturbed`: a leg is sent at most once more than its transfer's
call raised after sending (`unheard`), for each of those is recorded as FAILED and paid
again by a replay. `LegsKept` says that a leg that was sent and heard of is written down as
settled or in the hand of the request that sent it, and that a request about to send has
seen that it is not settled. A worker that dies between the transfer and its record, and the
deletion of a work, with which its Licenses and legs go, both make the same payment pay
again, so the property speaks of a world without them.

**`RegistrationProofs`**: `TypeOK`, `AssetsAreProven`, `TokenRegistersOnce`. The first needs
that two requests never hold one asset id (`IdsApart`) and that a request past a service has
left its trace (`TracesLeft`). The second is not what `consume` was written to ensure, as it
writes nothing: it holds because everything that bears a token, drafts, requests and assets,
bears one set of files with it (`OneWork`), and the hash of the files is unique
(`WorksApart`).

`OneWorkerIsEnough` is about what a creator was shown. With one worker requests come one
after the other (`OthersRest`), so that a confirmation reads a draft that is still so when
the token is written (`ConfirmsCurrent`). From then on drafts, requests and works that bear
the token bear it with what was shown (`DraftsAsShown`, `JobsAsShown`, `AssetsAsShown`), a
draft stays as it was consumed (`DraftIsHeld`), and it is linked to the work of its own
registration (`MarksItsAsset`, `LinkedIsOwn`). Deletions come in between at any time, and
the worker may die at any step.

**`NegotiationProofs`**: `TypeOK`, `PriceIsLogged`, `OffersStayApart`, `FairDeal`.
`VerdictIsFair` goes through the engine: rules, clamp and the ACCEPT above the offer that
becomes a counter offer, with `Rounding` for the order of rounded prices. A request saves
the copy it read over whatever the row has become; `CopiesAreOwn` says that the copy was a
consistent row of the same buyer and currency, and that the row it overwrites is of this
buyer too, or went with the asset, so that status, price and log always come from one copy
(`SavedRow`).

**`BuyerAgentProofs`** (with `Checkout`): `TypeOK`, `LicenseIsWhatWasPaid`,
`NegotiationsArePaidAsAccepted`, `ApprovalsAreUsedOnce`, `PurchasesAreLicensed`. The price
of a purchase is read up to three times while the owner edits it and other rounds rewrite
the negotiation; `CallIsKnown` says what the tool holds at each point: the offer it was
quoted, one that the negotiation it names has accepted (`QuoteIsAgreed`), and from the
broadcast on a payment of that offer (`Broadcasts`). The final price itself is no use in an
invariant, since the next round may replace it; what stays is the currency and the set of
accepted prices (`Agreed`, `PricesAreAccepted`). `ChainGrows` and `DealsGrow` carry the
facts over the steps of the seller, the page, the chain and the other conversations.
`ApprovalsAdd` counts approvals like coins: each is free, in use by the purchase that runs,
or signed away.

**`SettlementProofs`** is about `MCSettlement`. The composition gives the pipeline variables
of its own names, so that its theorems come from an instance of `SettlePipelineProofs` over
them (`Pipeline`); `SameWorld` and `SameRequests` say that a step of the one instance is a
step of the other, and `PartsBehave` that a behaviour of the composition is one of batch
orders and one of the pipeline. `LicenseIsPaid`, `CertificatesArePaid` and
`SettledLegsWereSent` of the run follow.

**`SiteProofs`** is about the seven parts of `MCSite`, a section each. A part keeps an
invariant over its own variables, and over the steps of the others because they leave these
alone.

- *Overlay* (`NothingPassedOver`, `ShownIsDone`). On the server, `RowsInOrder`: the rows of
  one registration have their events in the order of their ids, a failure comes last, and
  only the newest can be uncommitted. On the page, `Ladder`: all before a step that has
  begun is done, and what follows a step that is done has begun; `ComingIsNew`: no row that
  may still arrive is older than what the page shows, and none of its registration comes
  after an error. This is why a frame of the stream never finds a step out of turn, and why
  passing a row that is not of this registration loses nothing (`Passed`). `DoneIsRecorded`
  ties each step to what its registration had recorded.
- *Feeds* (`NoneBelowCursor`). Every answer under way holds, with an event, all that was
  committed in order before it and not polled yet; so whichever answer moves the cursor, it
  brings what lies below.
- *Wallets* (`SignerIsShown`). `Under` says what the one worker has done of an activation at
  each of its steps: until it clears, the shown wallet signs; while it sets, none is active;
  before it shows, exactly the new one is. `Deleted` says who takes the place of a deleted
  wallet, which needs that a set of ids has a latest one.
- *Passkeys* (`DownloadsAreProven`, `ChallengesAreUsedOnce`). Requests hold copies of the
  session, and any of them may be written back: the invariant says of every copy what it
  says of the session. A grant in a copy is backed by a proof at least as recent; with one
  worker, a challenge in a copy has not been accepted (`Unused`), and a deletion under way
  leaves another way to log in.
- *Assistant* (`ChangesAreRecorded`, `FilesStayWithMessage`). `Audited` says for each point
  of a request what its row and the tables hold. With one message at a time the files that a
  message is about to take are still unsent (`StillUnsent`).
- *Sandbox* (`SuccessIsTheDeal`). A run that pays knows its payment; with one run at a time
  nobody else has changed what it agreed on (`OneRunAtATime`).
- *Downloads* (`LinksServeTheWork`). A License lasts the right it was granted for
  (`GrantedOnce`), a link opens its License until the work is deleted (`LinksOpen`), and
  `Fetched` says what a download has read at each of its steps.

Assumptions: `NoneAssumption`, `RegistrationNone`, `RowsAssumption`, `ShopNone`,
`ApprovalNone` (the null value is no element of the other sets), `CrashesAssumption`,
`BoundsAssumption`, `EditsAssumption`, `TurnsAssumption`, `LimitAssumption` (natural
numbers), `RequestsAssumption` (a finite number of requests), `DerivativesAssumption`,
`WiredAssumption`, `SaleableAssumption`, `CurrenciesAssumption`, `PricesAssumption`, and
`AmountsAssumption` of `Negotiation` (amounts are natural numbers and `Tick` is a positive
one). `SingleAssumption` of `MCSettlement` says of its constants what `SettlePipeline`
assumes of its own, and the seven of `MCSite` the same for its parts: bounds and ids are
numbers, sets that are counted are finite, `None` is none of the values it stands beside,
and a registration begun in another page has not recorded its last event. TLC evaluates each
of them in the runs.

Only model-checked: the liveness properties (`PolledPaymentSettles`,
`ConfirmedIsRegistered`, `PaidOrderConcludes`, `ListPriceSells`, `EveryPurchaseEnds`,
`OverlayEnds`, `MirroredIsShown`, `RoyaltiesAreRecorded`), which rest on fairness and are
out of reach of the prover; and what the two violations show. `LicensedOnce` is proved for
one request and no crash, `RoyaltyPaidOnce` for one request; what two requests can do is the
violation above and section 7. Where another property speaks of one worker, one run or one
message at a time, the condition is part of the property, and the theorem has no other.

## 6. What is not modelled

- **Content analysis** (`image_fingerprint.py`, `manifest_service.py`, `gemini_service.py`):
  hashes, watermarks, perceptual similarity, prompts and the parsing of a model's answer.
  They are functions of one input; their verdicts are choices in `Registration`,
  `Negotiation` and `Assistant`.
- **Solana service**: encoding, RPC, and transaction building. What a transaction moved, to
  whom, with which memo and whether it is final are what the channels model.
- **Royalty split**: the shares are one exact subtraction; the legs, their transfers and
  rows are modelled. A creator who derives from an own work gets a single leg, a case with
  one leg less.
- **Seller agent (A2A)**: forwards to the HTTP endpoints and keeps no state. Its fulfilment
  by payment signature is in `Delivery`.
- **Language models**: the buyer agent's model may call any tool at any time; its streaming
  and the rendering of `demo.py` are left out, as are the assistant's prompts and summaries.
- **Catalogue, sales, library, dashboard**: read-only queries and pages.
- **Keys and signing, BigQuery, Pub/Sub**: adapters, written best-effort and read by no
  decision.
- **Subscriptions**: `get_registration_service` passes no subscription service, so that the
  quota is never checked.
- **One License table**: each channel is modelled with the rows it writes itself; that the
  unique key refuses a signature of another channel too is not shown.

## 7. Known divergences without a run

Met while modelling. Each is a claim of the repository, or an expectation its reader would
have, that the code does not keep; the properties are stated so that they say what is true.

Payments and Licenses:

- `ip/views_api.py:803` writes EXPIRED over a settlement that was committed after the row
  was read, and repeats are then answered with 409
  (`docs/sponsored-usdc-gasless-payment.md:34` promises the License again).
- `batch_services.py:246` makes a License key of up to 131 characters for a column of 90: on
  PostgreSQL no batch item would be licensed. The key is per item, so that one payment can
  conclude two orders of the same total; and a request that loses the race for a key reports
  a licensed item as failed, possibly writing partial over settled. A worker that dies
  after its first grant leaves the order quoted, and a second payment then licenses the item
  again, also with one request at a time.
- `batch_services.py:265` marks a failed item with `retry=True`
  (`docs/specs/SPEC-007-batch-licensing.md:31` asks for retry information), but the order is
  PARTIAL by then: the same payment is answered from the rows (214-218), another one is
  refused (222), and nothing ever grants the item. `PaidOrderConcludes` therefore allows
  partial for an order that is short of a License.
- `settlement/services.py:279` writes a new certificate over the one of an existing License
  when a settlement is replayed.
- `royalty_service.py:132-171` reads, sends and records a leg in three steps: two requests
  at once, or a crash in between, send it twice; so does a transfer whose call raises after
  it was sent, which line 160 records as FAILED. `solana_service.py:411-421`: the transfer
  itself is not implemented, so in the source as it is every leg stays failed.
- `ip/views_api.py:298` deletes the Licenses of an asset that `settlement/models.py:20`
  protects as legal records. With them goes the memory of their payments: a signature can
  then be used for another work of that price and payee, and its royalties are sent again.
- `ip/views_api.py:1185`: when the pipeline fails after the facilitator has charged, the
  buyer has paid and has no License; and a SOL price edited between the terms and the
  settlement refuses a payment that was made (400).
- `tools.py:627-655`: the approval gate does not cover the sponsored USDC tool
  (`docs/buyer-agent-demo-ui.md:31-32` reads as if it did). After twelve unanswered polls a
  repeated call makes a new intent and pays again. An accepted session can be used for any
  number of purchases.
- `creator_action_service.py:121-124` writes the legacy `target_price_usdc`, which x402
  prefers (`ip/views_api.py:1245-1252`), while the sponsored route and the pages read
  `target_amount`: the routes then quote different prices. The SOL routes quote a
  `target_amount` that is labelled USDC.

Negotiation:

- `negotiation_engine.py:164` rounds after clamping, so a USDC deal can be up to half a
  sixth decimal below the floor (`FairDeal` allows for the rounding).
- `negotiation_engine.py:76` promises that a late offer above the floor is accepted; the
  model may still counter it.
- `negotiation/views_api.py:155` accepts further rounds on an accepted session and rewrites
  the final price ("ACCEPT finalises the session", line 153): `PriceIsLogged` therefore
  speaks of the last ACCEPT of the log, and `NegotiationsArePaidAsAccepted` of a price the
  session accepted at some time. A SOL payment sent before such a rewrite is refused (400).
- `negotiation/views_api.py:163` saves a stale round log: rounds of a concurrent request get
  lost. Line 104: two first requests at once make two sessions, and every later one of that
  buyer fails with MultipleObjectsReturned.

Registration and drafts:

- `registration_draft_service.py:65` and `:81`: with two workers an asset can be registered
  with terms that were saved after the confirmation (`ip/views_api.py:183` says otherwise);
  `OneWorkerRegistersAsConfirmed` holds with one.
- `views_registration_stream.py:70-71` ("The cursor is guaranteed to precede the flow's
  first event"): not when the page starts after its 1500 ms without the stream, nor after a
  reconnection, which draws a new cursor. When the answer of the POST is lost, the overlay
  shows a failure although the work is registered; a registration in a second page can take
  over the overlay of the first.

Feeds:

- The window of 200 documents is shared by all owners, the queue of 32 drops its oldest
  batch, and a row that is stamped earlier but committed later is skipped by `created_at >
  since`. A page that polls the sandbox from the beginning shows old events, and an old
  SIMULATION_FAILED stops its polling.

Accounts:

- `shell.js:725` calls one path the only one for wallet changes; saving preferences writes
  `creator_wallet` too. Two first wallets saved at once are both active; a worker that dies
  in `activate_wallet` leaves none active. `views_assistant.py` lists drafts (338) by one
  wallet and sales (354-359) by the other.
- `accounts/views.py:246-267`: changing the password asks for the current one, so an account
  without a password cannot follow the advice to set one before deleting its passkey. Two
  deletions at once remove the last passkey; two requests at once can use one challenge
  twice.

Assistant, sandbox, delivery:

- `creator_action_service.py`: a worker that dies between a change and `_finish` leaves
  REJECTED over a done change. `_record_expense` says that it reads the row again and
  compares the object in memory.
- `creator_assistant_service.py`: of two messages that send one file at once, the later
  takes it; after a 503 the files stay linked to the failed message, so that a retry is
  refused; deleting a conversation makes its files unsent again and the fallback (236-247)
  may pick one of them; a deletion during the model call leaves an answer without
  conversation or a 500.
- `sandbox/services.py`: runs share the buyer id, so that of two runs one can settle at the
  other's price; the payment is sent before the session exists, so that a first run fails at
  the settlement even after an ACCEPT; and a run can end failed although its License was
  granted.
- Delivery: `is_licensed` has no caller outside tests; nothing purges originals. Fulfilment
  by signature answers a link that `/files` refuses when the License belongs to an account;
  a replay after the right has expired answers the dead link; a work deleted in the middle
  of a download may be delivered without its gallery.
