# Verification of Green Garden API

Green Garden API is the backend of a plant shop: a FastAPI application over
PostgreSQL that serves a public storefront (catalogue, quote, checkout, reviews,
chat) and an admin panel (orders, customers, plants, reviews, accounts). This
directory holds TLA+ models of its core logic, the TLC configurations that check
them, and TLAPS proofs about them. Paths below are relative to the repository;
`orders/service.py` stands for `app/features/orders/service.py`.

## The system

One uvicorn process serves all requests; a request runs until an `await` and then
others run. Each request has one SQLAlchemy session (`core/database.py`), hence one
PostgreSQL transaction at READ COMMITTED at a time: every statement sees what is
committed when it starts, `SELECT .. FOR UPDATE` waits for a row and reads its last
committed version, and an `UPDATE` names the columns that differ from what the
session loaded, with no version check. A row the session has loaded keeps the
attributes it has when it is selected again. All concurrency of the shop is therefore
the interleaving of such transactions between their statements, and all shared state
is in the tables; outside them are the Weaviate collections, the storefront's cache,
the browsers' cookies and the limiter's counters.

| Component | State | Operations | Hard because |
|---|---|---|---|
| Orders (`orders/`) | `orders`, `order_items`, `plants.stock`, `customers` | `create_order`, `update_order_status` | row locks, a lost race for a new phone, stale reads, a shared number sequence |
| Pricing (`orders/service.py`, `public_router.py`) | none of its own | `quote_order`, `price_order`, `bank_transfer_info` | thresholds, rounding, quote and checkout apart in time |
| Payments (`payments/`) | `payment_transactions`, `orders.payment_status` | `process_sepay_webhook` | repeated, parallel and failing deliveries; ambiguous references |
| Public checkout limit (`shared/bot_protection/`) | counts `orders` | `check_checkout_phone_limit` | check, then act; window edges |
| Customers (`customers/`) | `customers` | create, update, (de)activate, resolve for an order | the phone is the identity |
| Plants (`plants/`), categories (`categories/`) | `plants`, `plant_images`, `plant_slug_history`, `categories` | create, update, activate, images, lookup by slug | slug history, races on unique columns, stale copies |
| Storefront notification (`shared/storefront_notify.py`) | pending tasks; the storefront's cache | notify after commit | fire and forget |
| Reviews (`reviews/`) | `reviews` | submit, moderate, public pages | late and lost notices and page fills race with renames; pages under old slugs |
| Knowledge (`knowledge/`) | two Weaviate collections | sync on every plant write, full reindex, FAQ search | a mirror replaced in two steps that may fail; colliding ids |
| Chat (`chat/`) | one conversation per request | tool rounds, streaming, markup guard | chunk boundaries, exhausted rounds, failed statements |
| Notification inbox (`notifications/`) | `notifications` | staged with an order, listed, marked read | offset paging over a growing list |
| Admins, auth (`admins/`, `auth/`) | `admins`, cookies | accounts, login, refresh, logout | edits on stale rows, tokens nothing revokes |
| Rate limiting (`core/rate_limit.py`) | counters in a library | per-address limit, failed-login limit | check, then act |
| Overview (`overview/`) | none | seven aggregate statements | each sees another state, and stale requests undo what it saw |

How they meet: a public checkout passes the phone limit and then runs `create_order`
in the same transaction, which resolves the customer, locks plants, prices the cart,
takes a number and commits order, items, stock and inbox notification together; an
admin moves the order on, and a cancellation gives stock back; a SePay delivery
settles the order; every catalogue change tells the storefront and the knowledge
index after its commit; moderated reviews tell the storefront; the chat reads
plants by SQL and texts from the knowledge index; dashboard and inbox read what
checkouts write.

## Modules

| Module | Models | Checked with |
|---|---|---|
| `Orders` | `create_order`, `update_order_status`, and the edits of plants and customers around them | `MCOrders` |
| `OrderBook` | what those transactions promise: orders placed, moved and cancelled at one instant | property of `Orders` |
| `Pricing` | `price_order` in the quote and in the checkout, the transfer amount | `MCPricing`, `MCStorefront` |
| `CheckoutLimit` | the hourly limit per phone in the checkout's transaction | `MCCheckoutLimit`, `MCStorefront` |
| `Payments` | `process_sepay_webhook` and its deliveries | `MCPayments`, `MCStorefront` |
| `PaymentLedger` | what the webhook promises: one entry per bank transaction | property of `Payments` |
| `Chat` | routing and streaming rounds, catalogue tools, `DsmlStreamGuard` | `MCStorefront` |
| `Accounts` | admin accounts, login, cookies, the failed-login limit | `MCAdminPanel` |
| `Overview` | `build_overview` beside orders that come in and requests that change their status | `MCAdminPanel` |
| `Inbox` | paging through notifications while they are added and marked | `MCAdminPanel` |
| `Reviews` | submission, moderation, renames of plants, the notices of both, and the storefront's pages | `MCAdminPanel` |
| `Catalogue` | writes of plants, images and categories, slugs and their history, notices | `MCCatalogue` |
| `PlantText` | how a plant's text becomes chunks and object ids | `MCCatalogue` |
| `Knowledge` | the index as a mirror kept by the API and by the reindex script; FAQ search | `MCCatalogue` |
| `OrdersProofs`, `CatalogueProofs`, `ChatProofs`, `KnowledgeProofs`, `OverviewProofs` | theorems about the module each is named for | tlapm |
| `StorefrontProofs` | theorems about `Payments`, `CheckoutLimit` and `Pricing`, and about `MCStorefront`, which composes them with `Chat` | tlapm |
| `AdminPanelProofs` | theorems about `Accounts`, `Inbox` and `Reviews`, and about `MCAdminPanel`, which composes them with `Overview` | tlapm |
| `Sums` | lemmas about sums over finite sets, for every set: `Pricing` and `Overview` add up with the library's folds | tlapm |

`MCStorefront`, `MCAdminPanel` and `MCCatalogue` check several modules in one run: the
components in each share no state in the models, so a behaviour is one component's
(`part` says whose) and the others stay in an initial state. They extend the modules, so that a
run states the very invariant that a theorem states; to that end names differ among the modules of
one run (`LimitNext`, `ChatNext`, `IndexNext`), and `None` is declared once, in `Nothing`. What
components do share is modelled inside the module that has it, as an action of the
other side (checkouts and status requests in `Overview`, a checkout in `Inbox`, renames in `Reviews`, a
cancellation in `Payments`, an edit of a plant in `Orders` and `Pricing`).

Operators named `X_Something` next to a definition `X` are faults: `X` as a plausible
bug would have it. They are used in no action; substituting one for its `X` makes TLC find
the property listed with it in `PROJECT.json` violated, which is how we know that
the property depends on that part of the code.

### Orders

Variables hold committed rows (`plant`, `orders`, `customers`) and what each
transaction in progress has read or will write (`phone`, `want`, `seen`,
`newCustomer`, `number`, `job`). A transaction's locks are derived from these: it
holds the row of `p` while `seen[t][p]` is not `None`, the uncommitted customer
while `newCustomer` holds, the advisory lock while `number` is not `None`. Steps are
cut where the code awaits something another transaction can change:

| Action | Code |
|---|---|
| `Submit` | the request arrives (`orders/router.py`, `public_router.py`) |
| `ResolveCustomer`, `InsertCustomer` | `resolve_customer_for_order`: the SELECT by phone, the flush of a new row |
| `LockPlant` | one row of `_lock_plants`, in id order |
| `CheckOrder` | the checks on the locked rows, and the date read for the number |
| `GenerateOrderNumber` | the advisory lock and the sequence |
| `CommitOrder`, `RollbackOrder` | commit; any exception, a lost connection, the process dying |
| `LoadOrder` | `get_order` and `_ensure_transition_allowed`, on an unlocked read |
| `LockPlant`, `CommitStatus`, `RollbackStatus` | `_restore_stock` and the rest of `update_order_status` |
| `EditPlant`, `EditCustomer`, `Midnight` | other writers of the rows, and the clock |

The database constraints (`ck_plants_stock_non_negative`, unique order numbers) are not
guards of the model: the properties show that the code never needs them. The unique
phone is modelled, because the code relies on it. Prices are in `Pricing`; here a checkout
fails for money reasons through `RollbackOrder`. Plants are never deleted by the code; one
that is asked for and does not exist is listed `absent`.

Abstractions: `supply` and `restocks` are history variables for the properties. An order row
update waits for nothing here because the flush and the commit of `update_order_status` follow each
other without another lock in between. The notice to the storefront that follows a commit
changes no row and is modelled, for plants, in `Catalogue`. Changing a customer's phone is not
modelled: with it, a circle of three (a checkout holding plants, the update, a checkout holding the
new phone) is possible, which PostgreSQL ends by aborting one; `NoDeadlock` is a statement about the
order transactions themselves.

### Payments

A delivery goes through `Deliver`, `InsertTransaction` (INSERT .. ON CONFLICT DO NOTHING,
which waits for the same transaction uncommitted elsewhere), `LockOrder`, `Settle` and `Reply`;
`Fail` is any failure before the commit, and a reply may be lost. The order side is two
actions, `PlaceOrder` and `CancelOrder`, that touch the columns the webhook reads.
References are identified with the orders they name: `CandidateReferences` is the
set of orders named by `code` and by the text. As in the code a cancelled order can be paid.

### Pricing

One cart of lines is quoted any number of times and checked out once, with catalogue edits
in between. Money counts half VND in the checked instance (`Unit = 2`), so that a total can
have a fraction, as `Numeric(12, 2)` can; `TransferAmount` is `quantize(Decimal("1"))`, half to even.
A quote is forgotten when the catalogue is edited: `QuoteHonoured` speaks of current quotes, and of an older one the code promises nothing.

### CheckoutLimit

Time is ticks of the database clock. `start` is the time the transaction began, which
PostgreSQL's `now()` returns throughout: the check's window ends there and the order's `created_at` is
there. An admin's order is counted, is not limited, and its phone is not rewritten.
An admin changing a customer's phone moves its orders to the new number; that is not modelled.

### Chat

A stream goes through routing rounds (a completion that may ask for tools, at most
`MAX_TOOL_ROUNDS`), then streaming rounds (`Ask`, `Feed` chunk by chunk, `EndOfReply`), then
ends done, timed out, in error, or with the shopper gone. Characters are the handful the marker
patterns tell apart: `<`, `/`, the bar (the code accepts two kinds), a word of two letters for
`DSML`, and one other. `Feed` is `DsmlStreamGuard.feed` with the text it lets through;
`EndOfReply` is `finish`, the choice between native calls and those parsed from markup (how many can be
parsed is a free choice), and the fallback. The first catalogue tool opens the session's transaction;
a statement that fails leaves it aborted for the stream's remaining SQL tools, because nothing rolls
it back (`db`). `FindActivePlant` runs over a shelf in the order of names.

### Accounts

A request is let in by the token of its browser, and its work starts on rows read later;
`copy` is the row the session loaded. Nothing locks it, so `Commit` writes the columns that differ
from a copy that may be stale. Hashing and signatures are ideal: a password matches or not, a
token is what was issued. `failures` is what the limiter (a library, modelled from how `rate_limit.py`
uses it) has ever recorded for an email, and its moving window is `Recent`, the entries of the last `Window`
ticks: `limiter.test` before the password is looked at, `limiter.hit` after. `guesses` records every wrong
password, and how many entries there were at that time, for the property and its proof.
The limiter's storage may be unreachable in production and then lets everything pass; that is left out.
`crossed` records that an admin was deactivated by a request whose own admin was no longer active.

### Overview and Inbox

`build_overview` fixes the day and then runs its statements one by one (`NextStatement`), each over what is committed;
`Place` is a checkout between them. `ReadStatus` and `WriteStatus` are the two halves of `update_order_status`: the status is
read without a lock and checked, any stage further on or `cancelled`, and the new one is written later over whatever the order has become by
then; `RollBack` is a request that ends without its write. So a stale request may take an order out of `completed` or of `cancelled`, here as
in `Orders`. `undone` is a history variable: the orders that left `completed` since the dashboard began. The revenue of one of the
first statements counts them and a later statement does not, which `LaterFiguresCover` allows for by `Missing`, their totals,
and by nothing else. The wait for a plant's row is left to `Orders`. An order's `at` is when its
transaction began, so orders may appear out of order and before `clock`. Orders have one line each. What an `ORDER BY`
leaves open (best sellers that tie, orders of one time, whose ids are random) is a free choice, so
`Best` and `Statement` give the set of answers there may be. `LaterFiguresCover` compares the revenue with the best
sellers only when their list is not cut off by its `LIMIT`.
A reader of the inbox asks for a page, which is a count and then the rows, until a page is not full;
notifications commit meanwhile, with the time their transaction began, and other admins mark
them. The total is counted before the rows are read, so it may be smaller than what is shown, never
larger: `PagingSkipsNothing`.

### Reviews

| Action | Code |
|---|---|
| `Resolve`, `CreateReview` | the slug in the address, resolved; `create_review` |
| `LoadReview`, `CommitReview`, `FailReview` | `set_review_status`, up to its commit or its rollback |
| `NotifyStorefront` | the end of `set_review_status` and the task that sends its notice |
| `LoadPlant`, `TakeSlug`, `CommitRename`, `FailRename` | `update_plant` with another slug: `get_plant`, `_ensure_slug_available` and `_release_historical_slug`, the commit, any failure before it |
| `AnnounceRename` | the end of `update_plant` and the task that sends its notice |
| `StartFill`, `ListApproved`, `Summarise` | the three reads behind a page of the storefront: the plant of a slug, the list, the summary |

A notice names the slugs its request had loaded, because the session keeps the attributes it has. It arrives at some time after
the commit (`Deliver`), or never (`Lose`: the POST fails, the row cannot be read again, or the process dies), and renames, fills and
other notices may happen in between. The storefront is external: it drops the pages a notice names, keeps no page that was being filled
when it was dropped, and asks again. `GetPlantBySlug` falls back to the slug history, so a page may be filled and kept under a slug
that its plant no longer has. `missed` is a history variable: the pages whose notice was lost, or whose plant got its slug after a moderation had
loaded the earlier one and before it committed. `PagesShowDecisions` speaks of the pages that are somebody's own: the shop's, and that of a
plant under the slug it has now. It excepts a page while a notice that names it is still to come (`Due`), which is as long as the
code leaves it wrong on purpose, and a page that is `missed`, until it is next dropped.

Abstractions: the plants are active and none is created, so a slug passes from plant to plant only by renames. The check of a slug and its release
from the history are one step here, `Catalogue` takes them apart; so are the two lookups of `get_plant_by_slug`, and the end of a request
and the sending of its notice, in which the re-read can fail or the task can be lost, which is all that is left to happen. Renames that
reach their commit may wait for one another's row of the history (`Deleting`).

### Catalogue

Every write is: load the row (`copy`), check the slug, release it from the history, commit, notify. The
columns are `slug` and `active`; every other column behaves like `active`. `dirty` is the set of pages (one per
plant slug, and the two listings) that changed since the storefront was last told so; `notices` are
tasks created by `notify_storefront`, each of which is one POST that may fail, and which die with the
process (`Crash`). `excused` holds the pages whose notice was lost, or misnamed because the
request worked from a stale copy.

### PlantText and Knowledge

`PlantText` computes, for a plant's Markdown in two languages, the chunks and their object ids: a locale, a
key of the section (which drops accents and case) and a counter per key. `Knowledge` uses these ids
for every insert, so that two chunks with one id would overwrite each other. The API's sync deletes and then inserts
without giving way to other requests (it is synchronous code on the event loop); the reindex script is another
process and interleaves with both calls. Any call may fail or store only some of its objects, and the API
only logs it. `unsure` holds the plants of which the index may be wrong, and why is in the two actions that
set it. FAQs are replaced from a snapshot in one wipe and one insert.

## Runs

| Run | Bounds | Shows |
|---|---|---|
| `orders_serial` | 2 plants with 0 or 1 unit, 2 checkouts, 1 phone, 1 admin, 2 days, carts of up to 1 unit per plant | `TypeOK`, `Conservation`, `GapFreeNumbers`, `NumberStaysFree`, `OneCustomerPerPhone`, `PipelineForward`, `ImplementsOrderBook` |
| `orders_concurrent` | as above with 2 admins and one day | `NoOversell`, `LockedRowsCurrent`, `NoDeadlock` |
| `orders_live` | 2 plants, 2 checkouts, 1 admin | `CheckoutAnswered`, `StatusAnswered` |
| `orders_restored_twice` | 1 plant, 1 checkout, 2 admins | `RestoredOnce` fails |
| `storefront`, payments | 2 orders, 2 bank transactions from 5 kinds, 2 parallel deliveries, 2 amounts | `PaidOnce`, `PaidExactly`, `AckedIsRecorded`, `RecordedOnce`, `ImplementsLedger`, `TypesOK` |
| `storefront`, limit | 4 public checkouts and 1 admin order of one phone written in two ways, limit 2, window 3 ticks, pool 2 | `BoundedOvershoot`, `RetryAfterIsTight` |
| `storefront`, pricing | 2 plants, 3 prices, 2 lines of up to 2 units, stock up to 2, threshold 8, largest total 13 | `ChargedForWhatLeaves`, `QuoteHonoured` |
| `storefront`, chat | every text of up to 2 tokens and every whole or cut-off marker with text around it, in every division into chunks; 3 routing and 2 streaming rounds, up to 2 calls; 3 plants | `GuardExact`, `NeverSilent`, `ExactNameFirst` |
| `payments_live` | 1 order, 2 transactions, 2 deliveries | `EventuallyRecorded` |
| `payments_code_first` | 2 orders, 1 transaction | `CodeComesFirst` fails |
| `pricing_threshold`, `pricing_transfer` | as `storefront` | `ThresholdPaysFee` and `ShownAmountSettles` fail |
| `checkout_limit_overlap` | as `storefront` | `AtMostLimit` fails |
| `admin_panel`, accounts | 2 admins, 2 emails, 1 password, 2 browsers, 2 parallel requests, 3 logins and edits, access for 1 tick, refresh for 2 | `SomeoneActive`, `SessionsEnd`, `TypesOK` |
| `admin_panel`, logins | 2 emails, up to 5 failed logins by 2 parallel requests, a limit of 1 failure in 2 ticks | `GuessesBounded`, `TypesOK` |
| `admin_panel`, overview | 2 plants, up to 2 orders at first, 2 status requests, 2 checkouts or readings of a status, days of 2 ticks, two months | `LaterFiguresCover` |
| `admin_panel`, inbox | 3 notifications, pages of 1, 1 other admin | `PagingSkipsNothing` |
| `admin_panel`, reviews | 1 review, 1 plant, 2 slugs, 2 moderations one after the other, 2 parallel renames and 2 in all, 1 fill at a time, 1 lost notice | `PagesShowDecisions` |
| `catalogue`, plants and categories | 2 plants, 1 category, 1 image, 3 slugs, 2 parallel requests, 3 requests in all | `UrlsStay`, `ChangesAnnounced` |
| `catalogue`, knowledge | 1 plant with 2 texts of several chunks, 2 parallel writers, 2 writes, 1 script, 1 failure, 2 FAQ snapshots | `MirrorExact`, `ReindexRepairs`, `FaqsOfOneSnapshot`, `FaqAnswerFull` |

Why these bounds are enough to be interesting: with one unit per plant any lost or doubled
update is visible; two plants are needed for locks to be taken in two orders; two checkouts of
one phone race for the customer, the stock and the number; two admins are the least that can
act on one order at once; two days let a checkout cross midnight. Two
deliveries and two transactions are the least that can duplicate and compete. The prices
make subtotals below, at and above the threshold and totals above the maximum.
A limit of 2 with a pool of 2 gives overshoot, and the window is short enough for
orders to leave it. A marker has at most six characters here, so the texts hold every prefix of one, doubled
and embedded. Two overlapping edits and a third cover check, check, write, write, and a rename back. Two
texts with a section key in common, a text without headings and headings that repeat cover the ways ids
could collide. Two status requests are the least of which one can be stale, so that an order leaves `completed` between two figures
of a dashboard. Two renames of one plant, there and back or both from one copy, two moderations in a row and one fill are enough for
a step of each kind to fall between any two steps of another; more reviewers change nothing a page would tell apart. Two plants that compete for a slug
are in `catalogue`; `PagesAreCurrent` is proved for any number of plants and of parallel moderations, renames and fills.

Interchangeable values (checkouts, admins, deliveries, requests, slugs) form symmetry sets, in
no run with a liveness property. In `storefront` the shoppers differ in how they
write their phone, alternately, and begin in their order, which loses nothing since nothing else tells them apart.

`orders_serial` has one admin because two of them break `Conservation` and the refinement;
that is the finding of `orders_restored_twice`, and the serial run shows that it is the
only cause: with status requests one at a time, checkouts in any number of interleavings are
correct. Deadlock checking is off where the model really may stop: every transaction acknowledged,
the cart checked out, every request answered at the end of time.

## Fairness

`Orders`: strong fairness of each request's steps. A waiter of a PostgreSQL lock is queued, so
it is served when the lock is free often enough; a step that waits for nothing runs. Nothing is
assumed about requests being sent, about failures, or about edits.
`Payments`: SePay repeats what is not acknowledged (strong fairness of `Deliver` per transaction), an
answer is sent, and each of a transaction's steps, possible again and again, is taken in the end: a
delivery may fail any number of times but not for ever. The other modules state no liveness: notifications
and syncs are fire and forget, so nothing they do must eventually happen.

## What the code does not do

Runs that are expected to find a violation; each checks one statement of the documentation.

- **Stock restored twice, final status left** (`orders/service.py:536`): `update_order_status`
  reads the order without a lock and never reads it again. Two cancellations at once both restock; a
  confirmation can undo a cancellation. A `with_for_update()` on that read closes both.
- **Phone limit overshoot** (`bot_protection/service.py:85`): overlapping checkouts of a phone all
  pass. `BoundedOvershoot` says by how much: limit - 1 + connections.
- **Code before text** (`payments/service.py:108`): the oldest order named anywhere wins.
- **Threshold** (`orders/service.py:184`): exactly 500,000 VND ships free; README.md:227 says it pays.
- **Shown amount** (`payments/service.py:65`): rounded for the customer, compared exactly.

Observations that the properties have to except, and that are no run of their own:

- After exactly `Retry-After` seconds, to the microsecond, a request can still be refused (the window
  includes its first instant); `RetryAfterIsTight` holds with a second to spare.
- Two admins whose requests overlap can deactivate each other (`SomeoneActive` excepts this by `crossed`).
- A rename committed by a request that loaded an older slug adds that older slug to the history and
  notifies it; the slug in between resolves to nothing and its page stays (`UrlsStay`, `ChangesAnnounced`).
- A second sync that mirrors a copy other than the committed row leaves the index with it, until
  the plant is written again or reindexed (`MirrorExact`).
- A review's notice after a concurrent rename names the old slug, and a lost notice leaves a page as it is (`PagesShowDecisions` excepts both by `missed`).
- No notice of a moderation names a slug that a plant used to have. A page kept under one, which `get_plant_by_slug` fills through the
  history, shows the reviews of the day it was filled until the storefront lets it expire; `PagesShowDecisions` does not speak of such pages.
- The dashboard's revenue may exceed what its best sellers, its chart and its fees account for, by the orders that a stale status
  request took out of `completed` between the statements (`LaterFiguresCover`): the same unlocked read as in the first run above.
- Guesses that overlap pass the login limit together: fewer than (limit + 1) times requests in a window
  (`GuessesBounded`). It is more than limit times requests: a request that is let in while the window has room may
  guess when it has none, and `hit` then adds no entry, so that the older entries leave the window and others
  are let in while that guess still counts. TLC finds that many in a run that is long enough.
- `chat/deepseek.py:296` and `chat/router.py:76` speak of streaming the final answer only; text of a
  round that then asks for a tool has been streamed already.
- With more hits than `_find_active_plant` fetches, the exact name may not be among them (`ExactNameFirst`).

## Proofs

tlapm checks the following for every value of the constants, under the assumption named in each module
(`OrdersAssumption`, `PaymentsAssumption`, `AccountsAssumption`, `CatalogueAssumption`, `CheckoutLimitAssumption`,
`PricingAssumption`, `OverviewAssumption`, `ReviewsAssumption`, `InboxAssumption`, `KnowledgeAssumption`,
`ChatAssumption`): ids that are naturals where their order matters, bounds and prices
that are naturals and limits that are not zero, `None` distinct from all data, finitely many plants and requests (of requests
at least one), disjoint name spaces, names that are sequences of tokens, a month that starts on day 0. TLC evaluates each of them on the instance of a run. Two theorems have a further hypothesis:

- `OneRequestPerOrder`: no two status requests for one order are in progress at once. `get_order` takes no lock, and
  the run `orders_restored_twice` shows what two of them do to each other. What follows from
  the hypothesis is therefore the most that can be said of the code as it is: it is stated of the behaviour and not of
  the constants, so any number of admins may work, on different orders. `WithOneSession` draws the conclusion for
  a shop with one admin, which is what `orders_serial` checks.
- `IdsDistinct`: the objects of one text have distinct ids. `ObjectIdsDistinct` proves that what `PlantText` computes
  satisfies it, for every text and every function from headings to keys: two chunks of a document share a
  locale and a key only if their counters differ.

Each module proves an inductive invariant with a lemma per action or group of actions, and its theorems from that.

| Theorem | Property | The argument needs |
|---|---|---|
| `OrdersProofs!TypesHold` | `TypeOK` | `CheckoutShape`, `StatusShape`: what a request carries is tied to where it is |
| `OrdersProofs!NeverOversold` | `NoOversell` | `ReadyIsSellable`: the checks passed on a locked row still hold at the commit |
| `OrdersProofs!RowsStayCurrent` | `LockedRowsCurrent` | the row locks have one holder |
| `OrdersProofs!NumbersHaveNoGaps` | `GapFreeNumbers` | `DenseNumbers` |
| `OrdersProofs!NumberIsFreeToCommit` | `NumberStaysFree` | `NumberIsNext`: the advisory lock has one holder, and nobody commits a number beside it |
| `OrdersProofs!OneCustomer` | `OneCustomerPerPhone` | `CustomerFound`, beside `IInv`: a checkout past its lookup has inserted the customer or found it, and customers are never deleted |
| `OrdersProofs!NeverDeadlocked` | `NoDeadlock` | `LockPlaces`, `InIdOrder`, `FewLocked`: a holder that waits for a row waits for a larger one than it has, so along a chain of waiters the rows grow, and only finitely many are locked |
| `OrdersProofs!PipelineIsForward` | `PipelineForward`, given `OneRequestPerOrder` | `JobFresh`: the status a request has read is the order's until its commit |
| `OrdersProofs!UnitsRestoredOnce` | `RestoredOnce`, given `OneRequestPerOrder` | `RestocksCounted`: an order's restocks are 1 if it is cancelled and 0 otherwise |
| `OrdersProofs!UnitsConserved` | `Conservation`, given `OneRequestPerOrder` | the units of live orders as a set of pairs (order, unit), whose cardinality a commit changes by what it takes or gives back (`AddUnits`) |
| `OrdersProofs!OrdersImplementBook` | `ImplementsOrderBook`, given `OneRequestPerOrder` | the step simulation: each commit is one step of the book, edits are edits, all else stutters |
| `OrdersProofs!WithOneSession` | the last four, with one admin | two requests of one order would be two admins' |
| `StorefrontProofs!OrdersArePaidOnce` | `PaidOnce` | `RowIsCurrent`: the locked order is as committed, for one holder; `InsertsAreNew`: a transaction past its insert is on no record and in no other delivery |
| `StorefrontProofs!OrdersArePaidExactly` | `PaidExactly` | `OnlyIncomingLock`, `PaymentsHaveOrders` |
| `StorefrontProofs!SuccessMeansRecorded` | `AckedIsRecorded` | what is about to be answered is recorded |
| `StorefrontProofs!RecordsStay` | `RecordedOnce` | `InsertsAreNew` |
| `StorefrontProofs!WebhookImplementsLedger` | `ImplementsLedger` | the step simulation: `Settle` is `Pay` or `File`, placing a bank-transfer order is `OpenOrder`, all else stutters |
| `StorefrontProofs!OvershootIsBounded` | `BoundedOvershoot` | `ClaimsBounded`: in every window, the orders of a phone and the checkouts that have passed its check are together at most limit - 1 + pool, since each of the latter has a connection |
| `StorefrontProofs!RetryAfterIsRight` | `RetryAfterIsTight` | `AdviceDecided`: one of the known orders is the limit-th newest, and the advice is its exit from the window, rounded up to a second |
| `StorefrontProofs!QuotesAreHonoured` | `QuoteHonoured` | `QuoteKept`: a quote that is not forgotten is what the catalogue still gives; `CartLines`: units of a plant are requested exactly if a line names it, a sum of positive numbers |
| `StorefrontProofs!WhatLeavesIsCharged` | `ChargedForWhatLeaves` | `OrderKept`: the stock is what it was before less what is requested; then the lines' totals, grouped by plant (`SumGroups`), are each plant's units times its one price (`SumScaled`) |
| `StorefrontProofs!StorefrontIsItsParts` | each component's specification | a step of one component leaves the others' variables alone |
| `StorefrontProofs!StorefrontTypesHold` | `TypesOK` | the components' type invariants, carried over by `StorefrontIsItsParts` |
| `ChatProofs!GuardIsExact` | `GuardExact` | `Guarded`, and `NoneGrows`: no marker that is still growing began in the text already shown. A marker has one "<", every proper prefix of one is partial, so at most one grows and it is the tail that is held back |
| `ChatProofs!NeverIsSilent` | `NeverSilent` | what is left unsaid at the end of a reply was captured, or is `pending` and then shown |
| `ChatProofs!ExactNameIsFirst` | `ExactNameFirst` | `AnswerKept`: the answer was found on the shelf as it was; with no more hits than the search returns, `Listed` is `Hits`, an exact name is a hit, and the first place among the exact ones exists |
| `AdminPanelProofs!SomeoneStaysActive` | `SomeoneActive` | `JobsKnow`: an update about to commit is by an admin that exists and does not deactivate itself |
| `AdminPanelProofs!SessionsAreBounded` | `SessionsEnd` | `TokensNameAdmins` |
| `AdminPanelProofs!GuessesAreBounded` | `GuessesBounded` | `Limiter`: between two entries of the limiter each request slot guesses at most once, so a wrong guess is known by the entries before it and its slot; and the window is never fuller than the limit |
| `AdminPanelProofs!PagingIsComplete` | `PagingSkipsNothing` | `StillBelow`: a row that was listed at the beginning and has not been shown has as many newer rows as the reader has passed; a row's place in a sorted listing is the number of newer rows (`PlaceInListing`), so it is on the next page or below it |
| `AdminPanelProofs!PagesAreCurrent` | `PagesShowDecisions` | `PagesCurrent` and `FillsCurrent`, for pages and for fills in progress: a page that is not `missed` and that no coming notice names is exact, and so is what a fill of it has read. A commit makes inexact only pages that its own notice names (`Due`) or that become `missed`; a plant's own slug changes only by a commit that is then due to both slugs (`CommitRenameKeeps`) |
| `OverviewProofs!FiguresCover` | `LaterFiguresCover` | `FiguresKept`: what has been read is at most what the statement still to come would return if it counted every order in `Once`, completed now or at some time since the dashboard began; `Once` only grows (`GrowthKeeps`), although `Completed` does not, and exceeds it by `undone` (`OnceIs`, `PeriodOnceIs`); and each later statement groups the same orders another way: by status (`StatusesAddUp`), by day (`ChartAddsUp`), by plant (`TopIsAll`) |
| `AdminPanelProofs!AdminPanelIsItsParts` | each component's specification | a step of one component leaves the others' variables alone |
| `AdminPanelProofs!AdminPanelTypesHold` | `TypesOK` | the components' type invariants, carried over by `AdminPanelIsItsParts` |
| `CatalogueProofs!EveryChangeAnnounced` | `ChangesAnnounced` | `Shapes`, `CreatorsAlone`: a row being created is nobody else's target |
| `CatalogueProofs!OldUrlsStay` | `UrlsStay` | what a commit of a plant writes (`PlantCommitIs`), and that nothing else writes plants or history |
| `KnowledgeProofs!MirrorIsExact` | `MirrorExact`, given `IdsDistinct` | `Claims`: of a plant that is not `unsure` and has no sync to come, the index holds a part of the mirror, and all of it unless an insert is to come |
| `KnowledgeProofs!AReindexRepairs` | `ReindexRepairs`, given `IdsDistinct` | `Reindexing`: while nothing was written, what the script has read is still so, and each plant is mirrored or in its queue |
| `KnowledgeProofs!FaqsAreOfOneSnapshot` | `FaqsOfOneSnapshot` | nothing but the script writes FAQs, from one snapshot, after a wipe |
| `KnowledgeProofs!FaqAnswersAreFull` | `FaqAnswerFull` | an FAQ has at most two objects, one per language, so 2 * `TopK` objects are of `TopK` FAQs at least |

None of the properties is inductive as it stands. `NoOversell` needs that the row a commit subtracts from is
the committed one; `PaidOnce` that nobody else has the order's row, which is what `FOR UPDATE` gives;
`SomeoneActive` that a check made on rows that may have changed since still says what matters;
`ChangesAnnounced` that the copy a request works from either is the row or is excused; `BoundedOvershoot` and
`GuessesBounded` that those who have been let in but have not yet been counted are few; `PagesShowDecisions`,
`MirrorExact` and `GuardExact` that what is not yet visible (a page being filled, a delete whose insert is to come, text
held back) is on its way to being exact; `PagingSkipsNothing` where in the list the rows not yet shown are.
`LaterFiguresCover` is about figures of different times, so each figure needs a bound that is kept until the one it is compared
with has been read. The type invariants of the other modules are proved too (`TypesHold`, `LimitTypesHold`, `PaymentsTypesHold`,
`AccountsTypesHold`, `ReviewsTypesHold`, `OverviewTypesHold`, `ChatTypesHold`); `TypesOK` of the two compositions joins them.

Sums. The prices of a cart and the figures of the dashboard are folds of the community modules over a set, which
are defined by a recursive function picked with `CHOOSE`; that the recursion has a solution for every finite set is a fact about
all of them at once. `Sums` proves it without an induction schema, by descent: a finite set without a solution would have a smallest
subset without one (`SmallestSubset`, from the library's theorem that strict inclusion is well-founded on the subsets of a finite
set), and a solution for one element less extends to it. From there `SumAdd`, `SumUnion`, `SumGroups`, `SumMonotone` and
`SumRenamed` are proved the same way and cited by name. `Pricing` and `Overview` add up over sets of places in a
sequence, as the code adds up rows, and not over sequences.

Every invariant and every action property that a run checks is stated by a theorem, the refinements included, except in
the runs that expect a violation; `PipelineForward`, `Conservation` and `ImplementsOrderBook` under `OneRequestPerOrder`, `MirrorExact`
and `ReindexRepairs` under `IdsDistinct`. Only model-checked is all liveness (`CheckoutAnswered`, `StatusAnswered`,
`EventuallyRecorded`): fairness and `ENABLED` are out of the prover's reach.

## Not modelled

- Formatting, validation of request bodies, logging, metrics, lists and filters that only read.
- A change of a customer's phone, name or email; the numbers past 9999 of a day; an outage of the limiter's storage;
  the limits per address, which are the library's alone; the indexer of blog posts, which does for
  another source what `ScriptWipeFaqs` and `ScriptInsertFaqs` do.
- The ranking of the search and the answers of the language model: both are free choices.
- Migrations, monitoring and seed data: run once, before the shop opens. The constraints they create are
  quoted where a module relies on them.

## Next

1. `Orders` with customers by id, so that a phone can change, and the circle of locks that makes possible.
2. Orders of several lines in `Overview`, whose best sellers then count lines and its revenue orders.
3. Stock changes of checkouts as a source of notices in `Catalogue`.
