# A verification project for flash-deals

flash-deals sells limited stock in flash sales. Kong routes HTTP requests to three
services: auth (Python), product (Go) and order (Go). The order service takes stock from
the product service over gRPC; the product service keeps the stock in PostgreSQL and,
during a hot deal, in Redis. The earlier Python versions of gateway, product and order are
still in the tree and disabled in `docker-compose.yml`; they are not modelled.

The project checks what is hard to test here: who may sell the last unit, where a unit is
when a request fails halfway, what survives a crash, and what a reader may be shown
while others write.

## Inventory of the system

| Component | State | Operations | Hard behaviour | What makes it correct |
|---|---|---|---|---|
| Stock queue (`product/go/internal/queue/stock_queue.go`) | a buffered channel and one worker per instance, one response channel per request | `UpdateStock`, `worker`, `Close` (never called) | context cancelled before or after the request entered; full channel; crash with requests queued | every caller is answered, answers are true, FIFO to the commit |
| Row locking (`repository/db_repository.go`) | `products.stock`, row locks | `UpdateStockWithLock`, `GetStockForUpdate`, `UpdateStock` | several instances and HTTP handlers on one row; int32 sums; failing statements and commits | no lost update, no negative stock, no lock left behind |
| PATCH stock (`handler/product.go`) | none | `UpdateStock` | read and write are two transactions | (overwrites concurrent sales: a finding) |
| Hot-deal stock (`repository/hotdeal_repository.go`, `grpc/server.go`, `handler/product.go`) | a Redis key per product | `StartHotdeal`, `EndHotdeal`, `UpdateStock` routed by `EXISTS`, Lua decrement, `INCRBY` | the deal starts or ends between `EXISTS` and the command; GET and DEL apart; failing commands, and commands that the client library sends again | one store is charged, the row once, the key once per sending; moving the stock neither loses nor duplicates units |
| Product cache (`repository/cached_repository.go`) | `product:{id}`, `products:list:{limit}:{offset}`, 60 s to live | read-through, `DEL` of a product, `SCAN` and `DEL` of the pages | a slow reader fills a stale value; commits and invalidations in different orders; pages stored during the `SCAN`; an invalidation fails silently | nothing that died out comes back; stale only for reasons the time to live mends |
| Order placement (`order/go/internal/service/order.go`) | the request's `decreasedItems` | `CreateOrder`, `AsyncCreateOrder` | a later item, the insert, the commit or the push fails; the client leaves; an RPC is unclear; quantities that only the tables' `CHECK`s refuse, after the stock changed | a live order holds its stock; a failed one holds none |
| Order queue and worker (`queue/order_queue.go`, `queue/worker.go`) | a Redis list, the popped order | `Enqueue`, `Dequeue`, `processOrder` | crash with an order in hand; failing or refused transaction; a push sent again | accepted orders that the `CHECK`s let through are written, in order |
| Confirm and cancel (`service/order.go`) | `orders.status`, row locks | `ConfirmOrder`, `CancelOrder` | concurrent cancellations; restoration outside the transaction | statuses move forward, stock is restored at most once |
| Order queries and totals (`service/order.go`, `db/query.sql.go`) | `orders.total_amount`, `order_items` | pricing, `GetOrder`, `ListOrders` | int32 products and sums; count, page and items are separate statements beside writers; paging by offset | one order has one price; no order is shown half written or missed |
| Catalogue and deals (`handler/product.go`, `grpc/server.go`) | products, deals | create, update, list; `GetDeal` | the page from the cache, the total from the database; deals that start or end between page and count | a total covers its page; a deal's price while it runs (a finding) |
| Auth (`auth/python/src`) | `auth.users`, tokens, the connection pool | register, login, refresh, verify, profile | two registrations of one e-mail; the pool runs out; commit unclear; expiry | an answered registration stands, tokens last as promised, every request is answered |
| Gateway (`infra/app/gateway/kong.yml`) | none | routing | | declarative configuration, not modelled |

Interaction: a client's order request becomes one gRPC `UpdateStock` per item, which goes
to the Redis key if the product has one and through the stock queue to the row if not;
failure and cancellation send the opposite deltas. The two Go services share no state
but the product's stock, through those calls.

## Modules

| Module | Models | Role |
|---|---|---|
| `Inventory` | what a stock update promises its callers | abstract specification: a request is applied at once or refused, an answer may be lost, never wrong |
| `StockQueue` | queue, worker, transaction, PATCH handler, crashes | the detailed specification; `ImplementsInventory` is its refinement |
| `HotdealStock` | row, Redis key and cache of one product | the deal's life and the routing of updates |
| `OrderService` | placing, confirming and cancelling orders, queue, worker | sees the product service as `Inventory` promises |
| `Catalogue` | products, product pages, their Redis cache | every command and statement between readers and writers |
| `ProductReads` | what readers of products are promised | abstract specification of `Catalogue` |
| `Deals` | deals and the clock | extended by `Checkout` |
| `Checkout` | prices, amounts, written orders and the queries for them | one user's orders, beside the deals |
| `Accounts` | the auth service | registration, login, tokens, connection pool |
| `StockQueue_proofs` | | theorems about `StockQueue` alone: types, locks, no lost update |
| `StockQueueInventory_proofs` | | theorems about its answers and its order, and that it implements `Inventory` |
| `HotdealStock_proofs`, `OrderService_proofs`, `Catalogue_proofs`, `Checkout_proofs`, `Accounts_proofs` | | theorems about the module of that name |
| `Sums_proofs` | | what sums over finite sets do, and least members, for the other proofs |
| `MC*` | | small instances for TLC |

**StockQueue.** `UpdateStock(c)` is a calling goroutine: `Call`, then the first `select`
(`Enqueue` or `GiveUpEnqueue`), then the second (`Receive` or `GiveUpWait`). Go picks any
ready case, so a request may still enter the channel after its context ended. `Work(s)` is
the worker: `Take` from the channel, `LockRow` (`SELECT ... FOR UPDATE`), `Insufficient` or
`WriteRow`, `Commit`, `Reply`; `DbError` is an error of any statement, and `Commit` may also
report an error though it took effect. `Unlock`, the commit's or the deferred rollback's
release of the lock, is part of every way out of the transaction. `Patch(h)` is the HTTP
handler. `Crash` drops channel, worker and callers; the database rolls the open transaction
back. Integers are int32: `Int32Add` wraps at `MaxInt`, which the runs set to a small
number. The variables `log`, `entered` and `verdict` are history.

**HotdealStock.** One product suffices, as products share nothing. A request is at the
Redis command, script or transaction named by its `phase`; none is atomic with the next.
The variable `regime`, chosen at first from `Regimes`, says in which circumstances the
product runs: the first stock, the cache, whether commands may fail with or without effect,
how many crashes, and whether deals are started and ended in turn with nothing else under
way, as the load tests run them. It restricts *when* requests begin, never what one does.
Requests are interchangeable and begin in the order of their numbers. The row's update is
atomic here, which is what `StockQueue` shows of it. The Redis stock is modelled when
`HOTDEAL_STOCK_REDIS` is on. Both services create their Redis client with an address only,
so that go-redis keeps its default of three retries: a command whose reply is lost is sent
again. `SentAgain` is such a command that took effect; `retries` counts it up to
`MaxRetries`. The script may then take the units a second time, or refuse the update for
what its own first attempt took; INCRBY may add twice; SET may overwrite what was sold
meanwhile. A lost command or a lost reply to a read changes nothing by being sent again.

**OrderService.** `phase[o]` is the request placing order `o`, `taken[o]` the length of
`decreasedItems`. A call changes the stock and answers (`Succeeds`) or `Fails`: refused,
applied with an error, or abandoned because the context ended, in which case `LateRpc`
may still apply it. Carts are sequences and may name a product twice. Quantities are any
int32: handler, service, gRPC server and stock queue check none, so that a negative one adds
to the stock. `Enough` is the product service's check, which a sum that wrapped fails, too.
The `CHECK`s of the order's tables (`Insertable`) refuse a quantity below 1 and a negative
amount (`wraps`) when the row is written, in the request or in the worker, after the stock
changed and, in asynchronous mode, after the answer. `Faults` names what
may go wrong in a run; `again` is an LPUSH whose reply is lost and which go-redis sends again,
at most `MaxRetries` times, so that the order is in the list twice and the primary key
refuses its second row. Products are those whose stock is in the row: an RPC for a running
deal may take effect more than once, which `HotdealStock` is about. Prices, users and addresses are abstracted: pricing either succeeds
or ends the request, and a user only confirms and cancels own orders. `out` is history:
per order and item, what was taken less what was given back.

**Catalogue.** A row is known by two counters: `info` counts what `CreateProduct` and
`UpdateProduct` wrote, `units` the changes of stock. A writer is at its `commit`, then
deletes the product's key (`invalidate`), then scans for the pages' keys and deletes them
(`scan`, `delete`), or skips the one or the other as the code does; a reader is at
`lookup`, `fetch`, `fill`, `count`. `SCAN` returns every key present from its start to its
end, and may return others. Lists by category bypass the cache. A SET that go-redis sends
again stores the same old copy later (`Fill` may repeat); a DEL sent again does no more than
the end of the time to live may do at any time. `late` is history: the keys
only their time to live will mend, because they were out of date when stored or because
their deletion failed. Stock writers leave the pages alone, so the stocks on a page are
never up to date by promise (`Concern`). The refinement of `ProductReads` maps `latest` to
the row and `oldest` to the oldest copy of a product anywhere, in a key or in a reader's hand.

**Checkout** (extends **Deals**). A request prices its items one by one (`Price`), takes
the stock, which here succeeds or fails as `OrderService` allows, and writes the order or
pushes it for the worker, who sums up again what was pushed. Amounts are int32 and wrap at
`MaxInt`; the `CHECK`s of both tables refuse negative ones and quantities below 1, which nothing
refuses before them. A product's price may come from
the cache and is therefore any price the product had, which is what `Catalogue` shows. The
user reads one order, walks through a list page by page until one is not full, or lists the
active deals; each query is a step, and other users' orders are left out since every query
asks for one user's. An LPUSH sent twice is left to `OrderService`: the primary key refuses
the second row. `created_at` is taken to differ between orders. A deal is never changed once created.

**Accounts.** A request waits for a connection of the pool, then passes the statements of
its handler; the `INSERT` waits for another, uncommitted one of the same e-mail, and fails
against a committed one. The pool's timeout is a failure like any other
(`StatementFails`). A person stands for the password he or she uses. Clients present
tokens they were given, of either kind. The signature, hashing and names are left out.

Definitions marked "Slip" are mistakes one could make in that code. No behaviour uses
them; each is used to make sure that a property notices the mistake.

## Runs

| Run | Question | Bounds |
|---|---|---|
| `StockQueueReplicas` | two instances on one row, with every fault: no lost update, FIFO, true answers, refinement of `Inventory` | 2 callers, 2 instances, 1 product, channel of 2, 2 crashes |
| `StockQueueLiveness` | every caller answered, every queued request decided | 2 callers, a PATCH handler, 2 products, channel of 1, 1 crash |
| `Hotdeal` | deals in turn: no unit lost or doubled unless sold out; free interleaving with faults: one store charged, the row once and the key once per sending; the cache catches up | in turn: 4 requests, 2 units; free: 3 requests, 1 unit, 1 retry, 1 crash |
| `OrderServiceHandled` | failures the code handles: exact compensation and no overselling of every product no order has asked a negative quantity of, requests return, accepted orders the `CHECK`s let through are written | 2 orders, 2 visits, 2 products, carts with a quantity of -2 and with a wrapped total |
| `OrderServiceFaults` | every fault, a push sent again among them: leaks, but no unit is given back twice, and rows in the order of the pushes | 2 orders, 1 visit, carts naming a product twice, 1 retry, 1 crash |
| `Catalogue` | readers beside creations, updates and stock changes, with every fault: versions shown were committed and do not come back, keys are stale only for accepted reasons, totals cover pages | 3 requests, 2 products, 2 cached pages |
| `Checkout` | orders in both modes beside a reader: one price per order, no order shown half written or missed by paging, totals cover pages | 2 orders, 4 carts, one with a negative quantity, 1 deal, 3 instants, pages of 1, 4-bit integers |
| `Accounts` | racing registrations, logins and renewals with every fault: registrations stand, tokens last, everyone is answered | 3 requests, 2 people, 1 e-mail, 2 connections, 4 instants, 1 crash |

Why these bounds: a lost update, an overwritten sale and a lock left behind need two writers
of one row, a broken order of commits two requests in one channel, a full channel one
request in a channel of one and another behind it, a wrong answer one caller that leaves.
Two callers with two instances contain them, and both instances may die. The stock is one or
two units so that the last one is contended, and `MaxInt` is small so that sums wrap. A
start, a sale, an end and a new start are four requests. One retry is enough for a command
to take effect twice, and to be refused for what it did the first time; the theorems have any
number. A quantity of -2 with a column for two units makes stock that never was, for the
other order to take, and a compensation that is refused. Two orders of two items over two
products give every pattern of a first item taken and a second refused, for both orders at
once. A stale key needs two writers and a slow reader, which are three requests, and two
pages of one product so that a new product moves the old one to the next page. Lists by
category, which read the database alone, are left to the theorems. Four-bit
integers make a subtotal wrap to a negative and a total to a positive amount; two orders and
pages of one make a walk that another order overtakes. Two racing registrations hold both
connections while a third request waits; a registration, its login and a renewal are three
requests, too. A fourth, to present the renewed token, would take the run past five minutes;
that renewed tokens last no longer than promised is the theorem `TokensKeepTheirLife`, of any
number of requests. Deadlock is not checked because every run ends: its requests are finitely
many. Symmetry is used for callers, orders and visits where no liveness property is checked;
elsewhere interchangeable requests begin in the order of their numbers.

Runs that end in a violation show where the code departs from its documents:

| Run | What the code does | What is said of it |
|---|---|---|
| `StockQueuePatch` | PATCH overwrites a sale committed between its read and its write | `deal-lock-contention.md:93`: overselling is prevented |
| `HotdealSoldOut` | a sold-out deal leaves the row as it was at the start | `deal-order-latency.md:63`: the end synchronises Redis to the database |
| `OrderLeak` | the client's departure cancels the compensation too | `order.go:148`: what was deducted is restored |
| `DealOver` | `getDealStatus` is "active" for every deal, so that an ended deal still gives its price | `order.go:107-108`: "the deal is not in progress"; `product-service.v1.yaml:568`: four statuses |

Differences met while modelling that have no run of their own:

- Orders. A worker that dies between `BRPOP` and its transaction loses an accepted order
  (`AcceptedOrderIsWritten` needs `MaxCrashes = 0`), where `deal-order-latency.md:166` gives
  the survival of restarts as a reason for the list. An unclear commit is compensated
  (`order.go:222`), so that a live order may hold no stock. Quantities below 1, which
  `order-service.v1.yaml:268` forbids, pass the handler (`handler/order.go:134`): a negative one
  adds units that never were, which other orders may take before the order is refused, and its
  compensation is then refused in turn. An asynchronous order with such a quantity, or with a
  total that wrapped to a negative amount, is answered 202 and then dropped by the worker, its
  stock left as it is. Subtotals are
  int32 products, not the product of `order-service.v1.yaml:389`, and the offset
  `(page - 1) * size` is int32, too. `POST /orders` answers 202 where the specification says
  201, with a pending order where `test_order_service.py:63` expects a confirmed one.
  The comment at `order.go:409` speaks of a join; the items are queried order by order.
- Reading orders. A client that stops at the list's total, which is read before the page,
  may miss an order that was there, and a list by a status that orders leave may skip others.
- Hot deals. `EndHotdeal` deletes the key before it writes the row, where
  `deal-order-latency.md:83` gives the other order; a crash between the two forgets the
  sales. go-redis sends a script or an INCRBY again whose reply was lost
  (`hotdeal_repository.go:103`, `125`): one update may charge the key twice, or be answered
  insufficient for what its own first attempt took. A second start of a running deal
  overwrites the key with the row's stock and forgets what was sold
  (`hotdeal_repository.go:61`). `StartHotdeal` reads the stock through the cache where `product.go:492` says
  "Get current stock from DB".
- Catalogue. `UpdateProduct` without a name or a price writes an empty name or 0
  (`product.go:246-254`). `CreateDeal` takes the remaining stock from the request, 0 if it is
  missing, where `test_product_service.py:313` expects the deal's stock; no sale reduces it.
- Auth. The loser of two racing registrations is answered 500, since nothing catches the
  violation of `UNIQUE`, where `auth-service.v1.yaml` has 409.

## Fairness

`StockQueue!FairSpec`: goroutines run and statements return, so a worker's and a caller's
steps are weakly fair. Nobody must call, cancel, crash or restart. Weak fairness of
`Enqueue` is enough: Go queues blocked senders, and the callers are finitely many.
`HotdealStock!FairSpec`: requests go on, and the cache entry's time to live passes.
`OrderService!FairSpec`: a handler that began goes on (its RPCs return, with an error at
worst, since gRPC and the database report broken connections), and the worker loops
until the service dies. `Accounts!FairSpec`: the event loop and the database go on with
every request; the pool and the index hand over in order of arrival, and requests are
finitely many. No timeout is counted on: a failure of a waiting request is possible
(`StatementFails`) but not fair, so `EveryRequestAnswered` says that the waits for the pool
and for the index end by themselves. `Catalogue` and `Checkout` state no fairness: their properties are safety.

## Proofs

Every safety property of the runs that pass, invariant, action property or refinement, is
also a theorem, for every value of the constants: any number of instances, callers,
requests, orders, products, carts, pages, deals and crashes, and any width of the integers.
Each theorem rests on the named `ASSUME`s of its module, which say that the constants have
the types of the code's data (a positive channel capacity, amounts and prices that fit the
integers, distinct null values), that products, orders or deals are finitely many where they
are counted or summed up, and, in `OrderService`, that a cart has at most `MaxItems` items.
None says that a quantity is positive or that a sum does not wrap.
Hypotheses beyond those are part of the theorem's statement and named below. In every
module, `Invariance` proves an inductive invariant, with a lemma for each of its
conjuncts, a step for each action, and frame lemmas that say what an action leaves alone.

**StockQueue** (`TypeCorrect`, `LocksAreOwned`, `NoLostUpdate`). `SerialUpdates` is not
inductive. It needs that what a worker read is still the row's stock when it writes
(`ReadCurrent`), hence that the worker holds the row's lock (`LocksOwned`), hence that the
request it serves exists and keeps its product (`RequestsMade`), hence types. HTTP handlers
write the row too; they wait for a held lock (`HeldRowStays`).

**StockQueue and Inventory** (`AnswersAreTrue`, `FifoToTheRow`, `Implementation`,
`AmountsAddUp`, `NoOversellAlone`). The invariant `HInv` adds what the history says: a request enters
once (`EnteredOnce`), the channel is the end of what entered its instance (`ChannelIsTail`),
what was decided left the channel before (`DecidedPassed`), log, verdicts and answers agree
(`LogAgrees`, `AnswersAgree`, `CallersOpen`). FIFO then says that positions in the log follow
positions in the channel. The refinement maps each step: the commit applies, the check
refuses, a return tells, a crash answers "error" to everyone it drops, the rest stutters.
It, the sum and the absence of overselling assume `QueueAlone`, no PATCH handler: the run
`StockQueuePatch` shows that with one the stock is oversold. `AmountsAddUp` is proved of
`Inventory` and carried over by the refinement; `NoOversellAlone` uses that the differences
along the chain of writes telescope.

**HotdealStock** (`TypeCorrect`, `ChargesOneStore`, `StocksAdd`). `Counted` says per phase of
a request which store it has charged, and how often by the retries of its command, and
suffices for the first two under every interleaving and fault. `StocksAdd` needs `TurnInv`: with deals in turn, what is in the
store that sells plus what was taken from it is the first stock, except while an end has
read the key and not yet written the row, when what it holds stands for the key
(`InOnePlace`). The attempt to prove it showed that the property is false after a crash
between `DEL` and the row's update; `StocksAddUpUnlessSoldOut` therefore says nothing of
behaviours with a crash, and the crash is listed below the violations.

**OrderService** (`TypeCorrect`, `LiveOrdersHold`, `AcceptedOrdersHold`, `RestoredOnce`,
`StatusForward`; with hypotheses, `FailedOrdersHoldNothing`, `CancelledOrdersHoldNothing`,
`RowsAppearInPushOrder`, `NothingOversold`). The invariant relates the place of each request
to what it has taken (`RequestsProgress`), says that of the cancellations of an order one at
most restores its stock (`VisitsExclusive`), that only orders that were pushed are in the list
or in a worker's hands (`OnlyPushedWait`), that per item what is out was taken and not yet
tried to be given back (`StockTracked`), and that an abandoned RPC still finds its item as it
was (`LateOnce`). These hold under every fault and of every quantity.

That a failed or cancelled order holds nothing is assumed `Answered`: no client leaves, no RPC
is lost or unclear, no commit or push is in doubt or repeated; statements may still fail, the
`CHECK`s may refuse and the service may die. The run `OrderLeak` shows what happens otherwise.
It is said of the products no order so far has asked a negative quantity of
(`NeverNegative`), because only of those is no compensation refused. That is not assumed but
proved: stock plus units out is the initial stock in every state (`UnitsAddUp`, lemma
`UnitsStand`, a sum over all items of all orders), so that what a returning RPC adds fits the
column (`RoomToReturn`); hence what was tried to be given back is back (`ReturnedIsBack`).

The order of the rows assumes `OneWorker`, which is what `main.go` starts. `NothingOversold`
assumes `ClearCommits`: an order whose commit or push is in doubt may be compensated while it
lives, and its units are sold again. It is about written orders, pending or confirmed, and
about the products `NeverNegative` names, and follows from `UnitsAddUp` and from live orders
holding what they list.

**Catalogue** (`TypeCorrect`, `TotalsCover`, `StaleIfLate`, `Implementation`). The invariant
says where a request of each kind can be (`Placed`), that every product with a row has its
place among the created (`RowsCreated`), that keys of products have rows (`KeysHaveRows`), that no copy, in a key or
in a reader's hand, is ahead of its row (`CopiesBehind`), that a page is never longer than the
products there were when it was read (`PagesCovered`), and `StaleOnlyIfLate` itself: it is
inductive, because a key out of date is excused by a writer that has yet to delete it, by a
scan that has yet to return it, or by `late`, and each step that ends one excuse starts
another or deletes the key (`ExcusedKept`, `UpToDateKept`). The refinement of `ProductReads`
shows that `oldest`, the oldest copy anywhere, never falls, since every copy comes from the
row or from another copy (`CopiesFrom`, `OldestForgets`).

**Checkout** (`TypeCorrect`, `OnePrice`, `WholeOrders`, `NothingMissed`, `PageFull`,
`ActiveTotalCovers`). The orders' part of the invariant says how far each request is
(`Staged`), that an order is in the list, in the worker's hands or written, and is priced by
then (`InOnePlace`), and that what is written or answered are the amounts of the request
(`OneAmount`). The walk's part (`Walk`) says that who is not yet shown has a rank, a number
of newer orders on the list, beyond the pages fetched. It stays true while others place,
confirm and cancel because nobody leaves the list and ranks never fall (`ListGrows`), and a
page that is not full is one that no rank is beyond (`ListFacts`, which needs that ranks
number the orders without gaps, `RankFacts`). This is where paging by offset is safe, and
why it is not for the statuses that orders leave.

**Accounts** (`TypeCorrect`, `AccountsStand`, `TokensKeepTheirLife`). The invariant says that
the connections in use are those of requests past the pool (`PoolKept`), that an e-mail has
one row (`OneRowEach`), which somebody inserted (`RowsRegistered`), that two uncommitted
inserts of one e-mail do not meet (`CommitsApart`), and that tokens, held or presented,
carry the life they were issued with (`TokensFit`, `AskedFits`, `AnswerFits`).

Sums and recursive functions: the induction theorems of the library take an operator as a
parameter and cannot be used. The proofs go by the smallest counterexample
instead: were the claim false of some subset of a finite set, or of some number, it would be
false of a smallest one (`Smallest` and `Least` in `Sums_proofs`), which its definition
contradicts. `Sums_proofs` has what the sum of the community modules does when an element is
added, removed or changed, whatever order `CHOOSE` takes them in.

Model-checked only: all liveness (`EveryCallerAnswered`, `EnteredIsDecided`,
`CacheCatchesUp`, `EveryRequestReturns`, `AcceptedOrderIsWritten`, `EveryRequestAnswered`),
which is outside the prover's reach as is `ENABLED`; and the runs that end in a violation,
whose properties are false. That `SumOf` is the sum of Go's loop is its definition; the
proofs use only that it is an int32 and depends on nothing but the subtotals.

## Plan

1. Proofs: safety lemmas behind the liveness properties (what a request that has not
   returned waits for); `DealPriceWhileRunning` under the condition that deals run all the
   time, to show that the missing status is the only reason for its violation; shorter
   proofs of the per-action steps of `OrderService_proofs`.
2. A composition of `OrderService` with the hot deal's life.

## Not modelled

Kong's routing and caching, a declarative configuration of an external program; telemetry,
configuration, protobuf stubs, load tests, dashboards, which hold no state of their own; the
superseded Python services; `StockQueue.Close` and the generated queries nothing calls
(`listOrdersWithItems` and its variants, `updateOrderStatus`, `update_user`, `delete_user`); a
failure of Redis that loses its data; the loss of a worker's reply, which stays inside one
process; the signature of tokens and the hashing of passwords.
