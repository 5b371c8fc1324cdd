------------------------------- MODULE Checkout -------------------------------
(***************************************************************************)
(* What an order costs, how it is written and how its user reads it        *)
(*   src/services/order/go/internal/service/order.go                       *)
(*   src/services/order/go/internal/queue/worker.go                        *)
(*   src/services/order/go/internal/db/query.sql.go                        *)
(*   src/services/order/go/internal/product/client.go                      *)
(*                                                                         *)
(* A request prices its items one by one, takes the stock, and writes the  *)
(* order itself or leaves it to the worker.  OrderService models what      *)
(* happens to the stock; here a deduction succeeds or fails.  The orders   *)
(* are those of one user: every query asks for that user's only.  The user *)
(* reads one order, walks through the pages of a list, or lists deals.     *)
(***************************************************************************)
EXTENDS Deals, Sequences, FiniteSetsExt

CONSTANTS Prices,         \* [Products -> what a product may cost at one time or another]
          Carts,          \* sequences of [product, deal, quantity]
          MaxOrders,      \* bound: requests that place an order
          MaxInt,         \* largest int32
          PageSize,
          Faults,         \* may a call or a statement fail?
          None            \* no deal, no row, no order, no status asked for

Orders == 1 .. MaxOrders
Item == [product: Products, deal: Offers \cup {None}, quantity: -MaxInt - 1 .. MaxInt]

ASSUME PriceAssumption == Prices \in [Products -> SUBSET (0 .. MaxInt)]
ASSUME CartAssumption == Carts \subseteq Seq(Item) /\ <<>> \notin Carts
ASSUME NumberAssumption ==
  MaxOrders \in Nat /\ MaxInt \in Nat \ {0} /\ PageSize \in Nat \ {0} /\ Faults \in BOOLEAN
\* The price of a deal is an int32, too.
ASSUME DealPriceAssumption == \A d \in Offers : d.price <= MaxInt

Amount == (-(MaxInt + 1)) .. MaxInt

VARIABLES
  async,      \* does the service run with the queue?
  phase,      \* [Orders -> Phases], what each request does next
  cart,       \* [Orders -> the items asked for]
  units,      \* the unit prices of the items priced so far
  answer,     \* [Orders -> amounts answered, or None]
  queue,      \* orders pushed and not yet taken
  job,        \* the order the worker writes, or None
  created,    \* orders by created_at, oldest first
  row,        \* [Orders -> [status, total] or None], committed
  items,      \* [Orders -> the subtotals of the committed item rows]
  reading,    \* what the user's request does next
  ask,        \* what the user asked for
  page,       \* the page of the list
  total,      \* the total of the answer
  rows,       \* the orders fetched, whose items are still to be fetched
  at,         \* the time the active deals are asked for
  listed,     \* the deals on their page
  shown,      \* the orders shown, each with its items
  before      \* history: the orders that were there when the walk began

orderVars == <<async, phase, cart, units, answer, queue, job, created, row, items>>
listVars == <<page, rows, shown, before>>
readVars == <<reading, ask, total, listVars, at, listed>>
vars == <<dealVars, orderVars, readVars>>

Statuses == {"pending", "confirmed", "cancelled"}
Phases == {"new", "pricing", "deduct", "begin", "write", "push", "placed", "refused"}
Asks == [what: {"order"}, order: Orders] \cup [what: {"orders"}, status: Statuses \cup {None}]
        \cup [what: {"deals"}, limit: Nat, skip: Nat]
Row == [status: Statuses, total: 0 .. MaxInt]
Answer == [total: Amount, items: Seq(Amount)]

ASSUME NoneAssumption ==
  /\ None \notin Offers /\ None \notin Orders /\ None \notin Statuses
  /\ None \notin Asks /\ None \notin Row /\ None \notin Answer

Init ==
  /\ DealsInit
  /\ async \in BOOLEAN
  /\ phase = [o \in Orders |-> "new"]
  /\ cart = [o \in Orders |-> <<>>]
  /\ units = [o \in Orders |-> <<>>]
  /\ answer = [o \in Orders |-> None]
  /\ queue = <<>>
  /\ job = None
  /\ created = <<>>
  /\ row = [o \in Orders |-> None]
  /\ items = [o \in Orders |-> <<>>]
  /\ reading = "idle"
  /\ ask = None
  /\ page = 0
  /\ total = 0
  /\ rows = <<>>
  /\ at = 0
  /\ listed = {}
  /\ shown = {}
  /\ before = {}

-----------------------------------------------------------------------------
(* Amounts *)

\* An int32 product or sum wraps.
Int32(x) == ((x + MaxInt + 1) % (2 * (MaxInt + 1))) - (MaxInt + 1)

Subtotals(o) == [i \in DOMAIN units[o] |-> Int32(units[o][i] * cart[o][i].quantity)]

SumOf(s) ==
  LET sum[n \in 0 .. Len(s)] == IF n = 0 THEN 0 ELSE Int32(sum[n - 1] + s[n])
  IN  sum[Len(s)]

\* totalAmount, as the request sums it up
TotalAmount(o) == SumOf(Subtotals(o))

\* Slip: the worker forgets the quantities.
SumOfPrices(o) == SumOf(units[o])
\* totalAmount, as the worker sums it up from what was pushed
TotalOfJob(o) == SumOf(Subtotals(o))

Amounts(o) == [total |-> TotalAmount(o), items |-> Subtotals(o)]

\* The CHECKs of both tables: nothing before them looks at a quantity.
ItemsAccepted(o) ==
  \A i \in DOMAIN units[o] : cart[o][i].quantity >= 1 /\ Subtotals(o)[i] >= 0
\* Slip: no CHECK on the total.
SubtotalsOnly(o, sum) == ItemsAccepted(o)
Accepted(o, sum) == sum >= 0 /\ ItemsAccepted(o)

-----------------------------------------------------------------------------
(***************************************************************************)
(* CreateOrder and AsyncCreateOrder                                        *)
(***************************************************************************)
Go(o, next) == phase' = [phase EXCEPT ![o] = next]

\* Requests are interchangeable: they begin in the order of their numbers.
Begin(o, c) ==
  /\ phase[o] = "new"
  /\ \A q \in Orders : q < o => phase[q] # "new"
  /\ cart' = [cart EXCEPT ![o] = c]
  /\ Go(o, "pricing")
  /\ UNCHANGED <<dealVars, async, units, answer, queue, job, created, row, items, readVars>>

NextItem(o) == cart[o][Len(units[o]) + 1]

\* The deal must be one of the product's, and active.
DealHolds(item) ==
  /\ item.deal \in deals
  /\ GetDeal(item.deal).product = item.product
  /\ GetDeal(item.deal).status = "active"

\* A product's price may come from the cache: it is one the product had.
Quotes(item) ==
  IF item.deal = None THEN Prices[item.product]
  ELSE IF DealHolds(item) THEN {GetDeal(item.deal).price} ELSE {}

Price(o) ==
  /\ phase[o] = "pricing"
  /\ \E price \in Quotes(NextItem(o)) : units' = [units EXCEPT ![o] = Append(@, price)]
  /\ IF Len(units'[o]) = Len(cart[o]) THEN Go(o, "deduct") ELSE UNCHANGED phase
  /\ UNCHANGED <<dealVars, async, cart, answer, queue, job, created, row, items, readVars>>

\* A price or the stock is refused, or a call fails; what was taken goes back.
Refuse(o) ==
  /\ \/ phase[o] = "pricing" /\ (Faults \/ Quotes(NextItem(o)) = {})
     \/ phase[o] = "deduct"
     \/ phase[o] \in {"begin", "push"} /\ Faults
  /\ Go(o, "refused")
  /\ UNCHANGED <<dealVars, async, cart, units, answer, queue, job, created, row, items, readVars>>

Deduct(o) ==
  /\ phase[o] = "deduct"
  /\ Go(o, IF async THEN "push" ELSE "begin")
  /\ UNCHANGED <<dealVars, async, cart, units, answer, queue, job, created, row, items, readVars>>

\* created_at is the time the transaction began.
BeginOrder(o) ==
  /\ phase[o] = "begin"
  /\ created' = Append(created, o)
  /\ Go(o, "write")
  /\ UNCHANGED <<dealVars, async, cart, units, answer, queue, job, row, items, readVars>>

Written(o, status, sum) ==
  /\ row' = [row EXCEPT ![o] = [status |-> status, total |-> sum]]
  /\ items' = [items EXCEPT ![o] = Subtotals(o)]

\* Slip: the items are written in a transaction of their own.
ItemsLater(o) ==
  /\ phase[o] = "write"
  /\ Accepted(o, TotalAmount(o))
  /\ IF row[o] = None
     THEN /\ row' = [row EXCEPT ![o] = [status |-> "pending", total |-> TotalAmount(o)]]
          /\ UNCHANGED <<phase, answer, items>>
     ELSE /\ items' = [items EXCEPT ![o] = Subtotals(o)]
          /\ Go(o, "placed")
          /\ answer' = [answer EXCEPT ![o] = Amounts(o)]
          /\ UNCHANGED row
  /\ UNCHANGED <<dealVars, async, cart, units, queue, job, created, readVars>>

\* The row and its items become visible with the commit.  The commit may report
\* an error and yet have taken place.
WriteOrder(o) ==
  /\ phase[o] = "write"
  /\ \/ /\ Accepted(o, TotalAmount(o))
        /\ Written(o, "pending", TotalAmount(o))
        /\ \/ Go(o, "placed") /\ answer' = [answer EXCEPT ![o] = Amounts(o)]
           \/ Faults /\ Go(o, "refused") /\ UNCHANGED answer
     \/ /\ Faults \/ ~Accepted(o, TotalAmount(o))
        /\ Go(o, "refused")
        /\ UNCHANGED <<answer, row, items>>
  /\ UNCHANGED <<dealVars, async, cart, units, queue, job, created, readVars>>

\* A push may report an error and yet have taken place.
Enqueue(o) ==
  /\ phase[o] = "push"
  /\ queue' = Append(queue, o)
  /\ \/ Go(o, "placed") /\ answer' = [answer EXCEPT ![o] = Amounts(o)]
     \/ Faults /\ Go(o, "refused") /\ UNCHANGED answer
  /\ UNCHANGED <<dealVars, async, cart, units, job, created, row, items, readVars>>

-----------------------------------------------------------------------------
(***************************************************************************)
(* The worker, and the changes of an order's status, which OrderService    *)
(* models in detail                                                        *)
(***************************************************************************)
Dequeue ==
  /\ job = None
  /\ queue # <<>>
  /\ job' = Head(queue)
  /\ queue' = Tail(queue)
  /\ created' = Append(created, job')
  /\ UNCHANGED <<dealVars, async, phase, cart, units, answer, row, items, readVars>>

\* An order that cannot be written is dropped.
ProcessOrder ==
  /\ job # None
  /\ job' = None
  /\ \/ /\ Accepted(job, TotalOfJob(job))
        /\ Written(job, "confirmed", TotalOfJob(job))
     \/ /\ Faults \/ ~Accepted(job, TotalOfJob(job))
        /\ UNCHANGED <<row, items>>
  /\ UNCHANGED <<dealVars, async, phase, cart, units, answer, queue, created, readVars>>

SetStatus(o, from, to) ==
  /\ row[o] # None
  /\ row[o].status \in from
  /\ row' = [row EXCEPT ![o].status = to]
  /\ UNCHANGED <<dealVars, async, phase, cart, units, answer, queue, job, created, items, readVars>>

ConfirmOrder(o) == SetStatus(o, {"pending"}, "confirmed")
CancelOrder(o) == SetStatus(o, {"pending", "confirmed"}, "cancelled")

-----------------------------------------------------------------------------
(***************************************************************************)
(* GetOrder, ListOrders and ListActiveDeals: each query is a step          *)
(***************************************************************************)
Matches(o, status) == row[o] # None /\ (status = None \/ row[o].status = status)

OrdersOf(status) == {o \in Orders : Matches(o, status)}

\* Slip: the count forgets the status.
CountAnyStatus(status) == Cardinality(OrdersOf(None))
CountOrders(status) == Cardinality(OrdersOf(status))

\* created_at is later.
Newer(p, q) == \E i, j \in DOMAIN created : j < i /\ created[i] = p /\ created[j] = q

\* Slip: orders that wait for a confirmation come first.
PendingFirst(p, q) ==
  LET waits(o) == row[o].status = "pending" IN
  (waits(p) /\ ~waits(q)) \/ (waits(p) = waits(q) /\ Newer(p, q))
\* ORDER BY created_at DESC
Ahead(p, q) == Newer(p, q)

Rank(o, status) == Cardinality({q \in OrdersOf(status) : Ahead(q, o)})

Offset == (page - 1) * PageSize

ListOrders(status) ==
  [i \in 1 .. Min({PageSize, Cardinality(OrdersOf(status)) - Offset}) |->
     CHOOSE o \in OrdersOf(status) : Rank(o, status) = Offset + i - 1]

AskFor(a, next) ==
  /\ reading = "idle"
  /\ ask' = a
  /\ reading' = next

GetOrder(o) ==
  /\ AskFor([what |-> "order", order |-> o], IF row[o] = None THEN "done" ELSE "last")
  /\ rows' = IF row[o] = None THEN <<>> ELSE <<o>>
  /\ UNCHANGED <<dealVars, orderVars, page, total, shown, before, at, listed>>

StartWalk(status) ==
  /\ AskFor([what |-> "orders", status |-> status], "count")
  /\ page' = 1
  /\ before' = OrdersOf(status)
  /\ UNCHANGED <<dealVars, orderVars, total, rows, shown, at, listed>>

\* The list is counted before its page is read.
Count ==
  /\ reading = "count"
  /\ \/ total' = CountOrders(ask.status) /\ reading' = "page"
     \/ Faults /\ reading' = "done" /\ UNCHANGED total
  /\ UNCHANGED <<dealVars, orderVars, ask, page, rows, shown, before, at, listed>>

Fetch ==
  /\ reading = "page"
  /\ \/ /\ rows' = ListOrders(ask.status)
        /\ reading' = IF Len(rows') = PageSize THEN "items" ELSE "last"
     \/ Faults /\ reading' = "done" /\ UNCHANGED rows
  /\ UNCHANGED <<dealVars, orderVars, ask, page, total, shown, before, at, listed>>

Shown(o, itemRows) == [order |-> o, items |-> itemRows]

\* A list ignores an error and shows no items; GetOrder returns it.
FetchItems ==
  /\ reading \in {"items", "last"}
  /\ rows # <<>>
  /\ rows' = Tail(rows)
  /\ \/ shown' = shown \cup {Shown(Head(rows), items[Head(rows)])}
     \/ /\ Faults /\ ask.what = "orders"
        /\ shown' = shown \cup {Shown(Head(rows), <<>>)}
     \/ Faults /\ ask.what = "order" /\ UNCHANGED shown
  /\ UNCHANGED <<dealVars, orderVars, reading, ask, page, total, before, at, listed>>

\* The user asks for the next page as long as pages are full.
NextPage ==
  /\ rows = <<>>
  /\ \/ reading = "items" /\ page' = page + 1 /\ reading' = "count"
     \/ reading = "last" /\ reading' = "walked" /\ UNCHANGED page
  /\ UNCHANGED <<dealVars, orderVars, ask, total, rows, shown, before, at, listed>>

\* The page and the count of the active deals use one reading of the clock.
ListDeals(limit, skip) ==
  /\ AskFor([what |-> "deals", limit |-> limit, skip |-> skip], "deals")
  /\ at' = now
  /\ listed' \in ActivePages(now, limit, skip)
  /\ UNCHANGED <<dealVars, orderVars, total, listVars>>

\* The error of the count is ignored and the total is 0.
CountDeals ==
  /\ reading = "deals"
  /\ \/ total' = CountActiveDeals(at) /\ reading' = "listed"
     \/ Faults /\ reading' = "done" /\ UNCHANGED total
  /\ UNCHANGED <<dealVars, orderVars, ask, listVars, at, listed>>

-----------------------------------------------------------------------------
Place(o) ==
  \/ \E c \in Carts : Begin(o, c)
  \/ Price(o)
  \/ Refuse(o)
  \/ Deduct(o)
  \/ BeginOrder(o)
  \/ WriteOrder(o)
  \/ Enqueue(o)

Read ==
  \/ \E o \in Orders : GetOrder(o)
  \/ \E status \in Statuses \cup {None} : StartWalk(status)
  \/ Count
  \/ Fetch
  \/ FetchItems
  \/ NextPage
  \/ \E limit \in 1 .. Cardinality(Offers), skip \in 0 .. Cardinality(Offers) : ListDeals(limit, skip)
  \/ CountDeals

Time ==
  /\ Tick \/ \E d \in Offers : CreateDeal(d)
  /\ UNCHANGED <<orderVars, readVars>>

Next ==
  \/ \E o \in Orders : Place(o) \/ ConfirmOrder(o) \/ CancelOrder(o)
  \/ Dequeue
  \/ ProcessOrder
  \/ Read
  \/ Time

Spec == Init /\ [][Next]_vars

-----------------------------------------------------------------------------
(* Properties *)

\* Every variable keeps to its type: what the CHECKs guard is never negative.
TypeOK ==
  /\ DealsTypeOK
  /\ async \in BOOLEAN
  /\ phase \in [Orders -> Phases]
  /\ cart \in [Orders -> Carts \cup {<<>>}]
  /\ units \in [Orders -> Seq(0 .. MaxInt)]
  /\ answer \in [Orders -> Answer \cup {None}]
  /\ queue \in Seq(Orders)
  /\ job \in Orders \cup {None}
  /\ created \in Seq(Orders) /\ IsInjective(created)
  /\ row \in [Orders -> Row \cup {None}]
  /\ items \in [Orders -> Seq(0 .. MaxInt)]
  /\ reading \in {"idle", "count", "page", "items", "last", "deals", "walked", "listed", "done"}
  /\ ask \in Asks \cup {None}
  /\ page \in Nat /\ total \in Nat
  /\ rows \in Seq(Orders)
  /\ at \in 0 .. MaxTime /\ listed \subseteq deals
  /\ shown \subseteq [order: Orders, items: Seq(0 .. MaxInt)]
  /\ before \subseteq Orders

\* One order has one price: the total of its row is the int32 sum of its item
\* rows, and both are what its user was answered, whether the request wrote
\* the order or the worker did, later, from the message.
AmountsAgree ==
  \A o \in Orders :
    row[o] # None =>
      /\ row[o].total = SumOf(items[o])
      /\ answer[o] # None => answer[o] = [total |-> row[o].total, items |-> items[o]]

\* An order is never shown before its items are there: GetOrder, which reads
\* both in separate statements, shows all of them, and a list shows all or,
\* when their query fails, none.
ShownWhole ==
  \A s \in shown :
    Len(s.items) = Len(cart[s.order]) \/ (ask.what = "orders" /\ s.items = <<>>)

\* The statuses an order does not leave.
Lasting == {None, "cancelled"}

\* A page is as long as its total promises, though the two are two statements:
\* the count comes first and no order leaves the list.
PageNotShort ==
  [][(reading = "page" /\ reading' \in {"items", "last"} /\ ask.status \in Lasting)
       => Len(rows') >= Min({PageSize, total - Offset})]_vars

\* Who walks through all pages is shown every order that was there at first,
\* whatever is placed, confirmed or cancelled meanwhile: orders do not change
\* places, and new ones only move the others to later pages.
WalkMissesNothing ==
  (reading = "walked" /\ ask.what = "orders" /\ ask.status \in Lasting)
    => before \subseteq {s.order : s \in shown}

\* The total of the active deals covers their page, though deals start and end
\* between the two statements.
ActiveTotalCoversPage ==
  (reading = "listed" /\ listed # {}) => ask.skip + Cardinality(listed) <= total

\* order.go:107 refuses an item of a deal that is not in progress: an item is
\* priced at a deal's price only while the deal runs.
DealPriceWhileRunning ==
  [][\A o \in Orders :
       (Len(units'[o]) > Len(units[o]) /\ NextItem(o).deal # None)
         => Running(NextItem(o).deal, now)]_vars
=============================================================================
