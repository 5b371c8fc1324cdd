----------------------------- MODULE OrderService ----------------------------
(***************************************************************************)
(* Placing, confirming and cancelling orders                               *)
(*   src/services/order/go/internal/service/order.go                       *)
(*   src/services/order/go/internal/queue/order_queue.go, worker.go        *)
(*   src/services/order/go/internal/product/client.go                      *)
(*                                                                         *)
(* A request takes the stock of its items one RPC at a time, then either   *)
(* writes the order row (synchronous mode) or pushes the order on a Redis  *)
(* list from which a worker writes the row later (asynchronous mode).  If  *)
(* a step fails, the request gives back what it knows it took, one RPC at  *)
(* a time and under the same request context, and ignores their results.   *)
(* Cancelling an order commits the new status and then gives its items     *)
(* back in the same way.                                                   *)
(*                                                                         *)
(* Nothing on the way checks that a quantity is positive, or a sum within  *)
(* an int32: such an order takes its stock (a negative quantity adds to    *)
(* it), and only the CHECKs of the order's tables refuse it, in the        *)
(* request or, after the client was answered, in the worker.               *)
(*                                                                         *)
(* The product service is seen as Inventory promises, for products whose   *)
(* stock is in the row: an RPC changes the stock at once or refuses; a     *)
(* caller whose context ends does not know whether its RPC was applied,    *)
(* and it may still be, later.  HotdealStock is about running deals.       *)
(***************************************************************************)
EXTENDS Integers, Sequences, FiniteSets, Functions

CONSTANTS Orders,         \* requests to place an order, named by the order
          Visits,         \* requests to confirm or to cancel an order
          Workers,        \* order workers, one per instance
          Products,
          Carts,          \* the item lists an order may have
          MaxItems,       \* bound: the length of the longest of them
          InitialStock,
          MaxInt,         \* the largest stock a column holds, 2^31 - 1
          MaxRetries,     \* how often go-redis sends an LPUSH again
          Modes,          \* which of "sync" and "async" are deployed
          Faults,         \* what may go wrong, a subset of FaultKinds
          MaxCrashes,     \* bound: crashes of the order service
          NoOne

(***************************************************************************)
(*   cancel  a client goes away and its request context ends               *)
(*   refused a decreasing RPC fails and nothing was applied                *)
(*   lost    an increasing RPC fails and nothing was applied               *)
(*   unclear a decreasing RPC is applied and reports an error, as when     *)
(*           GetProductByID fails at the tail of the gRPC handler          *)
(*   db      a statement, a commit or an LPUSH fails, without effect       *)
(*   drop    the transaction of a worker fails, without effect, or the     *)
(*           reply of its BRPOP is lost                                    *)
(*   commit  a commit or an LPUSH takes effect and reports an error        *)
(*   again   the reply of an LPUSH is lost, and go-redis sends it again    *)
(***************************************************************************)
FaultKinds == {"cancel", "refused", "lost", "unclear", "db", "drop", "commit", "again"}

\* wraps: the item's int32 subtotal, or the total with it, is negative.
Item == [product: Products, quantity: -MaxInt - 1 .. MaxInt, wraps: BOOLEAN]

ASSUME CartAssumption ==
  /\ MaxInt \in Nat /\ MaxItems \in Nat
  /\ \A items \in Carts : items \in Seq(Item) /\ Len(items) \in 1 .. MaxItems
ASSUME StockAssumption == InitialStock \in [Products -> 0 .. MaxInt]
ASSUME FaultAssumption == Faults \subseteq FaultKinds /\ MaxCrashes \in Nat /\ MaxRetries \in Nat
ASSUME ModeAssumption == Modes \subseteq {"sync", "async"}
ASSUME FiniteAssumption == IsFiniteSet(Orders)
ASSUME NameAssumption == NoOne \notin Orders \cup Visits /\ Orders \cap Visits = {}

VARIABLES
  stock,      \* [Products -> 0 .. MaxInt], the product service
  late,       \* RPCs abandoned by their caller and not yet decided
  phase,      \* [Orders -> phase of the placing request]
  cart,       \* the items of each order
  mode,       \* how the order is placed
  taken,      \* how many items the request knows it took (decreasedItems)
  undone,     \* how many of them it tried to give back
  gone,       \* has the request's context ended?
  row,        \* [Orders -> status of the row, "none" before its insert]
  lock,       \* [Orders -> Visits \cup {NoOne}], the row lock
  queue,      \* the Redis list, oldest first
  worker,     \* [Workers -> Orders \cup {NoOne}], the popped order
  visit,      \* [Visits -> phase of the confirming or cancelling request]
  target,     \* the order a visit is about
  restored,   \* how many items a cancelling visit tried to give back
  crashes,
  out,        \* history: per order and item, units of one taken and not
              \* given back, in multiples of the item's quantity
  pushed      \* history: the orders pushed on the list, in order

requestVars == <<phase, cart, mode, taken, undone>>
rowVars == <<row, lock>>
asyncVars == <<queue, worker, pushed>>
visitVars == <<visit, target, restored>>
productVars == <<stock, late, out>>
vars == <<productVars, requestVars, gone, rowVars, asyncVars, visitVars, crashes>>

Requests == Orders \cup Visits
Phases == {"new", "pricing", "deducting", "inserting", "undoing",
           "created", "accepted", "failed", "dead"}
VisitPhases == {"new", "confirming", "cancelling", "restoring", "done", "dead"}
Statuses == {"none", "pending", "confirmed", "cancelled"}
Rpc == [order: Orders, item: Nat, delta: {-1, 1}, from: Requests]

Init ==
  /\ stock = InitialStock
  /\ late = {}
  /\ phase = [o \in Orders |-> "new"]
  /\ cart = [o \in Orders |-> <<>>]
  /\ mode \in [Orders -> Modes]
  /\ taken = [o \in Orders |-> 0]
  /\ undone = [o \in Orders |-> 0]
  /\ gone = [r \in Requests |-> FALSE]
  /\ row = [o \in Orders |-> "none"]
  /\ lock = [o \in Orders |-> NoOne]
  /\ queue = <<>>
  /\ worker = [w \in Workers |-> NoOne]
  /\ visit = [v \in Visits |-> "new"]
  /\ target = [v \in Visits |-> NoOne]
  /\ restored = [v \in Visits |-> 0]
  /\ crashes = 0
  /\ out = [o \in Orders |-> [i \in 1 .. MaxItems |-> 0]]
  /\ pushed = <<>>

-----------------------------------------------------------------------------
(***************************************************************************)
(* The product service's UpdateStock for item i of order o: it takes       *)
(* (delta -1) or gives back (delta 1) the item's quantity.  A new stock    *)
(* below zero is refused, and so is one too large for an int32, as the sum *)
(* then wraps and is negative.                                             *)
(***************************************************************************)
\* Slip: the stock is not checked.
EnoughUnchecked(o, i, d) == TRUE
Enough(o, i, d) ==
  LET item == cart[o][i] IN stock[item.product] + d * item.quantity \in 0 .. MaxInt

Applied(o, i, d) ==
  LET item == cart[o][i] IN
  /\ Enough(o, i, d)
  /\ stock' = [stock EXCEPT ![item.product] = @ + d * item.quantity]
  /\ out' = [out EXCEPT ![o][i] = @ - d]

\* The RPC is answered with success.
Succeeds(r, o, i, d) ==
  /\ ~gone[r]
  /\ Applied(o, i, d)
  /\ UNCHANGED <<late, gone>>

\* The RPC fails: a stock that would be out of its range, a server that cannot
\* be reached, a context that had ended, an error after the change, or a context
\* that ends during the call, whose change then comes later or never.
Fails(r, o, i, d) ==
  \/ /\ \/ ~gone[r] /\ ~Enough(o, i, d)
        \/ gone[r]
        \/ d = -1 /\ "refused" \in Faults
        \/ d = 1 /\ "lost" \in Faults
     /\ UNCHANGED <<stock, late, out, gone>>
  \/ /\ d = -1 /\ "unclear" \in Faults
     /\ ~gone[r]
     /\ Applied(o, i, d)
     /\ UNCHANGED <<late, gone>>
  \/ /\ "cancel" \in Faults
     /\ ~gone[r]
     /\ gone' = [gone EXCEPT ![r] = TRUE]
     /\ late' = late \cup {[order |-> o, item |-> i, delta |-> d, from |-> r]}
     /\ UNCHANGED <<stock, out>>

\* An abandoned RPC is decided by the product service after all.
LateRpc(m) ==
  /\ late' = late \ {m}
  /\ \/ Applied(m.order, m.item, m.delta)
     \/ UNCHANGED <<stock, out>>
  /\ UNCHANGED <<requestVars, gone, rowVars, asyncVars, visitVars, crashes>>

\* The client goes away between two steps of its request.
ClientGone(r) ==
  /\ "cancel" \in Faults
  /\ ~gone[r]
  /\ IF r \in Orders THEN phase[r] \in {"pricing", "deducting", "inserting", "undoing"}
                     ELSE visit[r] \in {"confirming", "cancelling", "restoring"}
  /\ gone' = [gone EXCEPT ![r] = TRUE]
  /\ UNCHANGED <<productVars, requestVars, rowVars, asyncVars, visitVars, crashes>>

-----------------------------------------------------------------------------
(***************************************************************************)
(* Placing an order: CreateOrder and AsyncCreateOrder.                     *)
(***************************************************************************)
CreateOrder(o, items) ==
  /\ phase[o] = "new"
  /\ phase' = [phase EXCEPT ![o] = "pricing"]
  /\ cart' = [cart EXCEPT ![o] = items]
  /\ UNCHANGED <<productVars, mode, taken, undone, gone, rowVars, asyncVars, visitVars, crashes>>

\* GetProduct or GetDeal for every item; an unknown product, a deal of another
\* product or a deal that is not active ends the request before any deduction.
PriceItems(o) ==
  /\ phase[o] = "pricing"
  /\ \/ ~gone[o] /\ phase' = [phase EXCEPT ![o] = "deducting"]
     \/ phase' = [phase EXCEPT ![o] = "failed"]
  /\ UNCHANGED <<productVars, cart, mode, taken, undone, gone, rowVars, asyncVars, visitVars, crashes>>

\* Slip: an index from zero where the list counts from one.
LastButOne(o, i) == i >= Len(cart[o]) - 1
LastItem(o, i) == i = Len(cart[o])

\* Slip: an item is recorded before its RPC is answered.
RecordedFirst(o) == taken[o] + 1
RecordedAfterError(o) == taken[o]

\* DecreaseStock for the next item; after the last one the request goes on to
\* write or to push the order, after an error to give back what it took.
DecreaseStock(o) ==
  LET i == taken[o] + 1 IN
  /\ phase[o] = "deducting"
  /\ \/ /\ Succeeds(o, o, i, -1)
        /\ taken' = [taken EXCEPT ![o] = i]
        /\ phase' = [phase EXCEPT ![o] = IF LastItem(o, i) THEN "inserting" ELSE @]
     \/ /\ Fails(o, o, i, -1)
        /\ phase' = [phase EXCEPT ![o] = "undoing"]
        /\ taken' = [taken EXCEPT ![o] = RecordedAfterError(o)]
  /\ UNCHANGED <<cart, mode, undone, rowVars, asyncVars, visitVars, crashes>>

\* IncreaseStock for the next of decreasedItems, whatever it answers.
Compensate(o) ==
  LET i == undone[o] + 1 IN
  /\ phase[o] = "undoing"
  /\ i <= taken[o]
  /\ Succeeds(o, o, i, 1) \/ Fails(o, o, i, 1)
  /\ undone' = [undone EXCEPT ![o] = i]
  /\ UNCHANGED <<phase, cart, mode, taken, rowVars, asyncVars, visitVars, crashes>>

\* Slips: the last deduction is forgotten; every item is to be given back,
\* though not every item was taken.
AllButOneUndone(o) == undone[o] + 1 >= taken[o]
WholeCartUndone(o) == undone[o] = Len(cart[o])
AllUndone(o) == undone[o] = taken[o]

ReturnError(o) ==
  /\ phase[o] = "undoing"
  /\ AllUndone(o)
  /\ phase' = [phase EXCEPT ![o] = "failed"]
  /\ UNCHANGED <<productVars, cart, mode, taken, undone, gone, rowVars, asyncVars, visitVars, crashes>>

\* The CHECKs of orders and order_items accept the order.
Insertable(items) == \A i \in 1 .. Len(items) : items[i].quantity >= 1 /\ ~items[i].wraps

\* The transaction that inserts the order and its items, up to its commit:
\* the row appears as a whole or not at all.
InsertOrder(o) ==
  /\ phase[o] = "inserting"
  /\ mode[o] = "sync"
  /\ \/ /\ ~gone[o]
        /\ Insertable(cart[o])
        /\ row' = [row EXCEPT ![o] = "pending"]
        /\ phase' = [phase EXCEPT ![o] = "created"]
     \/ /\ gone[o] \/ "db" \in Faults \/ ~Insertable(cart[o])
        /\ phase' = [phase EXCEPT ![o] = "undoing"]
        /\ UNCHANGED row
     \/ /\ "commit" \in Faults
        /\ Insertable(cart[o])
        /\ row' = [row EXCEPT ![o] = "pending"]
        /\ phase' = [phase EXCEPT ![o] = "undoing"]
  /\ UNCHANGED <<productVars, cart, mode, taken, undone, gone, lock, asyncVars, visitVars, crashes>>

\* LPUSH: the order is answered "processing" and written later.  If its reply
\* is lost it is sent again, and the order is in the list twice.
Pushes(o) == {k \in 1 .. Len(pushed) : pushed[k] = o}
Enqueue(o) ==
  /\ phase[o] = "inserting"
  /\ mode[o] = "async"
  /\ \/ /\ ~gone[o]
        /\ queue' = Append(queue, o)
        /\ pushed' = Append(pushed, o)
        /\ phase' = [phase EXCEPT ![o] = "accepted"]
     \/ /\ gone[o] \/ "db" \in Faults
        /\ phase' = [phase EXCEPT ![o] = "undoing"]
        /\ UNCHANGED <<queue, pushed>>
     \/ /\ "commit" \in Faults
        /\ queue' = Append(queue, o)
        /\ pushed' = Append(pushed, o)
        /\ phase' = [phase EXCEPT ![o] = "undoing"]
     \/ /\ "again" \in Faults
        /\ ~gone[o]
        /\ Cardinality(Pushes(o)) < MaxRetries
        /\ queue' = Append(queue, o)
        /\ pushed' = Append(pushed, o)
        /\ UNCHANGED phase
  /\ UNCHANGED <<productVars, cart, mode, taken, undone, gone, rowVars, worker, visitVars, crashes>>

-----------------------------------------------------------------------------
(***************************************************************************)
(* OrderWorker: BRPOP, then one transaction.  An order whose transaction   *)
(* fails is logged and dropped: nothing gives its stock back.              *)
(***************************************************************************)
\* Slips: the newest order is popped; the popped order is not kept.
DequeueNewest(w) ==
  /\ worker[w] = NoOne
  /\ queue # <<>>
  /\ worker' = [worker EXCEPT ![w] = queue[Len(queue)]]
  /\ queue' = SubSeq(queue, 1, Len(queue) - 1)
  /\ UNCHANGED <<productVars, requestVars, gone, rowVars, pushed, visitVars, crashes>>
DequeueDropped(w) ==
  /\ worker[w] = NoOne
  /\ queue # <<>>
  /\ queue' = Tail(queue)
  /\ UNCHANGED <<productVars, requestVars, gone, rowVars, worker, pushed, visitVars, crashes>>

Dequeue(w) ==
  /\ worker[w] = NoOne
  /\ queue # <<>>
  /\ worker' = [worker EXCEPT ![w] = Head(queue)]
  /\ queue' = Tail(queue)
  /\ UNCHANGED <<productVars, requestVars, gone, rowVars, pushed, visitVars, crashes>>

\* The CHECKs, and the primary key, as the order's id is given in its request.
Writable(o) == row[o] = "none" /\ Insertable(cart[o])

ProcessOrder(w) ==
  /\ worker[w] # NoOne
  /\ \/ /\ Writable(worker[w])
        /\ row' = [row EXCEPT ![worker[w]] = "confirmed"]
     \/ /\ "drop" \in Faults \/ ~Writable(worker[w])
        /\ UNCHANGED row
  /\ worker' = [worker EXCEPT ![w] = NoOne]
  /\ UNCHANGED <<productVars, requestVars, gone, lock, queue, pushed, visitVars, crashes>>

-----------------------------------------------------------------------------
(***************************************************************************)
(* ConfirmOrder and CancelOrder, by the order's owner.  SELECT ... FOR     *)
(* UPDATE takes the row lock; the status it returns decides.               *)
(***************************************************************************)
\* Slip: the SELECT has no FOR UPDATE.
NoRowLock(o) == TRUE
RowFree(o) == lock[o] = NoOne

\* Slip: any existing order can be confirmed.
ConfirmableLoosely == Statuses \ {"none"}
Confirmable == {"pending"}
Cancellable == {"pending", "confirmed"}

Begin(v, o, next, statuses) ==
  /\ visit[v] = "new"
  /\ row[o] # "none"
  /\ RowFree(o)
  /\ target' = [target EXCEPT ![v] = o]
  /\ \/ /\ row[o] \in statuses
        /\ visit' = [visit EXCEPT ![v] = next]
        /\ lock' = [lock EXCEPT ![o] = v]
     \/ /\ row[o] \notin statuses
        /\ visit' = [visit EXCEPT ![v] = "done"]
        /\ UNCHANGED lock
  /\ UNCHANGED <<productVars, requestVars, gone, row, asyncVars, restored, crashes>>

ConfirmOrder(v, o) == Begin(v, o, "confirming", Confirmable)
CancelOrder(v, o) == Begin(v, o, "cancelling", Cancellable)

\* UPDATE and COMMIT, or an error and the deferred rollback.
CommitConfirm(v) ==
  /\ visit[v] = "confirming"
  /\ \/ ~gone[v] /\ row' = [row EXCEPT ![target[v]] = "confirmed"]
     \/ (gone[v] \/ "db" \in Faults) /\ UNCHANGED row
     \/ "commit" \in Faults /\ row' = [row EXCEPT ![target[v]] = "confirmed"]
  /\ visit' = [visit EXCEPT ![v] = "done"]
  /\ lock' = [lock EXCEPT ![target[v]] = NoOne]
  /\ UNCHANGED <<productVars, requestVars, gone, asyncVars, target, restored, crashes>>

\* Slip: the stock of a cancelled order is not given back.
CancelledAtOnce == "done"
AfterCancel == "restoring"

CommitCancel(v) ==
  /\ visit[v] = "cancelling"
  /\ \/ /\ ~gone[v]
        /\ row' = [row EXCEPT ![target[v]] = "cancelled"]
        /\ visit' = [visit EXCEPT ![v] = AfterCancel]
     \/ /\ gone[v] \/ "db" \in Faults
        /\ visit' = [visit EXCEPT ![v] = "done"]
        /\ UNCHANGED row
     \/ /\ "commit" \in Faults
        /\ row' = [row EXCEPT ![target[v]] = "cancelled"]
        /\ visit' = [visit EXCEPT ![v] = "done"]
  /\ lock' = [lock EXCEPT ![target[v]] = NoOne]
  /\ UNCHANGED <<productVars, requestVars, gone, asyncVars, target, restored, crashes>>

\* IncreaseStock for the next item of the cancelled order, whatever it answers.
RestoreStock(v) ==
  LET i == restored[v] + 1 IN
  /\ visit[v] = "restoring"
  /\ Succeeds(v, target[v], i, 1) \/ Fails(v, target[v], i, 1)
  /\ restored' = [restored EXCEPT ![v] = i]
  /\ visit' = [visit EXCEPT ![v] = IF LastItem(target[v], i) THEN "done" ELSE @]
  /\ UNCHANGED <<requestVars, rowVars, asyncVars, target, crashes>>

-----------------------------------------------------------------------------
(***************************************************************************)
(* The order service dies: its requests and its workers' orders are gone,  *)
(* its transactions are rolled back; rows, stock and list stay.            *)
(***************************************************************************)
Crash ==
  /\ crashes < MaxCrashes
  /\ crashes' = crashes + 1
  /\ phase' = [o \in Orders |->
       IF phase[o] \in {"pricing", "deducting", "inserting", "undoing"} THEN "dead" ELSE phase[o]]
  /\ visit' = [v \in Visits |->
       IF visit[v] \in {"confirming", "cancelling", "restoring"} THEN "dead" ELSE visit[v]]
  /\ lock' = [o \in Orders |-> NoOne]
  /\ worker' = [w \in Workers |-> NoOne]
  /\ UNCHANGED <<productVars, cart, mode, taken, undone, gone, row, queue, pushed, target, restored>>

Place(o) ==
  \/ PriceItems(o)
  \/ DecreaseStock(o)
  \/ Compensate(o)
  \/ ReturnError(o)
  \/ InsertOrder(o)
  \/ Enqueue(o)

Work(w) == Dequeue(w) \/ ProcessOrder(w)

Serve(v) == CommitConfirm(v) \/ CommitCancel(v) \/ RestoreStock(v)

Next ==
  \/ \E o \in Orders : Place(o) \/ \E items \in Carts : CreateOrder(o, items)
  \/ \E w \in Workers : Work(w)
  \/ \E v \in Visits : Serve(v) \/ \E o \in Orders : ConfirmOrder(v, o) \/ CancelOrder(v, o)
  \/ \E r \in Requests : ClientGone(r)
  \/ \E m \in late : LateRpc(m)
  \/ Crash

Spec == Init /\ [][Next]_vars

(***************************************************************************)
(* A handler that has begun, and a worker, go on; nobody is obliged to ask *)
(* for anything, and nothing is obliged to fail.                           *)
(***************************************************************************)
FairSpec ==
  /\ Spec
  /\ \A o \in Orders : WF_vars(Place(o))
  /\ \A w \in Workers : WF_vars(Work(w))
  /\ \A v \in Visits : WF_vars(Serve(v))

-----------------------------------------------------------------------------
(* Properties *)

\* Every variable keeps to its type: the stock stays within its column, and
\* every popped or pushed name is that of an order.
TypeOK ==
  /\ stock \in [Products -> 0 .. MaxInt]
  /\ late \subseteq Rpc
  /\ phase \in [Orders -> Phases]
  /\ cart \in [Orders -> Carts \cup {<<>>}]
  /\ mode \in [Orders -> Modes]
  /\ taken \in [Orders -> Nat]
  /\ undone \in [Orders -> Nat]
  /\ gone \in [Requests -> BOOLEAN]
  /\ row \in [Orders -> Statuses]
  /\ lock \in [Orders -> Visits \cup {NoOne}]
  /\ queue \in Seq(Orders)
  /\ worker \in [Workers -> Orders \cup {NoOne}]
  /\ visit \in [Visits -> VisitPhases]
  /\ target \in [Visits -> Orders \cup {NoOne}]
  /\ restored \in [Visits -> Nat]
  /\ crashes \in 0 .. MaxCrashes
  /\ out \in [Orders -> [1 .. MaxItems -> Int]]
  /\ pushed \in Seq(Orders)

\* An order whose request failed although its commit took effect.
Ghost(o) == row[o] # "none" /\ phase[o] \notin {"inserting", "created", "accepted"}
Live(o) == row[o] \in {"pending", "confirmed"}
ItemsOf(o) == 1 .. Len(cart[o])

\* No order has asked for less than nothing of a product.
Items == Orders \X (1 .. MaxItems)
Names(x, p) == x[2] \in ItemsOf(x[1]) /\ cart[x[1]][x[2]].product = p
NeverNegative(p) == \A x \in Items : Names(x, p) => cart[x[1]][x[2]].quantity >= 0

\* A live order whose request did not fail has its stock: each of its items
\* was taken exactly once and not given back, in both modes, whatever else
\* fails, comes late or crashes.
LiveOrderHoldsItsStock ==
  \A o \in Orders :
    Live(o) /\ ~Ghost(o) => \A i \in ItemsOf(o) : out[o][i] = 1

\* An order accepted for later keeps its stock until its row is written.
AcceptedOrderHoldsItsStock ==
  \A o \in Orders :
    phase[o] = "accepted" /\ row[o] = "none" => \A i \in ItemsOf(o) : out[o][i] = 1

\* No item is given back more often than it was taken: compensation,
\* cancellation, late RPCs and concurrent cancellations together restore at
\* most once.  Every fault loses stock and none invents it, but one: a failed
\* request whose commit took effect all the same leaves an order behind that
\* can be cancelled as well (Ghost).
NothingRestoredTwice ==
  \A o \in Orders : ~Ghost(o) => \A i \in 1 .. MaxItems : out[o][i] \in {0, 1}

\* The compensation pattern: a request that failed holds no stock, also when
\* the CHECKs refused it.  It is stated of the products no order has asked a
\* negative quantity of: such an order raises the stock, and then both its
\* own compensation and that of others can be refused.
FailedOrderHoldsNothing ==
  \A o \in Orders : phase[o] = "failed" =>
    \A i \in ItemsOf(o) : NeverNegative(cart[o][i].product) => out[o][i] = 0

\* The comment at the compensation: what was already deducted is restored.
DeductedIsReturned ==
  \A o \in Orders : phase[o] = "failed" => \A i \in 1 .. taken[o] : out[o][i] = 0

\* A cancelled order has given its stock back once its cancellation returned,
\* again of products no order has asked a negative quantity of.
CancelledOrderHoldsNothing ==
  \A o \in Orders, v \in Visits :
    (row[o] = "cancelled" /\ target[v] = o /\ \A u \in Visits : target[u] = o => visit[u] = "done")
      => \A i \in ItemsOf(o) : NeverNegative(cart[o][i].product) => out[o][i] = 0

\* No oversell: the live orders together hold no more of a product than there
\* was, unless an order with a negative quantity has added units of it that
\* never were: such an order itself is never live, but what it added is sold.
Promised(p) == {x \in Items : Live(x[1]) /\ Names(x, p)}
NoOversell ==
  \A p \in Products : NeverNegative(p) =>
    SumFunction([x \in Promised(p) |-> cart[x[1]][x[2]].quantity]) <= InitialStock[p]

\* Statuses only move forward: a cancelled order stays cancelled, a confirmed
\* one is never pending again, and a row is never removed, even with
\* confirmations and cancellations racing.
Rank == [s \in Statuses |->
  CASE s = "none" -> 0 [] s = "pending" -> 1 [] s = "confirmed" -> 2 [] OTHER -> 3]
StatusMovesForward == [][\A o \in Orders : Rank[row[o]] <= Rank[row'[o]]]_row

\* With one worker, rows appear in the order of the pushes: when the row of
\* an order appears, no order pushed before it, however often either was
\* pushed, still waits for its own.
Waiting == {queue[k] : k \in 1 .. Len(queue)} \cup {worker[w] : w \in Workers}
PushedBefore(p, o) == \A i \in Pushes(p), j \in Pushes(o) : i < j
RowsInPushOrder ==
  [][\A i, j \in 1 .. Len(pushed) :
       (PushedBefore(pushed[i], pushed[j]) /\ row[pushed[j]] = "none" /\ row'[pushed[j]] # "none")
         => pushed[i] \notin Waiting']_vars

\* A request that was begun returns, unless the service dies: no step of the
\* compensation or of the restoration can hang, and no row lock is kept.
EveryRequestReturns ==
  /\ \A o \in Orders :
       phase[o] = "pricing" ~> phase[o] \in {"created", "accepted", "failed", "dead"}
  /\ \A v \in Visits :
       visit[v] \in {"confirming", "cancelling"} ~> visit[v] \in {"done", "dead"}

\* An accepted order gets its row, if the CHECKs let it: one that they refuse
\* was answered 202 as well, and is dropped.
AcceptedOrderIsWritten ==
  \A o \in Orders : phase[o] = "accepted" /\ Insertable(cart[o]) ~> row[o] # "none"
=============================================================================
