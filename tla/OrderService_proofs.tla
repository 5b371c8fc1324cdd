------------------------- MODULE OrderService_proofs -------------------------
(***************************************************************************)
(* Theorems about OrderService, for every set of orders, visits, workers   *)
(* and products, every cart, and every choice of faults and crashes unless *)
(* a theorem names the faults it excludes.                                 *)
(***************************************************************************)
EXTENDS OrderService, Sums_proofs, TLAPS

Stopped == {"undoing", "failed", "dead"}
Placed == {"created", "accepted"}
Whole == {"inserting"} \cup Placed

(***************************************************************************)
(* How far a request got: what it gave back it had taken, what it took is  *)
(* in its cart, it goes on to write only when it took everything, and      *)
(* gives back only when it stopped.  A row can be there before its request *)
(* was answered only if an LPUSH is being sent again.                      *)
(***************************************************************************)
Progress(o) ==
  /\ phase[o] # "new" => cart[o] \in Carts
  /\ phase[o] = "new" => cart[o] = <<>>
  /\ undone[o] <= taken[o] /\ taken[o] <= Len(cart[o])
  /\ phase[o] \in {"new", "pricing"} => taken[o] = 0
  /\ phase[o] = "deducting" => taken[o] < Len(cart[o])
  /\ phase[o] \in Whole => taken[o] = Len(cart[o])
  /\ undone[o] > 0 => phase[o] \in Stopped
  /\ row[o] # "none" => phase[o] \in Whole \cup Stopped
  /\ row[o] # "none" /\ phase[o] = "inserting" => mode[o] = "async"

RequestsProgress == \A o \in Orders : Progress(o)

(***************************************************************************)
(* A visit that holds a row lock has read the status under it, and gives   *)
(* stock back only of an order it, and no other visit, has cancelled.      *)
(***************************************************************************)
Restores(v) == visit[v] = "restoring" \/ restored[v] > 0

Visiting(v) ==
  /\ visit[v] = "new" => target[v] = NoOne
  /\ visit[v] # "new" => target[v] \in Orders /\ row[target[v]] # "none"
  /\ visit[v] \in {"confirming", "cancelling"} => lock[target[v]] = v
  /\ visit[v] = "confirming" => row[target[v]] = "pending"
  /\ visit[v] = "cancelling" => row[target[v]] \in {"pending", "confirmed"}
  /\ Restores(v) => visit[v] # "new" /\ row[target[v]] = "cancelled"
  /\ visit[v] = "restoring" => restored[v] < Len(cart[target[v]])
  /\ restored[v] > 0 => restored[v] <= Len(cart[target[v]])

VisitsExclusive ==
  /\ \A v \in Visits : Visiting(v)
  /\ \A u, v \in Visits :
       Restores(u) /\ Restores(v) /\ target[u] = target[v] => u = v

(***************************************************************************)
(* Who waits in the list or with a worker was pushed by a request that had *)
(* taken all of its items.                                                 *)
(***************************************************************************)
Awaits(o) == o \in Orders /\ mode[o] = "async" /\ phase[o] \in Whole \cup Stopped

OnlyPushedWait ==
  /\ \A i \in 1 .. Len(queue) : Awaits(queue[i])
  /\ \A w \in Workers : worker[w] # NoOne => Awaits(worker[w])

(***************************************************************************)
(* Where an item's stock is.  Unless the order is a ghost, an item that    *)
(* was taken and that nobody tried to give back is held, and only the item *)
(* whose RPC failed may be held without the request knowing.               *)
(***************************************************************************)
HeldUnlessReturned(o) ==
  \A i \in 1 .. MaxItems :
    /\ out[o][i] \in {0, 1}
    /\ i > taken[o] + 1 => out[o][i] = 0
    /\ i = taken[o] + 1 /\ phase[o] \notin Stopped => out[o][i] = 0
    /\ undone[o] < i /\ i <= taken[o] /\ (\A v \in Visits : target[v] = o => restored[v] < i)
         => out[o][i] = 1

StockTracked == \A o \in Orders : ~Ghost(o) => HeldUnlessReturned(o)

(***************************************************************************)
(* An abandoned RPC is the failed deduction, or the return of an item that *)
(* the request or the one cancelling visit counts as returned; applied     *)
(* late, it still finds the item as it was.                                *)
(***************************************************************************)
Abandoned(m) ==
  \/ /\ m.from = m.order /\ m.delta = -1
     /\ m.item = taken[m.order] + 1 /\ phase[m.order] \in Stopped
  \/ /\ m.from = m.order /\ m.delta = 1
     /\ m.item <= undone[m.order]
  \/ /\ m.from \in Visits /\ m.delta = 1
     /\ target[m.from] = m.order /\ m.item <= restored[m.from]

LateOnce ==
  \A m \in late :
    /\ m.item \in 1 .. Len(cart[m.order])
    /\ Abandoned(m)
    /\ ~Ghost(m.order) => out[m.order][m.item] = IF m.delta = -1 THEN 0 ELSE 1

IInv ==
  /\ TypeOK
  /\ RequestsProgress
  /\ VisitsExclusive
  /\ OnlyPushedWait
  /\ StockTracked
  /\ LateOnce

-----------------------------------------------------------------------------
\* An item of a cart names a product and a quantity.
LEMMA ItemType ==
  ASSUME TypeOK, RequestsProgress, NEW o \in Orders, NEW i \in 1 .. Len(cart[o])
  PROVE  /\ cart[o] \in Carts /\ Len(cart[o]) \in 1 .. MaxItems
         /\ cart[o][i].product \in Products /\ cart[o][i].quantity \in Int
         /\ i \in 1 .. MaxItems
<1>1. cart[o] \in Carts \cup {<<>>}
  BY DEF TypeOK
<1>2. cart[o] \in Carts
  BY <1>1
<1>3. cart[o] \in Seq(Item) /\ Len(cart[o]) \in 1 .. MaxItems /\ MaxItems \in Nat
  BY <1>2, CartAssumption
<1>4. cart[o][i] \in Item
  BY <1>3
<1>5. cart[o][i].product \in Products /\ cart[o][i].quantity \in Int
  BY <1>4, CartAssumption DEF Item
<1> QED
  BY <1>2, <1>3, <1>5

\* The length of a cart, empty while the order is new.
LEMMA CartLength ==
  ASSUME TypeOK, NEW o \in Orders
  PROVE  Len(cart[o]) \in 0 .. MaxItems
<1>1. cart[o] \in Carts \cup {<<>>}
  BY DEF TypeOK
<1> QED
  BY <1>1, CartAssumption

\* An RPC that is applied keeps the stock within its column.
LEMMA AppliedType ==
  ASSUME TypeOK, RequestsProgress, NEW o \in Orders, NEW i \in 1 .. Len(cart[o]),
         NEW d \in {-1, 1}, Applied(o, i, d)
  PROVE  /\ stock' \in [Products -> 0 .. MaxInt]
         /\ out' = [out EXCEPT ![o][i] = @ - d]
         /\ out' \in [Orders -> [1 .. MaxItems -> Int]]
<1> DEFINE item == cart[o][i]
<1>1. item.product \in Products /\ item.quantity \in Int /\ i \in 1 .. MaxItems
  BY ItemType
<1>2. /\ stock[item.product] + d * item.quantity \in 0 .. MaxInt
      /\ stock' = [stock EXCEPT ![item.product] = @ + d * item.quantity]
      /\ out' = [out EXCEPT ![o][i] = @ - d]
  BY DEF Applied, Enough
<1>3. stock \in [Products -> 0 .. MaxInt] /\ out \in [Orders -> [1 .. MaxItems -> Int]]
  BY DEF TypeOK
<1>q. d * item.quantity \in Int
  BY <1>1
<1> HIDE DEF item
<1>4. stock[item.product] + d * item.quantity \in 0 .. MaxInt
  BY <1>2
<1>5. stock' \in [Products -> 0 .. MaxInt]
  BY <1>1, <1>2, <1>3, <1>4
<1>6. out[o][i] - d \in Int
  <2>1. out[o] \in [1 .. MaxItems -> Int]
    BY <1>3
  <2>2. out[o][i] \in Int
    BY <1>1, <2>1
  <2>3. d \in Int
    OBVIOUS
  <2> QED
    BY <2>2, <2>3
<1> QED
  BY <1>1, <1>2, <1>3, <1>5, <1>6

\* What an RPC of a request or a visit may do: it is applied, or nothing
\* happens, or its caller goes away and leaves it behind.
LEMMA RpcOutcome ==
  ASSUME TypeOK, NEW r \in Requests, NEW o, NEW i, NEW d,
         Succeeds(r, o, i, d) \/ Fails(r, o, i, d)
  PROVE  \/ Applied(o, i, d) /\ UNCHANGED <<late, gone>> /\ (Succeeds(r, o, i, d) \/ d = -1)
         \/ UNCHANGED <<stock, out, late, gone>>
         \/ /\ UNCHANGED <<stock, out>>
            /\ gone' = [gone EXCEPT ![r] = TRUE]
            /\ late' = late \cup {[order |-> o, item |-> i, delta |-> d, from |-> r]}
BY DEF Succeeds, Fails

\* The invariant holds before anybody has asked for anything.
LEMMA InitIInv == Init => IInv
<1> SUFFICES ASSUME Init PROVE IInv
  OBVIOUS
<1> USE StockAssumption, FaultAssumption, ModeAssumption, CartAssumption DEF Init
<1>1. TypeOK
  BY DEF TypeOK, Phases, Statuses, VisitPhases, Rpc
<1>2. RequestsProgress
  BY DEF RequestsProgress, Progress, Placed, Whole, Stopped
<1>3. VisitsExclusive
  BY DEF VisitsExclusive, Visiting, Restores
<1>4. OnlyPushedWait
  BY DEF OnlyPushedWait
<1>5. StockTracked
  BY DEF StockTracked, HeldUnlessReturned
<1>6. LateOnce
  BY DEF LateOnce
<1> QED
  BY <1>1, <1>2, <1>3, <1>4, <1>5, <1>6 DEF IInv
-----------------------------------------------------------------------------
(* The types are kept. *)

\* What the product service keeps of its type when an RPC is called.
LEMMA RpcType ==
  ASSUME TypeOK, RequestsProgress, NEW r \in Requests, NEW o \in Orders,
         NEW i \in 1 .. Len(cart[o]), NEW d \in {-1, 1},
         Succeeds(r, o, i, d) \/ Fails(r, o, i, d)
  PROVE  /\ stock' \in [Products -> 0 .. MaxInt] /\ late' \subseteq Rpc
         /\ gone' \in [Requests -> BOOLEAN]
         /\ out' \in [Orders -> [1 .. MaxItems -> Int]]
<1>1. CASE Applied(o, i, d) /\ UNCHANGED <<late, gone>>
  BY <1>1, AppliedType DEF TypeOK
<1>2. CASE UNCHANGED <<stock, out, late, gone>>
  BY <1>2 DEF TypeOK
<1>3. CASE /\ UNCHANGED <<stock, out>>
           /\ gone' = [gone EXCEPT ![r] = TRUE]
           /\ late' = late \cup {[order |-> o, item |-> i, delta |-> d, from |-> r]}
  <2>1. [order |-> o, item |-> i, delta |-> d, from |-> r] \in Rpc
    BY CartLength DEF Rpc
  <2> QED
    BY <1>3, <2>1 DEF TypeOK
<1> QED
  BY <1>1, <1>2, <1>3, RpcOutcome

\* No step breaks TypeOK.
LEMMA TypeNext ==
  ASSUME TypeOK, RequestsProgress, VisitsExclusive, LateOnce, [Next]_vars
  PROVE  TypeOK'
<1> USE DEF TypeOK, Phases, Statuses, VisitPhases
<1>1. ASSUME NEW o \in Orders, NEW items \in Carts, CreateOrder(o, items) PROVE TypeOK'
  BY <1>1 DEF CreateOrder, productVars, rowVars, asyncVars, visitVars
<1>2. ASSUME NEW o \in Orders, PriceItems(o) \/ ReturnError(o) PROVE TypeOK'
  BY <1>2 DEF PriceItems, ReturnError, productVars, rowVars, asyncVars, visitVars
<1>3. ASSUME NEW o \in Orders, DecreaseStock(o) PROVE TypeOK'
  <2> DEFINE i == taken[o] + 1
  <2>1. i \in 1 .. Len(cart[o])
    BY <1>3, CartLength DEF DecreaseStock, RequestsProgress, Progress
  <2>2. Succeeds(o, o, i, -1) \/ Fails(o, o, i, -1)
    BY <1>3 DEF DecreaseStock
  <2>3. /\ stock' \in [Products -> 0 .. MaxInt] /\ late' \subseteq Rpc
        /\ gone' \in [Requests -> BOOLEAN]
        /\ out' \in [Orders -> [1 .. MaxItems -> Int]]
    <3> HIDE DEF i
    <3> QED
      BY <2>1, <2>2, RpcType DEF Requests
  <2>4. taken' \in [Orders -> Nat]
    <3>1. taken' = [taken EXCEPT ![o] = taken[o] + 1] \/ taken' = [taken EXCEPT ![o] = taken[o]]
      BY <1>3 DEF DecreaseStock, RecordedAfterError
    <3>2. taken \in [Orders -> Nat]
      OBVIOUS
    <3>3. taken[o] + 1 \in Nat
      BY <3>2
    <3> HIDE DEF TypeOK
    <3> QED
      BY <3>1, <3>2, <3>3
  <2>6. phase' \in [Orders -> Phases]
    BY <1>3 DEF DecreaseStock
  <2>5. UNCHANGED <<cart, mode, undone, row, lock, queue, worker, pushed,
                    visit, target, restored, crashes>>
    BY <1>3 DEF DecreaseStock, rowVars, asyncVars, visitVars
  <2> QED
    BY <2>3, <2>4, <2>5, <2>6
<1>4. ASSUME NEW o \in Orders, Compensate(o) PROVE TypeOK'
  <2> DEFINE i == undone[o] + 1
  <2>1. i \in 1 .. Len(cart[o])
    BY <1>4, CartLength DEF Compensate, RequestsProgress, Progress
  <2>2. Succeeds(o, o, i, 1) \/ Fails(o, o, i, 1)
    BY <1>4 DEF Compensate
  <2>3. /\ stock' \in [Products -> 0 .. MaxInt] /\ late' \subseteq Rpc
        /\ gone' \in [Requests -> BOOLEAN]
        /\ out' \in [Orders -> [1 .. MaxItems -> Int]]
    <3> HIDE DEF i
    <3> QED
      BY <2>1, <2>2, RpcType DEF Requests
  <2>4. undone' \in [Orders -> Nat]
    <3>1. undone' = [undone EXCEPT ![o] = undone[o] + 1]
      BY <1>4 DEF Compensate
    <3>2. undone \in [Orders -> Nat]
      OBVIOUS
    <3>3. undone[o] + 1 \in Nat
      BY <3>2
    <3> HIDE DEF TypeOK
    <3> QED
      BY <3>1, <3>2, <3>3
  <2>5. UNCHANGED <<phase, cart, mode, taken, row, lock, queue, worker, pushed,
                    visit, target, restored, crashes>>
    BY <1>4 DEF Compensate, rowVars, asyncVars, visitVars
  <2> QED
    BY <2>3, <2>4, <2>5
<1>5. ASSUME NEW o \in Orders, InsertOrder(o) PROVE TypeOK'
  BY <1>5 DEF InsertOrder, productVars, asyncVars, visitVars
<1>6. ASSUME NEW o \in Orders, Enqueue(o) PROVE TypeOK'
  <2>1. queue' \in Seq(Orders) /\ pushed' \in Seq(Orders)
    <3>1. Append(queue, o) \in Seq(Orders) /\ Append(pushed, o) \in Seq(Orders)
      OBVIOUS
    <3>2. queue' \in {queue, Append(queue, o)} /\ pushed' \in {pushed, Append(pushed, o)}
      BY <1>6 DEF Enqueue
    <3> QED
      BY <3>1, <3>2
  <2>2. phase' \in [Orders -> Phases]
    BY <1>6 DEF Enqueue
  <2>3. UNCHANGED <<stock, late, out, cart, mode, taken, undone, gone, row, lock, worker,
                    visit, target, restored, crashes>>
    BY <1>6 DEF Enqueue, productVars, rowVars, visitVars
  <2> QED
    BY <2>1, <2>2, <2>3
<1>7. ASSUME NEW w \in Workers, Dequeue(w) PROVE TypeOK'
  BY <1>7 DEF Dequeue, productVars, requestVars, rowVars, visitVars
<1>8. ASSUME NEW w \in Workers, ProcessOrder(w) PROVE TypeOK'
  BY <1>8 DEF ProcessOrder, productVars, requestVars, visitVars
<1>9. ASSUME NEW v \in Visits, NEW o \in Orders, ConfirmOrder(v, o) \/ CancelOrder(v, o) PROVE TypeOK'
  BY <1>9 DEF ConfirmOrder, CancelOrder, Begin, productVars, requestVars, asyncVars
<1>10. ASSUME NEW v \in Visits, CommitConfirm(v) PROVE TypeOK'
  BY <1>10 DEF CommitConfirm, productVars, requestVars, asyncVars
<1>11. ASSUME NEW v \in Visits, CommitCancel(v) PROVE TypeOK'
  BY <1>11 DEF CommitCancel, AfterCancel, productVars, requestVars, asyncVars
<1>12. ASSUME NEW v \in Visits, RestoreStock(v) PROVE TypeOK'
  <2> DEFINE i == restored[v] + 1
             o == target[v]
  <2>1. o \in Orders /\ i \in 1 .. Len(cart[o])
    BY <1>12, CartLength DEF RestoreStock, VisitsExclusive, Visiting
  <2>2. Succeeds(v, o, i, 1) \/ Fails(v, o, i, 1)
    BY <1>12 DEF RestoreStock
  <2>3. /\ stock' \in [Products -> 0 .. MaxInt] /\ late' \subseteq Rpc
        /\ gone' \in [Requests -> BOOLEAN]
        /\ out' \in [Orders -> [1 .. MaxItems -> Int]]
    <3> HIDE DEF i, o
    <3> QED
      BY <2>1, <2>2, RpcType DEF Requests
  <2> QED
    BY <1>12, <2>3 DEF RestoreStock, requestVars, rowVars, asyncVars
<1>13. ASSUME NEW r \in Requests, ClientGone(r) PROVE TypeOK'
  BY <1>13 DEF ClientGone, productVars, requestVars, rowVars, asyncVars, visitVars
<1>14. ASSUME NEW m \in late, LateRpc(m) PROVE TypeOK'
  <2>1. m \in Rpc /\ m.item \in 1 .. Len(cart[m.order])
    BY <1>14 DEF LateOnce
  <2>2. m.order \in Orders /\ m.delta \in {-1, 1}
    BY <2>1 DEF Rpc
  <2>3. /\ stock' \in [Products -> 0 .. MaxInt]
        /\ out' \in [Orders -> [1 .. MaxItems -> Int]]
    BY <1>14, <2>1, <2>2, AppliedType DEF LateRpc
  <2> QED
    BY <1>14, <2>3 DEF LateRpc, requestVars, rowVars, asyncVars, visitVars
<1>15. CASE Crash
  BY <1>15, FaultAssumption DEF Crash, productVars
<1>16. CASE UNCHANGED vars
  BY <1>16 DEF vars, productVars, requestVars, rowVars, asyncVars, visitVars
<1> QED
  BY <1>1, <1>2, <1>3, <1>4, <1>5, <1>6, <1>7, <1>8, <1>9, <1>10, <1>11, <1>12,
     <1>13, <1>14, <1>15, <1>16 DEF Next, Place, Work, Serve
-----------------------------------------------------------------------------
(* Frames: which actions can disturb which part of the state. *)

\* Only the steps of a placing request, and Crash, change what it keeps.
LEMMA RequestFrame ==
  ASSUME [Next]_vars
  PROVE  \/ \E o \in Orders : Place(o) \/ \E items \in Carts : CreateOrder(o, items)
         \/ Crash
         \/ UNCHANGED requestVars
BY DEF Next, Work, Serve, Dequeue, ProcessOrder, CommitConfirm, CommitCancel, RestoreStock,
       ConfirmOrder, CancelOrder, Begin, ClientGone, LateRpc, vars

\* Rows are written by an insert, a worker, a confirmation or a cancellation.
LEMMA RowFrame ==
  ASSUME [Next]_vars
  PROVE  \/ \E o \in Orders : InsertOrder(o)
         \/ \E w \in Workers : ProcessOrder(w)
         \/ \E v \in Visits : CommitConfirm(v) \/ CommitCancel(v)
         \/ UNCHANGED row
BY DEF Next, Place, Work, Serve, CreateOrder, PriceItems, DecreaseStock, Compensate,
       ReturnError, Enqueue, Dequeue, RestoreStock, ConfirmOrder, CancelOrder, Begin,
       ClientGone, LateRpc, Crash, vars, rowVars

\* Only a visit's own steps, and Crash, change what it keeps.
LEMMA VisitFrame ==
  ASSUME [Next]_vars
  PROVE  \/ \E v \in Visits : Serve(v) \/ \E o \in Orders : ConfirmOrder(v, o) \/ CancelOrder(v, o)
         \/ Crash
         \/ UNCHANGED visitVars
BY DEF Next, Place, Work, CreateOrder, PriceItems, DecreaseStock, Compensate, ReturnError,
       InsertOrder, Enqueue, Dequeue, ProcessOrder, ClientGone, LateRpc, vars

\* Only a push, a worker and Crash touch the list and what workers hold.
LEMMA AsyncFrame ==
  ASSUME [Next]_vars
  PROVE  \/ \E o \in Orders : Enqueue(o)
         \/ \E w \in Workers : Work(w)
         \/ Crash
         \/ UNCHANGED asyncVars
BY DEF Next, Place, Serve, CreateOrder, PriceItems, DecreaseStock, Compensate, ReturnError,
       InsertOrder, RestoreStock, CommitConfirm, CommitCancel, ConfirmOrder, CancelOrder,
       Begin, ClientGone, LateRpc, vars

\* Only an RPC, in time or late, changes what is out and what is late.
LEMMA StockFrame ==
  ASSUME [Next]_vars
  PROVE  \/ \E o \in Orders : DecreaseStock(o) \/ Compensate(o)
         \/ \E v \in Visits : RestoreStock(v)
         \/ \E m \in late : LateRpc(m)
         \/ UNCHANGED <<out, late>>
BY DEF Next, Place, Serve, Work, CreateOrder, PriceItems, ReturnError, InsertOrder, Enqueue,
       Dequeue, ProcessOrder, CommitConfirm, CommitCancel, ConfirmOrder, CancelOrder, Begin,
       ClientGone, Crash, vars, productVars

\* Nobody changes how an order is placed.
LEMMA ModeStays == [Next]_vars => mode' = mode
BY DEF Next, Place, Work, Serve, CreateOrder, PriceItems, DecreaseStock, Compensate,
       ReturnError, InsertOrder, Enqueue, Dequeue, ProcessOrder, RestoreStock, ConfirmOrder,
       CancelOrder, Begin, CommitConfirm, CommitCancel, ClientGone, LateRpc, Crash, vars,
       requestVars

\* What a step does to one request: nothing, or one of its own steps.
LEMMA RequestStep ==
  ASSUME TypeOK, [Next]_vars, NEW o \in Orders
  PROVE  \/ /\ phase[o] = "new" /\ phase'[o] = "pricing" /\ cart'[o] \in Carts
            /\ taken'[o] = taken[o] /\ undone'[o] = undone[o]
         \/ /\ cart'[o] = cart[o] /\ taken'[o] = taken[o] /\ undone'[o] = undone[o]
            /\ \/ phase'[o] = phase[o]
               \/ phase[o] = "pricing" /\ phase'[o] \in {"deducting", "failed"}
               \/ phase[o] = "deducting" /\ phase'[o] = "undoing"
               \/ phase[o] = "undoing" /\ phase'[o] = "failed" /\ undone[o] = taken[o]
               \/ phase[o] = "inserting" /\ phase'[o] \in Whole \cup {"undoing"}
               \/ phase[o] \in {"pricing", "deducting", "inserting", "undoing"}
                  /\ phase'[o] = "dead"
         \/ /\ DecreaseStock(o) /\ Succeeds(o, o, taken[o] + 1, -1)
            /\ cart'[o] = cart[o] /\ undone'[o] = undone[o] /\ taken'[o] = taken[o] + 1
            /\ phase[o] = "deducting"
            /\ phase'[o] = IF taken[o] + 1 = Len(cart[o]) THEN "inserting" ELSE "deducting"
         \/ /\ Compensate(o)
            /\ cart'[o] = cart[o] /\ taken'[o] = taken[o] /\ undone'[o] = undone[o] + 1
            /\ phase[o] = "undoing" /\ phase'[o] = "undoing" /\ undone[o] < taken[o]
<1> USE DEF Placed, Whole
<1>t. /\ phase \in [Orders -> Phases] /\ cart \in [Orders -> Carts \cup {<<>>}]
      /\ taken \in [Orders -> Nat] /\ undone \in [Orders -> Nat]
  BY DEF TypeOK
<1>1. ASSUME NEW q \in Orders, q # o, Place(q) \/ \E items \in Carts : CreateOrder(q, items)
      PROVE  /\ cart'[o] = cart[o] /\ taken'[o] = taken[o]
             /\ undone'[o] = undone[o] /\ phase'[o] = phase[o]
  BY <1>1, <1>t DEF Place, CreateOrder, PriceItems, DecreaseStock, Compensate, ReturnError,
                    InsertOrder, Enqueue
<1>2. ASSUME NEW items \in Carts, CreateOrder(o, items)
      PROVE  /\ phase[o] = "new" /\ phase'[o] = "pricing" /\ cart'[o] \in Carts
             /\ taken'[o] = taken[o] /\ undone'[o] = undone[o]
  BY <1>2, <1>t DEF CreateOrder
<1>3. ASSUME PriceItems(o) \/ ReturnError(o) \/ InsertOrder(o) \/ Enqueue(o)
      PROVE  /\ cart'[o] = cart[o] /\ taken'[o] = taken[o] /\ undone'[o] = undone[o]
             /\ \/ phase[o] = "pricing" /\ phase'[o] \in {"deducting", "failed"}
                \/ phase[o] = "undoing" /\ phase'[o] = "failed" /\ undone[o] = taken[o]
                \/ phase[o] = "inserting" /\ phase'[o] \in Whole \cup {"undoing"}
  BY <1>3, <1>t DEF PriceItems, ReturnError, InsertOrder, Enqueue, AllUndone
<1>4. ASSUME DecreaseStock(o)
      PROVE  \/ /\ cart'[o] = cart[o] /\ taken'[o] = taken[o] /\ undone'[o] = undone[o]
                /\ phase[o] = "deducting" /\ phase'[o] = "undoing"
             \/ /\ Succeeds(o, o, taken[o] + 1, -1)
                /\ cart'[o] = cart[o] /\ undone'[o] = undone[o] /\ taken'[o] = taken[o] + 1
                /\ phase[o] = "deducting"
                /\ phase'[o] = IF taken[o] + 1 = Len(cart[o]) THEN "inserting" ELSE "deducting"
  BY <1>4, <1>t DEF DecreaseStock, RecordedAfterError, LastItem
<1>5. ASSUME Compensate(o)
      PROVE  /\ cart'[o] = cart[o] /\ taken'[o] = taken[o] /\ undone'[o] = undone[o] + 1
             /\ phase[o] = "undoing" /\ phase'[o] = "undoing" /\ undone[o] < taken[o]
  BY <1>5, <1>t DEF Compensate
<1>6. ASSUME Crash
      PROVE  /\ cart'[o] = cart[o] /\ taken'[o] = taken[o] /\ undone'[o] = undone[o]
             /\ \/ phase'[o] = phase[o]
                \/ phase[o] \in {"pricing", "deducting", "inserting", "undoing"}
                   /\ phase'[o] = "dead"
  BY <1>6, <1>t DEF Crash
<1>7. CASE UNCHANGED requestVars
  BY <1>7 DEF requestVars
<1> QED
  BY <1>1, <1>2, <1>3, <1>4, <1>5, <1>6, <1>7, RequestFrame DEF Place
\* What a step does to the row of one order.
LEMMA RowStep ==
  ASSUME TypeOK, VisitsExclusive, OnlyPushedWait, RequestsProgress, [Next]_vars, NEW o \in Orders
  PROVE  \/ row'[o] = row[o]
         \/ /\ row[o] = "none" /\ row'[o] = "pending"
            /\ phase[o] = "inserting" /\ InsertOrder(o)
            /\ phase'[o] \in {"created", "undoing"}
         \/ /\ row[o] = "none" /\ row'[o] = "confirmed" /\ Awaits(o)
            /\ \E w \in Workers : ProcessOrder(w) /\ worker[w] = o
         \/ /\ row[o] = "pending" /\ row'[o] = "confirmed"
            /\ \E v \in Visits : CommitConfirm(v) /\ target[v] = o
         \/ /\ row[o] \in {"pending", "confirmed"} /\ row'[o] = "cancelled"
            /\ \E v \in Visits : CommitCancel(v) /\ target[v] = o
<1>t. row \in [Orders -> Statuses] /\ phase \in [Orders -> Phases]
  BY DEF TypeOK
<1>1. ASSUME NEW q \in Orders, InsertOrder(q)
      PROVE  \/ row'[o] = row[o]
             \/ /\ row[o] = "none" /\ row'[o] = "pending"
                /\ phase[o] = "inserting" /\ InsertOrder(o)
                /\ phase'[o] \in {"created", "undoing"}
  BY <1>1, <1>t DEF InsertOrder, RequestsProgress, Progress, Placed, Whole, Stopped
<1>2. ASSUME NEW w \in Workers, ProcessOrder(w)
      PROVE  \/ row'[o] = row[o]
             \/ /\ row[o] = "none" /\ row'[o] = "confirmed" /\ Awaits(o)
                /\ ProcessOrder(w) /\ worker[w] = o
  <2>1. Awaits(worker[w])
    BY <1>2 DEF ProcessOrder, OnlyPushedWait
  <2>2. \/ row' = [row EXCEPT ![worker[w]] = "confirmed"] /\ row[worker[w]] = "none"
        \/ row' = row
    BY <1>2 DEF ProcessOrder, Writable
  <2> QED
    BY <1>2, <1>t, <2>1, <2>2 DEF Awaits
<1>3. ASSUME NEW v \in Visits, CommitConfirm(v)
      PROVE  \/ row'[o] = row[o]
             \/ row[o] = "pending" /\ row'[o] = "confirmed" /\ target[v] = o
  BY <1>3, <1>t DEF CommitConfirm, VisitsExclusive, Visiting
<1>4. ASSUME NEW v \in Visits, CommitCancel(v)
      PROVE  \/ row'[o] = row[o]
             \/ /\ row[o] \in {"pending", "confirmed"} /\ row'[o] = "cancelled"
                /\ target[v] = o
  BY <1>4, <1>t DEF CommitCancel, VisitsExclusive, Visiting
<1>5. CASE UNCHANGED row
  BY <1>5
<1> QED
  BY <1>1, <1>2, <1>3, <1>4, <1>5, RowFrame

\* A ghost stays a ghost, so what is not one now was not one before.
LEMMA GhostStays ==
  ASSUME TypeOK, VisitsExclusive, OnlyPushedWait, RequestsProgress, [Next]_vars,
         NEW o \in Orders, Ghost(o)
  PROVE  Ghost(o)'
<1>1. row[o] # "none" /\ phase[o] \in Stopped
  BY DEF Ghost, RequestsProgress, Progress, Placed, Whole
<1>2. row'[o] # "none"
  BY <1>1, RowStep DEF Awaits
<1>3. phase'[o] \in Stopped
  BY <1>1, RequestStep DEF Stopped
<1> QED
  BY <1>2, <1>3 DEF Ghost, Stopped

\* No step takes or gives back more than the request may.
LEMMA RequestsProgressNext ==
  ASSUME TypeOK, VisitsExclusive, OnlyPushedWait, RequestsProgress, [Next]_vars
  PROVE  RequestsProgress'
<1> SUFFICES ASSUME NEW o \in Orders PROVE Progress(o)'
  BY DEF RequestsProgress
<1> USE DEF Placed, Whole, Stopped
<1>t. taken[o] \in Nat /\ undone[o] \in Nat /\ Len(cart[o]) \in Nat /\ phase[o] \in Phases
  BY CartLength, CartAssumption DEF TypeOK
<1>p. Progress(o)
  BY DEF RequestsProgress
<1>1. /\ phase'[o] # "new" => cart'[o] \in Carts
      /\ undone'[o] <= taken'[o] /\ taken'[o] <= Len(cart'[o])
      /\ phase'[o] \in {"new", "pricing"} => taken'[o] = 0
      /\ phase'[o] = "deducting" => taken'[o] < Len(cart'[o])
      /\ phase'[o] = "new" => cart'[o] = <<>>
      /\ phase'[o] \in Whole => taken'[o] = Len(cart'[o])
      /\ undone'[o] > 0 => phase'[o] \in Stopped
  <2>1. CASE /\ phase[o] = "new" /\ phase'[o] = "pricing" /\ cart'[o] \in Carts
             /\ taken'[o] = taken[o] /\ undone'[o] = undone[o]
    BY <1>t, <1>p, <2>1, CartAssumption DEF Progress
  <2>2. CASE /\ cart'[o] = cart[o] /\ taken'[o] = taken[o] /\ undone'[o] = undone[o]
             /\ \/ phase'[o] = phase[o]
                \/ phase[o] = "pricing" /\ phase'[o] \in {"deducting", "failed"}
                \/ phase[o] = "deducting" /\ phase'[o] = "undoing"
                \/ phase[o] = "undoing" /\ phase'[o] = "failed" /\ undone[o] = taken[o]
                \/ phase[o] = "inserting" /\ phase'[o] \in Whole \cup {"undoing"}
                \/ phase[o] \in {"pricing", "deducting", "inserting", "undoing"}
                   /\ phase'[o] = "dead"
    <3>1. phase[o] = "pricing" => Len(cart[o]) > 0
      BY <1>p, CartAssumption DEF Progress
    <3> QED
      BY <1>t, <1>p, <2>2, <3>1 DEF Progress
  <2>3. CASE /\ cart'[o] = cart[o] /\ undone'[o] = undone[o] /\ taken'[o] = taken[o] + 1
             /\ phase[o] = "deducting"
             /\ phase'[o] = IF taken[o] + 1 = Len(cart[o]) THEN "inserting" ELSE "deducting"
    BY <1>t, <1>p, <2>3 DEF Progress
  <2>4. CASE /\ cart'[o] = cart[o] /\ taken'[o] = taken[o] /\ undone'[o] = undone[o] + 1
             /\ phase[o] = "undoing" /\ phase'[o] = "undoing" /\ undone[o] < taken[o]
    BY <1>t, <1>p, <2>4 DEF Progress
  <2> QED
    BY <2>1, <2>2, <2>3, <2>4, RequestStep
<1>2. /\ row'[o] # "none" => phase'[o] \in Whole \cup Stopped
      /\ row'[o] # "none" /\ phase'[o] = "inserting" => mode'[o] = "async"
  <2>1. /\ phase[o] \in Whole \cup Stopped => phase'[o] \in Whole \cup Stopped
        /\ phase[o] \in Whole \cup Stopped /\ phase'[o] = "inserting" => phase[o] = "inserting"
        /\ mode'[o] = mode[o]
    BY RequestStep, ModeStays
  <2> QED
    BY <1>p, <2>1, RowStep DEF Progress, Awaits
<1> QED
  BY <1>1, <1>2 DEF Progress
\* What a step does to one visit: nothing, one of its own steps, or its death.
LEMMA VisitStep ==
  ASSUME TypeOK, [Next]_vars, NEW v \in Visits
  PROVE  \/ visit'[v] = visit[v] /\ target'[v] = target[v] /\ restored'[v] = restored[v]
         \/ /\ visit[v] = "new" /\ restored'[v] = restored[v]
            /\ target'[v] \in Orders /\ row[target'[v]] # "none" /\ row' = row
            /\ \/ visit'[v] = "done"
               \/ /\ visit'[v] = "confirming" /\ row[target'[v]] = "pending"
                  /\ lock'[target'[v]] = v
               \/ /\ visit'[v] = "cancelling" /\ row[target'[v]] \in {"pending", "confirmed"}
                  /\ lock'[target'[v]] = v
         \/ /\ target'[v] = target[v] /\ restored'[v] = restored[v]
            /\ \/ visit[v] \in {"confirming", "cancelling"} /\ visit'[v] = "done"
               \/ visit[v] \in {"confirming", "cancelling", "restoring"} /\ visit'[v] = "dead"
         \/ /\ CommitCancel(v) /\ row' = [row EXCEPT ![target[v]] = "cancelled"]
            /\ visit[v] = "cancelling" /\ visit'[v] = "restoring"
            /\ target'[v] = target[v] /\ restored'[v] = restored[v]
         \/ /\ RestoreStock(v) /\ row' = row /\ visit[v] = "restoring"
            /\ target'[v] = target[v] /\ restored'[v] = restored[v] + 1
            /\ visit'[v] = IF restored[v] + 1 = Len(cart[target[v]]) THEN "done" ELSE "restoring"
<1>t. /\ visit \in [Visits -> VisitPhases] /\ target \in [Visits -> Orders \cup {NoOne}]
      /\ restored \in [Visits -> Nat] /\ lock \in [Orders -> Visits \cup {NoOne}]
  BY DEF TypeOK
<1>1. ASSUME NEW u \in Visits, u # v,
             Serve(u) \/ \E o \in Orders : ConfirmOrder(u, o) \/ CancelOrder(u, o)
      PROVE  visit'[v] = visit[v] /\ target'[v] = target[v] /\ restored'[v] = restored[v]
  BY <1>1, <1>t DEF Serve, CommitConfirm, CommitCancel, RestoreStock, ConfirmOrder,
                    CancelOrder, Begin
<1>2. ASSUME NEW o \in Orders, ConfirmOrder(v, o) \/ CancelOrder(v, o)
      PROVE  /\ visit[v] = "new" /\ restored'[v] = restored[v]
             /\ target'[v] \in Orders /\ row[target'[v]] # "none" /\ row' = row
             /\ \/ visit'[v] = "done"
                \/ /\ visit'[v] = "confirming" /\ row[target'[v]] = "pending"
                   /\ lock'[target'[v]] = v
                \/ /\ visit'[v] = "cancelling" /\ row[target'[v]] \in {"pending", "confirmed"}
                   /\ lock'[target'[v]] = v
  BY <1>2, <1>t DEF ConfirmOrder, CancelOrder, Begin, Confirmable, Cancellable
<1>3. ASSUME CommitConfirm(v)
      PROVE  /\ target'[v] = target[v] /\ restored'[v] = restored[v]
             /\ visit[v] = "confirming" /\ visit'[v] = "done"
  BY <1>3, <1>t DEF CommitConfirm
<1>4. ASSUME CommitCancel(v)
      PROVE  /\ target'[v] = target[v] /\ restored'[v] = restored[v]
             /\ visit[v] = "cancelling"
             /\ \/ visit'[v] = "done"
                \/ visit'[v] = "restoring" /\ row' = [row EXCEPT ![target[v]] = "cancelled"]
  BY <1>4, <1>t DEF CommitCancel, AfterCancel
<1>5. ASSUME RestoreStock(v)
      PROVE  /\ row' = row /\ visit[v] = "restoring"
             /\ target'[v] = target[v] /\ restored'[v] = restored[v] + 1
             /\ visit'[v] = IF restored[v] + 1 = Len(cart[target[v]]) THEN "done" ELSE "restoring"
  BY <1>5, <1>t DEF RestoreStock, LastItem, rowVars
<1>6. ASSUME Crash
      PROVE  /\ target'[v] = target[v] /\ restored'[v] = restored[v]
             /\ \/ visit'[v] = visit[v]
                \/ visit[v] \in {"confirming", "cancelling", "restoring"} /\ visit'[v] = "dead"
  BY <1>6, <1>t DEF Crash
<1>7. CASE UNCHANGED visitVars
  BY <1>7 DEF visitVars
<1> QED
  BY <1>1, <1>2, <1>3, <1>4, <1>5, <1>6, <1>7, VisitFrame DEF Serve

\* A row lock is kept until its visit commits, fails or dies.
LEMMA LockStays ==
  ASSUME TypeOK, VisitsExclusive, [Next]_vars, NEW v \in Visits,
         visit[v] \in {"confirming", "cancelling"}, visit'[v] = visit[v]
  PROVE  lock'[target[v]] = v
<1>t. /\ visit \in [Visits -> VisitPhases] /\ target \in [Visits -> Orders \cup {NoOne}]
      /\ lock \in [Orders -> Visits \cup {NoOne}]
  BY DEF TypeOK
<1>1. target[v] \in Orders /\ lock[target[v]] = v
  BY DEF VisitsExclusive, Visiting
<1>2. ASSUME NEW u \in Visits, NEW o \in Orders, ConfirmOrder(u, o) \/ CancelOrder(u, o)
      PROVE  lock'[target[v]] = v
  BY <1>2, <1>1, <1>t, NameAssumption DEF ConfirmOrder, CancelOrder, Begin, RowFree
<1>3. ASSUME NEW u \in Visits, CommitConfirm(u) \/ CommitCancel(u)
      PROVE  lock'[target[v]] = v
  <2>1. target[u] \in Orders /\ lock[target[u]] = u
    BY <1>3 DEF VisitsExclusive, Visiting, CommitConfirm, CommitCancel
  <2>2. u # v
    BY <1>3, <1>t DEF CommitConfirm, CommitCancel, AfterCancel
  <2> QED
    BY <1>3, <1>1, <1>t, <2>1, <2>2 DEF CommitConfirm, CommitCancel
<1>4. ASSUME NEW u \in Visits, RestoreStock(u) PROVE lock'[target[v]] = v
  BY <1>4, <1>1 DEF RestoreStock, rowVars
<1>5. CASE Crash
  BY <1>5, <1>t DEF Crash
<1>6. CASE UNCHANGED lock
  BY <1>6, <1>1
<1>7. ASSUME NEW o \in Orders, Place(o) \/ \E items \in Carts : CreateOrder(o, items)
      PROVE  lock' = lock
  BY <1>7 DEF Place, CreateOrder, PriceItems, DecreaseStock, Compensate, ReturnError,
              InsertOrder, Enqueue, rowVars
<1>8. ASSUME NEW w \in Workers, Work(w) PROVE lock' = lock
  BY <1>8 DEF Work, Dequeue, ProcessOrder, rowVars
<1>9. ASSUME (\E r \in Requests : ClientGone(r)) \/ (\E m \in late : LateRpc(m)) PROVE lock' = lock
  BY <1>9 DEF ClientGone, LateRpc, rowVars
<1>10. CASE UNCHANGED vars
  BY <1>10, <1>1 DEF vars, rowVars
<1> QED
  BY <1>2, <1>3, <1>4, <1>5, <1>6, <1>7, <1>8, <1>9, <1>10 DEF Next, Serve

\* An order that has a row keeps its cart.
LEMMA CartStays ==
  ASSUME TypeOK, RequestsProgress, [Next]_vars, NEW o \in Orders, row[o] # "none"
  PROVE  cart'[o] = cart[o]
<1>1. phase[o] # "new"
  BY DEF RequestsProgress, Progress, Placed, Whole, Stopped
<1> QED
  BY <1>1, RequestStep

\* A row under a visit's lock is changed by nobody else.
LEMMA LockedRowStays ==
  ASSUME TypeOK, VisitsExclusive, OnlyPushedWait, RequestsProgress, [Next]_vars, NEW v \in Visits,
         visit[v] \in {"confirming", "cancelling"}, visit'[v] = visit[v]
  PROVE  row'[target[v]] = row[target[v]]
<1>1. target[v] \in Orders /\ lock[target[v]] = v /\ row[target[v]] # "none"
  BY DEF VisitsExclusive, Visiting
<1>2. ASSUME NEW u \in Visits, CommitConfirm(u) \/ CommitCancel(u)
      PROVE  target[u] # target[v]
  <2>1. lock[target[u]] = u
    BY <1>2 DEF VisitsExclusive, Visiting, CommitConfirm, CommitCancel
  <2>2. u # v
    BY <1>2 DEF CommitConfirm, CommitCancel, AfterCancel, TypeOK
  <2> QED
    BY <1>1, <2>1, <2>2
<1> QED
  BY <1>1, <1>2, RowStep

\* Confirmations and cancellations exclude each other, and one visit at most
\* gives the stock of an order back.
LEMMA VisitsExclusiveNext ==
  ASSUME TypeOK, VisitsExclusive, OnlyPushedWait, RequestsProgress, [Next]_vars
  PROVE  VisitsExclusive'
<1>1. ASSUME NEW v \in Visits PROVE Visiting(v)'
  <2>v. Visiting(v) /\ restored[v] \in Nat
    BY DEF VisitsExclusive, TypeOK
  <2>r. visit[v] # "new" =>
          /\ target[v] \in Orders /\ row[target[v]] # "none"
          /\ row'[target[v]] # "none" /\ cart'[target[v]] = cart[target[v]]
          /\ row[target[v]] = "cancelled" => row'[target[v]] = "cancelled"
    BY <2>v, RowStep, CartStays DEF Visiting
  <2>l. visit[v] # "new" => Len(cart[target[v]]) \in Nat
    BY <2>r, CartLength, CartAssumption
  <2>1. CASE visit'[v] = visit[v] /\ target'[v] = target[v] /\ restored'[v] = restored[v]
    BY <2>v, <2>r, <2>1, LockStays, LockedRowStays DEF Visiting, Restores
  <2>2. CASE /\ visit[v] = "new" /\ restored'[v] = restored[v]
             /\ target'[v] \in Orders /\ row[target'[v]] # "none" /\ row' = row
             /\ \/ visit'[v] = "done"
                \/ /\ visit'[v] = "confirming" /\ row[target'[v]] = "pending"
                   /\ lock'[target'[v]] = v
                \/ /\ visit'[v] = "cancelling" /\ row[target'[v]] \in {"pending", "confirmed"}
                   /\ lock'[target'[v]] = v
    BY <2>v, <2>2 DEF Visiting, Restores
  <2>3. CASE /\ target'[v] = target[v] /\ restored'[v] = restored[v]
             /\ \/ visit[v] \in {"confirming", "cancelling"} /\ visit'[v] = "done"
                \/ visit[v] \in {"confirming", "cancelling", "restoring"} /\ visit'[v] = "dead"
    BY <2>v, <2>r, <2>3 DEF Visiting, Restores
  <2>4. CASE /\ CommitCancel(v) /\ row' = [row EXCEPT ![target[v]] = "cancelled"]
             /\ visit[v] = "cancelling" /\ visit'[v] = "restoring"
             /\ target'[v] = target[v] /\ restored'[v] = restored[v]
    <3>1. row'[target[v]] = "cancelled" /\ restored[v] = 0
      BY <2>v, <2>r, <2>4 DEF Visiting, Restores, TypeOK
    <3>2. Len(cart[target[v]]) > 0
      <4>1. phase[target[v]] # "new"
        BY <2>r, <2>4 DEF RequestsProgress, Progress, Placed, Whole, Stopped
      <4> QED
        BY <2>r, <2>4, <4>1, CartAssumption DEF RequestsProgress, Progress
    <3> QED
      BY <2>v, <2>r, <2>4, <3>1, <3>2 DEF Visiting
  <2>5. CASE /\ RestoreStock(v) /\ row' = row /\ visit[v] = "restoring"
             /\ target'[v] = target[v] /\ restored'[v] = restored[v] + 1
             /\ visit'[v] = IF restored[v] + 1 = Len(cart[target[v]]) THEN "done" ELSE "restoring"
    BY <2>v, <2>r, <2>l, <2>5 DEF Visiting, Restores
  <2> QED
    BY <2>1, <2>2, <2>3, <2>4, <2>5, VisitStep
<1>2. ASSUME NEW u \in Visits, NEW v \in Visits, Restores(u)', Restores(v)',
             target'[u] = target'[v]
      PROVE  u = v
  <2>1. ASSUME NEW x \in Visits, Restores(x)'
        PROVE  /\ target'[x] = target[x] /\ target[x] \in Orders
               /\ \/ Restores(x) /\ row[target[x]] = "cancelled"
                  \/ CommitCancel(x) /\ row[target[x]] # "cancelled"
    <3>1. Visiting(x) /\ restored[x] \in Nat
      BY DEF VisitsExclusive, TypeOK
    <3> QED
      BY <2>1, <3>1, VisitStep DEF Visiting, Restores
  <2>2. CASE Restores(u) /\ Restores(v)
    BY <1>2, <2>1, <2>2 DEF VisitsExclusive
  <2>3. CASE CommitCancel(u) /\ CommitCancel(v)
    <3>1. lock[target[u]] = u /\ lock[target[v]] = v
      BY <2>3 DEF CommitCancel, VisitsExclusive, Visiting
    <3> QED
      BY <1>2, <2>1, <3>1
  <2> QED
    BY <1>2, <2>1, <2>2, <2>3
<1> QED
  BY <1>1, <1>2 DEF VisitsExclusive
\* An order that was pushed has taken its items, or is given up, for good.
LEMMA AwaitsStays ==
  ASSUME TypeOK, [Next]_vars, NEW o, Awaits(o)
  PROVE  Awaits(o)'
<1>1. o \in Orders /\ mode[o] = "async" /\ phase[o] \in Whole \cup Stopped
  BY DEF Awaits
<1>2. phase'[o] \in Whole \cup Stopped
  BY <1>1, RequestStep DEF Whole, Placed, Stopped
<1> QED
  BY <1>1, <1>2, ModeStays DEF Awaits

\* Only a push puts an order in the list, and only the list gives to a worker.
LEMMA OnlyPushedWaitNext ==
  ASSUME TypeOK, OnlyPushedWait, [Next]_vars
  PROVE  OnlyPushedWait'
<1> DEFINE AwaitsNext(o) ==
      o \in Orders /\ mode'[o] = "async" /\ phase'[o] \in Whole \cup Stopped
<1>t. queue \in Seq(Orders) /\ worker \in [Workers -> Orders \cup {NoOne}]
  BY DEF TypeOK
<1>s. \A o : Awaits(o) => AwaitsNext(o)
  BY AwaitsStays DEF Awaits
<1>w. /\ \A i \in 1 .. Len(queue) : AwaitsNext(queue[i])
      /\ \A w \in Workers : worker[w] # NoOne => AwaitsNext(worker[w])
  BY <1>s DEF OnlyPushedWait
<1>1. ASSUME NEW o \in Orders, Enqueue(o), queue' = Append(queue, o) PROVE OnlyPushedWait'
  <2>1. worker' = worker /\ Awaits(o)
    BY <1>1 DEF Enqueue, Awaits, Whole
  <2>2. \A i \in 1 .. Len(queue') : (i \in 1 .. Len(queue) /\ queue'[i] = queue[i]) \/ queue'[i] = o
    BY <1>1, <1>t
  <2> QED
    BY <1>s, <1>w, <2>1, <2>2 DEF OnlyPushedWait, Awaits
<1>2. ASSUME NEW w \in Workers, Dequeue(w) PROVE OnlyPushedWait'
  <2>1. queue # <<>> /\ queue' = Tail(queue) /\ worker' = [worker EXCEPT ![w] = queue[1]]
    BY <1>2 DEF Dequeue
  <2>2. /\ 1 \in 1 .. Len(queue)
        /\ \A i \in 1 .. Len(queue') : i + 1 \in 1 .. Len(queue) /\ queue'[i] = queue[i + 1]
    BY <1>t, <2>1
  <2>3. \A x \in Workers : worker'[x] = worker[x] \/ worker'[x] = queue[1]
    BY <1>t, <2>1
  <2>4. \A i \in 1 .. Len(queue') : AwaitsNext(queue'[i])
    BY <1>w, <2>2
  <2>5. \A x \in Workers : worker'[x] # NoOne => AwaitsNext(worker'[x])
    BY <1>w, <2>2, <2>3
  <2> QED
    BY <2>4, <2>5 DEF OnlyPushedWait, Awaits
<1>3. CASE queue' = queue /\ \A w \in Workers : worker'[w] \in {worker[w], NoOne}
  BY <1>w, <1>3 DEF OnlyPushedWait, Awaits
<1>4. ASSUME NEW w \in Workers, ProcessOrder(w)
      PROVE  queue' = queue /\ \A x \in Workers : worker'[x] \in {worker[x], NoOne}
  BY <1>4, <1>t DEF ProcessOrder
<1>5. ASSUME Crash
      PROVE  queue' = queue /\ \A x \in Workers : worker'[x] \in {worker[x], NoOne}
  BY <1>5 DEF Crash
<1>6. ASSUME NEW o \in Orders, Enqueue(o), queue' # Append(queue, o)
      PROVE  queue' = queue /\ worker' = worker
  BY <1>6 DEF Enqueue
<1> QED
  BY <1>1, <1>2, <1>3, <1>4, <1>5, <1>6, AsyncFrame DEF Work, asyncVars
-----------------------------------------------------------------------------
(* Where the stock of an item is. *)

\* A visit that gives stock back of an order that is no ghost: the order was
\* placed, all of its items were taken, and its request returned none.
LEMMA RestoredOrder ==
  ASSUME TypeOK, VisitsExclusive, RequestsProgress, NEW v \in Visits, Restores(v)
  PROVE  /\ target[v] \in Orders /\ row[target[v]] = "cancelled"
         /\ phase[target[v]] \in Whole \cup Stopped
         /\ ~Ghost(target[v]) => /\ phase[target[v]] \in Whole
                                 /\ taken[target[v]] = Len(cart[target[v]])
                                 /\ undone[target[v]] = 0
<1>1. target[v] \in Orders /\ row[target[v]] = "cancelled"
  BY DEF VisitsExclusive, Visiting
<1>2. Progress(target[v]) /\ undone[target[v]] \in Nat
  BY <1>1 DEF RequestsProgress, TypeOK
<1> QED
  BY <1>1, <1>2 DEF Progress, Ghost, Placed, Whole, Stopped

\* While a request compensates, no visit gives its order's stock back, unless
\* the order is a ghost.
LEMMA NotRestored ==
  ASSUME TypeOK, VisitsExclusive, RequestsProgress, NEW o \in Orders, ~Ghost(o),
         phase[o] \notin Whole, NEW v \in Visits, target[v] = o
  PROVE  restored[v] = 0
<1>1. restored[v] \in Nat
  BY DEF TypeOK
<1>2. CASE restored[v] > 0
  BY <1>2, RestoredOrder DEF Restores
<1> QED
  BY <1>1, <1>2

\* An RPC leaves every item alone, but its own.
LEMMA AppliedOut ==
  ASSUME TypeOK, RequestsProgress, NEW q \in Orders, NEW j \in 1 .. Len(cart[q]),
         NEW d \in {-1, 1}, Applied(q, j, d), NEW o \in Orders, NEW i \in 1 .. MaxItems
  PROVE  /\ q = o /\ j = i => out'[o][i] = out[o][i] - d
         /\ ~(q = o /\ j = i) => out'[o][i] = out[o][i]
<1>1. out \in [Orders -> [1 .. MaxItems -> Int]] /\ j \in 1 .. MaxItems
  BY ItemType DEF TypeOK
<1>2. out' = [out EXCEPT ![q][j] = @ - d]
  BY AppliedType
<1> QED
  BY <1>1, <1>2

\* The item of the next RPC is in the cart.
LEMMA NextItem ==
  ASSUME TypeOK, VisitsExclusive, RequestsProgress
  PROVE  /\ \A o \in Orders : DecreaseStock(o) => taken[o] + 1 \in 1 .. Len(cart[o])
         /\ \A o \in Orders : Compensate(o) => undone[o] + 1 \in 1 .. Len(cart[o])
         /\ \A v \in Visits : RestoreStock(v) => /\ target[v] \in Orders
                                                 /\ restored[v] + 1 \in 1 .. Len(cart[target[v]])
<1>1. ASSUME NEW o \in Orders
      PROVE  /\ DecreaseStock(o) => taken[o] + 1 \in 1 .. Len(cart[o])
             /\ Compensate(o) => undone[o] + 1 \in 1 .. Len(cart[o])
  <2>1. /\ taken[o] \in Nat /\ undone[o] \in Nat /\ Len(cart[o]) \in Nat
    BY CartLength, CartAssumption DEF TypeOK
  <2> QED
    BY <2>1 DEF DecreaseStock, Compensate, RequestsProgress, Progress
<1>2. ASSUME NEW v \in Visits, RestoreStock(v)
      PROVE  target[v] \in Orders /\ restored[v] + 1 \in 1 .. Len(cart[target[v]])
  <2>1. target[v] \in Orders /\ restored[v] < Len(cart[target[v]]) /\ restored[v] \in Nat
    BY <1>2 DEF RestoreStock, VisitsExclusive, Visiting, TypeOK
  <2>2. Len(cart[target[v]]) \in Nat
    BY <2>1, CartLength, CartAssumption
  <2> QED
    BY <2>1, <2>2
<1> QED
  BY <1>1, <1>2

\* What a step does to what is out of one item.
LEMMA OutStep ==
  ASSUME TypeOK, VisitsExclusive, RequestsProgress, LateOnce, [Next]_vars,
         NEW o \in Orders, NEW i \in 1 .. MaxItems
  PROVE  \/ out'[o][i] = out[o][i]
         \/ /\ DecreaseStock(o) /\ i = taken[o] + 1 /\ out'[o][i] = out[o][i] + 1
            /\ phase[o] = "deducting"
         \/ /\ Compensate(o) /\ i = undone[o] + 1 /\ out'[o][i] = out[o][i] - 1
            /\ phase[o] = "undoing" /\ undone'[o] = i /\ i <= taken[o]
         \/ \E v \in Visits :
              /\ RestoreStock(v) /\ target[v] = o
              /\ i = restored[v] + 1 /\ out'[o][i] = out[o][i] - 1
              /\ visit[v] = "restoring" /\ target'[v] = o /\ restored'[v] = i
         \/ \E m \in late :
              /\ m.order = o /\ m.item = i /\ out'[o][i] = out[o][i] - m.delta
              /\ late' = late \ {m} /\ UNCHANGED <<requestVars, visitVars>>
<1>t. /\ undone \in [Orders -> Nat] /\ restored \in [Visits -> Nat]
      /\ out \in [Orders -> [1 .. MaxItems -> Int]]
  BY DEF TypeOK
<1>1. ASSUME NEW q \in Orders, DecreaseStock(q)
      PROVE  \/ out'[o][i] = out[o][i]
             \/ /\ q = o /\ i = taken[o] + 1 /\ out'[o][i] = out[o][i] + 1
                /\ phase[o] = "deducting"
  <2> DEFINE j == taken[q] + 1
  <2>1. j \in 1 .. Len(cart[q]) /\ phase[q] = "deducting"
    BY <1>1, NextItem DEF DecreaseStock
  <2>2. Applied(q, j, -1) \/ UNCHANGED out
    BY <1>1 DEF DecreaseStock, Succeeds, Fails
  <2>3. j = taken[q] + 1
    OBVIOUS
  <2> HIDE DEF j
  <2>4. CASE Applied(q, j, -1)
    <3>1. /\ q = o /\ j = i => out'[o][i] = out[o][i] - (-1)
          /\ ~(q = o /\ j = i) => out'[o][i] = out[o][i]
      BY <2>1, <2>4, AppliedOut
    <3>2. out[o][i] - (-1) = out[o][i] + 1
      <4>1. out[o] \in [1 .. MaxItems -> Int]
        BY <1>t
      <4>2. out[o][i] \in Int
        BY <4>1
      <4> QED
        BY <4>2
    <3>3. CASE q = o /\ j = i
      BY <2>1, <2>3, <3>1, <3>2, <3>3
    <3> QED
      BY <3>1, <3>3
  <2> QED
    BY <2>2, <2>4
<1>2. ASSUME NEW q \in Orders, Compensate(q)
      PROVE  \/ out'[o][i] = out[o][i]
             \/ /\ q = o /\ i = undone[o] + 1 /\ out'[o][i] = out[o][i] - 1
                /\ phase[o] = "undoing" /\ undone'[o] = i /\ i <= taken[o]
  <2> DEFINE j == undone[q] + 1
  <2>1. j \in 1 .. Len(cart[q]) /\ phase[q] = "undoing" /\ undone'[q] = j /\ j <= taken[q]
    BY <1>2, <1>t, NextItem DEF Compensate
  <2>2. Applied(q, j, 1) \/ UNCHANGED out
    BY <1>2 DEF Compensate, Succeeds, Fails
  <2>3. j = undone[q] + 1
    OBVIOUS
  <2> HIDE DEF j
  <2>4. CASE Applied(q, j, 1)
    BY <1>t, <2>1, <2>3, <2>4, AppliedOut
  <2> QED
    BY <2>2, <2>4
<1>3. ASSUME NEW v \in Visits, RestoreStock(v)
      PROVE  \/ out'[o][i] = out[o][i]
             \/ /\ target[v] = o /\ i = restored[v] + 1 /\ out'[o][i] = out[o][i] - 1
                /\ visit[v] = "restoring" /\ target'[v] = o /\ restored'[v] = i
  <2> DEFINE j == restored[v] + 1
             q == target[v]
  <2>1. /\ q \in Orders /\ j \in 1 .. Len(cart[q]) /\ visit[v] = "restoring"
        /\ target'[v] = q /\ restored'[v] = j
    BY <1>3, <1>t, NextItem DEF RestoreStock
  <2>2. Applied(q, j, 1) \/ UNCHANGED out
    BY <1>3 DEF RestoreStock, Succeeds, Fails
  <2>3. j = restored[v] + 1 /\ q = target[v]
    OBVIOUS
  <2> HIDE DEF j, q
  <2>4. CASE Applied(q, j, 1)
    BY <1>t, <2>1, <2>3, <2>4, AppliedOut
  <2> QED
    BY <2>2, <2>4
<1>4. ASSUME NEW m \in late, LateRpc(m)
      PROVE  \/ out'[o][i] = out[o][i]
             \/ /\ m.order = o /\ m.item = i /\ out'[o][i] = out[o][i] - m.delta
                /\ late' = late \ {m} /\ UNCHANGED <<requestVars, visitVars>>
  <2>1. /\ m.order \in Orders /\ m.item \in 1 .. Len(cart[m.order]) /\ m.delta \in {-1, 1}
    BY DEF LateOnce, TypeOK, Rpc
  <2>2. /\ Applied(m.order, m.item, m.delta) \/ UNCHANGED out
        /\ late' = late \ {m} /\ UNCHANGED <<requestVars, visitVars>>
    BY <1>4 DEF LateRpc
  <2>3. CASE Applied(m.order, m.item, m.delta)
    BY <2>1, <2>2, <2>3, AppliedOut
  <2> QED
    BY <2>2, <2>3
<1> QED
  BY <1>1, <1>2, <1>3, <1>4, StockFrame

\* Which RPCs a step leaves behind.
LEMMA LateStep ==
  ASSUME TypeOK, [Next]_vars, NEW m \in late'
  PROVE  \/ m \in late
         \/ \E o \in Orders :
              /\ DecreaseStock(o) /\ phase[o] = "deducting" /\ phase'[o] = "undoing"
              /\ m = [order |-> o, item |-> taken[o] + 1, delta |-> -1, from |-> o]
              /\ out' = out
         \/ \E o \in Orders :
              /\ Compensate(o) /\ phase[o] = "undoing" /\ undone'[o] = undone[o] + 1
              /\ m = [order |-> o, item |-> undone[o] + 1, delta |-> 1, from |-> o]
              /\ undone[o] + 1 <= taken[o] /\ out' = out
         \/ \E v \in Visits :
              /\ RestoreStock(v) /\ visit[v] = "restoring"
              /\ m = [order |-> target[v], item |-> restored[v] + 1, delta |-> 1, from |-> v]
              /\ restored'[v] = restored[v] + 1 /\ target'[v] = target[v] /\ out' = out
<1>t. phase \in [Orders -> Phases] /\ undone \in [Orders -> Nat] /\ restored \in [Visits -> Nat]
  BY DEF TypeOK
<1>1. ASSUME NEW o \in Orders, DecreaseStock(o)
      PROVE  \/ m \in late
             \/ /\ phase[o] = "deducting" /\ phase'[o] = "undoing"
                /\ m = [order |-> o, item |-> taken[o] + 1, delta |-> -1, from |-> o]
                /\ out' = out
  BY <1>1, <1>t DEF DecreaseStock, Succeeds, Fails
<1>2. ASSUME NEW o \in Orders, Compensate(o)
      PROVE  \/ m \in late
             \/ /\ phase[o] = "undoing" /\ undone'[o] = undone[o] + 1
                /\ m = [order |-> o, item |-> undone[o] + 1, delta |-> 1, from |-> o]
                /\ undone[o] + 1 <= taken[o] /\ out' = out
  BY <1>2, <1>t DEF Compensate, Succeeds, Fails
<1>3. ASSUME NEW v \in Visits, RestoreStock(v)
      PROVE  \/ m \in late
             \/ /\ visit[v] = "restoring"
                /\ m = [order |-> target[v], item |-> restored[v] + 1, delta |-> 1, from |-> v]
                /\ restored'[v] = restored[v] + 1 /\ target'[v] = target[v] /\ out' = out
  BY <1>3, <1>t DEF RestoreStock, Succeeds, Fails
<1>4. ASSUME NEW l \in late, LateRpc(l) PROVE m \in late
  BY <1>4 DEF LateRpc
<1> QED
  BY <1>1, <1>2, <1>3, <1>4, StockFrame
\* Before a compensating or cancelling RPC its item is held.
LEMMA HeldBefore ==
  ASSUME TypeOK, VisitsExclusive, RequestsProgress, StockTracked
  PROVE  /\ \A o \in Orders : ~Ghost(o) /\ phase[o] = "undoing" /\ undone[o] < taken[o]
              => out[o][undone[o] + 1] = 1
         /\ \A v \in Visits : ~Ghost(target[v]) /\ visit[v] = "restoring"
              => out[target[v]][restored[v] + 1] = 1
<1>1. ASSUME NEW o \in Orders, ~Ghost(o), phase[o] = "undoing", undone[o] < taken[o]
      PROVE  out[o][undone[o] + 1] = 1
  <2> DEFINE i == undone[o] + 1
  <2>1. /\ i \in 1 .. MaxItems /\ undone[o] < i /\ i <= taken[o]
    <3>1. undone[o] \in Nat /\ taken[o] \in Nat /\ taken[o] <= Len(cart[o])
      BY DEF TypeOK, RequestsProgress, Progress
    <3> QED
      BY <1>1, <3>1, CartLength, CartAssumption
  <2>2. \A v \in Visits : target[v] = o => restored[v] < i
    <3>1. \A v \in Visits : target[v] = o => restored[v] = 0
      BY <1>1, NotRestored DEF Placed, Whole
    <3>2. 0 < i
      BY <2>1, CartAssumption
    <3> QED
      BY <3>1, <3>2
  <2>3. HeldUnlessReturned(o)
    BY <1>1 DEF StockTracked
  <2> HIDE DEF i
  <2>4. out[o][i] = 1
    BY <2>1, <2>2, <2>3 DEF HeldUnlessReturned
  <2> QED
    BY <2>4 DEF i
<1>2. ASSUME NEW v \in Visits, ~Ghost(target[v]), visit[v] = "restoring"
      PROVE  out[target[v]][restored[v] + 1] = 1
  <2> DEFINE o == target[v]
             i == restored[v] + 1
  <2>1. /\ o \in Orders /\ taken[o] = Len(cart[o]) /\ undone[o] = 0
    BY <1>2, RestoredOrder DEF Restores
  <2>2. /\ i \in 1 .. MaxItems /\ undone[o] < i /\ i <= taken[o]
    <3>1. restored[v] < Len(cart[o]) /\ restored[v] \in Nat
      BY <1>2 DEF VisitsExclusive, Visiting, TypeOK
    <3> QED
      BY <2>1, <3>1, CartLength, CartAssumption
  <2>3. \A u \in Visits : target[u] = o => restored[u] < i
    <3> SUFFICES ASSUME NEW u \in Visits, target[u] = o PROVE restored[u] < i
      OBVIOUS
    <3>1. restored[u] \in Nat /\ restored[v] \in Nat
      BY DEF TypeOK
    <3>2. CASE restored[u] > 0
      <4>1. u = v
        BY <1>2, <3>2 DEF VisitsExclusive, Restores
      <4> QED
        BY <3>1, <4>1
    <3> QED
      BY <3>1, <3>2
  <2>4. HeldUnlessReturned(o)
    BY <1>2, <2>1 DEF StockTracked
  <2> HIDE DEF i, o
  <2>5. out[o][i] = 1
    BY <2>1, <2>2, <2>3, <2>4 DEF HeldUnlessReturned
  <2> QED
    BY <2>5 DEF i, o
<1> QED
  BY <1>1, <1>2

\* A visit keeps its target, and never forgets that it gave an item back.
LEMMA RestoredStays ==
  ASSUME TypeOK, VisitsExclusive, [Next]_vars, NEW v \in Visits, target[v] \in Orders
  PROVE  target'[v] = target[v] /\ restored'[v] >= restored[v]
<1>1. visit[v] # "new" /\ restored[v] \in Nat
  BY NameAssumption DEF VisitsExclusive, Visiting, TypeOK
<1> QED
  BY <1>1, VisitStep

\* No step takes an item twice or gives it back twice.
LEMMA StockTrackedNext ==
  ASSUME TypeOK, VisitsExclusive, OnlyPushedWait, RequestsProgress, StockTracked, LateOnce,
         [Next]_vars
  PROVE  StockTracked'
<1> SUFFICES ASSUME NEW o \in Orders, ~Ghost(o)', NEW i \in 1 .. MaxItems
             PROVE  /\ out'[o][i] \in {0, 1}
                    /\ i > taken'[o] + 1 => out'[o][i] = 0
                    /\ i = taken'[o] + 1 /\ phase'[o] \notin Stopped => out'[o][i] = 0
                    /\ undone'[o] < i /\ i <= taken'[o] /\ (\A v \in Visits : target'[v] = o => restored'[v] < i)
                         => out'[o][i] = 1
  BY DEF StockTracked, HeldUnlessReturned
<1>g. ~Ghost(o)
  BY GhostStays
<1>t. /\ taken[o] \in Nat /\ undone[o] \in Nat /\ i \in Nat /\ MaxItems \in Nat
      /\ \A v \in Visits : restored[v] \in Nat
      /\ undone[o] <= taken[o]
  BY CartAssumption DEF TypeOK, RequestsProgress, Progress
<1>h. /\ out[o][i] \in {0, 1}
      /\ i > taken[o] + 1 => out[o][i] = 0
      /\ i = taken[o] + 1 /\ phase[o] \notin Stopped => out[o][i] = 0
      /\ undone[o] < i /\ i <= taken[o] /\ (\A v \in Visits : target[v] = o => restored[v] < i)
           => out[o][i] = 1
  BY <1>g DEF StockTracked, HeldUnlessReturned
<1>m. /\ taken'[o] \in {taken[o], taken[o] + 1} /\ undone'[o] \in {undone[o], undone[o] + 1}
      /\ phase[o] \in Stopped => phase'[o] \in Stopped /\ taken'[o] = taken[o]
      /\ taken'[o] # taken[o] => DecreaseStock(o) /\ Succeeds(o, o, taken[o] + 1, -1)
  BY RequestStep DEF Stopped
<1>v. ASSUME \A v \in Visits : target'[v] = o => restored'[v] < i
      PROVE  \A v \in Visits : target[v] = o => restored[v] < i
  <2> SUFFICES ASSUME NEW v \in Visits, target[v] = o PROVE restored[v] < i
    OBVIOUS
  <2>1. target'[v] = o /\ restored'[v] >= restored[v] /\ restored'[v] \in Nat
    BY RestoredStays, TypeNext DEF TypeOK
  <2> QED
    BY <1>t, <1>v, <2>1
<1>1. CASE out'[o][i] = out[o][i]
  <2>1. ~(taken'[o] # taken[o] /\ i = taken[o] + 1)
    <3> SUFFICES ASSUME taken'[o] # taken[o], i = taken[o] + 1 PROVE FALSE
      OBVIOUS
    <3>1. i \in 1 .. Len(cart[o]) /\ Applied(o, i, -1)
      BY <1>m, NextItem DEF Succeeds
    <3>2. out'[o][i] = out[o][i] - (-1)
      BY <3>1, AppliedOut
    <3> QED
      BY <1>1, <1>h, <3>2
  <2> QED
    BY <1>1, <1>t, <1>h, <1>m, <1>v, <2>1
<1>2. CASE /\ DecreaseStock(o) /\ i = taken[o] + 1 /\ out'[o][i] = out[o][i] + 1
           /\ phase[o] = "deducting"
  <2>1. out[o][i] = 0
    BY <1>2, <1>h DEF Stopped
  <2>2. taken'[o] = taken[o] => phase'[o] \in Stopped
    BY <1>2, <1>t DEF DecreaseStock, TypeOK, Stopped
  <2> QED
    BY <1>2, <1>t, <1>m, <2>1, <2>2
<1>3. CASE /\ Compensate(o) /\ i = undone[o] + 1 /\ out'[o][i] = out[o][i] - 1
           /\ phase[o] = "undoing" /\ undone'[o] = i /\ i <= taken[o]
  <2>1. out[o][i] = 1
    BY <1>3, <1>g, <1>t, HeldBefore
  <2> QED
    BY <1>3, <1>t, <1>m, <2>1
<1>4. ASSUME NEW v \in Visits, RestoreStock(v), target[v] = o,
             i = restored[v] + 1, out'[o][i] = out[o][i] - 1,
             visit[v] = "restoring", target'[v] = o, restored'[v] = i
      PROVE  out'[o][i] = 0 /\ i <= taken'[o] /\ ~(restored'[v] < i)
  <2>1. out[o][i] = 1
    BY <1>4, <1>g, HeldBefore
  <2>2. taken[o] = Len(cart[o])
    BY <1>4, <1>g, RestoredOrder DEF Restores
  <2>3. i <= taken[o]
    BY <1>4, <2>2, NextItem
  <2> QED
    BY <1>4, <1>t, <1>m, <2>1, <2>3
<1>5. ASSUME NEW m \in late, m.order = o, m.item = i, out'[o][i] = out[o][i] - m.delta,
             UNCHANGED <<requestVars, visitVars>>
      PROVE  /\ out'[o][i] \in {0, 1}
             /\ i > taken'[o] + 1 => out'[o][i] = 0
             /\ i = taken'[o] + 1 /\ phase'[o] \notin Stopped => out'[o][i] = 0
             /\ undone'[o] < i /\ i <= taken'[o] /\ (\A v \in Visits : target'[v] = o => restored'[v] < i)
                  => out'[o][i] = 1
  <2>1. /\ Abandoned(m) /\ i <= Len(cart[o])
        /\ out[o][i] = IF m.delta = -1 THEN 0 ELSE 1
    BY <1>5, <1>g DEF LateOnce
  <2>2. /\ taken' = taken /\ undone' = undone /\ phase' = phase
        /\ target' = target /\ restored' = restored
    BY <1>5 DEF requestVars, visitVars
  <2>3. CASE m.delta = -1 /\ i = taken[o] + 1 /\ phase[o] \in Stopped
    <3>1. out'[o][i] = 1
      BY <1>5, <2>1, <2>3
    <3> QED
      BY <1>t, <2>2, <2>3, <3>1
  <2>4. CASE m.delta = 1 /\ i <= undone[o]
    <3>1. out'[o][i] = 0
      BY <1>5, <2>1, <2>4
    <3> QED
      BY <1>t, <2>2, <2>4, <3>1
  <2>5. CASE m.from \in Visits /\ m.delta = 1 /\ target[m.from] = o /\ i <= restored[m.from]
    <3>1. out'[o][i] = 0
      BY <1>5, <2>1, <2>5
    <3>2. taken[o] = Len(cart[o])
      BY <1>g, <1>t, <2>5, RestoredOrder DEF Restores
    <3> QED
      BY <1>t, <2>1, <2>2, <2>5, <3>1, <3>2
  <2> QED
    BY <1>5, <2>1, <2>3, <2>4, <2>5 DEF Abandoned
<1> QED
  <2>1. (\E v \in Visits :
            /\ RestoreStock(v) /\ target[v] = o
            /\ i = restored[v] + 1 /\ out'[o][i] = out[o][i] - 1
            /\ visit[v] = "restoring" /\ target'[v] = o /\ restored'[v] = i)
          => out'[o][i] = 0 /\ i <= taken'[o]
             /\ \E v \in Visits : target'[v] = o /\ ~(restored'[v] < i)
    BY <1>4
  <2>2. i <= taken'[o] => ~(i > taken'[o] + 1) /\ i # taken'[o] + 1
    BY <1>t, <1>m
  <2> QED
    BY <1>1, <1>2, <1>3, <1>5, <2>1, <2>2, OutStep
\* At most one RPC is late for an item of an order that is no ghost.
LEMMA LateAlone ==
  ASSUME TypeOK, VisitsExclusive, RequestsProgress, LateOnce, NEW m \in late, NEW l \in late,
         ~Ghost(m.order), l.order = m.order, l.item = m.item
  PROVE  l = m
<1>1. /\ m \in Rpc /\ l \in Rpc /\ Abandoned(m) /\ Abandoned(l)
      /\ m.item \in 1 .. Len(cart[m.order])
  BY DEF TypeOK, LateOnce
<1>2. /\ m.order \in Orders /\ taken[m.order] \in Nat /\ undone[m.order] \in Nat
      /\ undone[m.order] <= taken[m.order]
      /\ undone[m.order] > 0 => phase[m.order] \in Stopped
  BY <1>1 DEF Rpc, TypeOK, RequestsProgress, Progress
<1>3. ASSUME NEW v \in Visits, target[v] = m.order, m.item <= restored[v]
      PROVE  Restores(v) /\ phase[m.order] \notin Stopped /\ undone[m.order] = 0
  <2>1. restored[v] > 0
    BY <1>1, <1>3, CartLength, CartAssumption DEF TypeOK, Rpc
  <2> QED
    BY <1>3, <2>1, RestoredOrder DEF Restores, Placed, Whole, Stopped
<1>4. CASE m.from = m.order
  <2>1. m.from \notin Visits
    BY <1>2, <1>4, NameAssumption
  <2>2. \/ m.delta = -1 /\ m.item = taken[m.order] + 1 /\ phase[m.order] \in Stopped
        \/ m.delta = 1 /\ m.item <= undone[m.order]
    BY <1>1, <2>1 DEF Abandoned
  <2>3. phase[m.order] \in Stopped
    BY <1>1, <1>2, <2>2, CartLength, CartAssumption DEF Rpc
  <2>4. \/ l.from = l.order /\ l.delta = -1 /\ l.item = taken[m.order] + 1
        \/ l.from = l.order /\ l.delta = 1 /\ l.item <= undone[m.order]
    BY <1>1, <1>3, <2>3 DEF Abandoned
  <2>5. l.delta = m.delta /\ l.from = m.from
    BY <1>2, <1>4, <2>2, <2>4
  <2> QED
    BY <1>1, <2>5 DEF Rpc
<1>5. CASE m.from # m.order
  <2>1. /\ m.from \in Visits /\ m.delta = 1
        /\ target[m.from] = m.order /\ m.item <= restored[m.from]
    BY <1>1, <1>5 DEF Abandoned
  <2>2. Restores(m.from) /\ phase[m.order] \notin Stopped /\ undone[m.order] = 0
    BY <1>3, <2>1
  <2>3. /\ l.from \in Visits /\ l.delta = 1
        /\ target[l.from] = m.order /\ m.item <= restored[l.from]
    BY <1>1, <2>2 DEF Abandoned
  <2>4. l.from = m.from
    BY <1>3, <2>1, <2>2, <2>3 DEF VisitsExclusive
  <2> QED
    BY <1>1, <2>1, <2>3, <2>4 DEF Rpc
<1> QED
  BY <1>4, <1>5

\* An RPC that is late is not overtaken by another for the same item.
LEMMA LateItemStays ==
  ASSUME TypeOK, VisitsExclusive, RequestsProgress, LateOnce, [Next]_vars,
         NEW m \in late, m \in late', ~Ghost(m.order)
  PROVE  out'[m.order][m.item] = out[m.order][m.item]
<1> DEFINE o == m.order
           i == m.item
<1>1. /\ m \in Rpc /\ o \in Orders /\ Abandoned(m) /\ i \in 1 .. Len(cart[o])
  BY DEF LateOnce, TypeOK, Rpc
<1>2. /\ i \in 1 .. MaxItems /\ i \in Nat /\ i > 0
      /\ taken[o] \in Nat /\ undone[o] \in Nat /\ undone[o] <= taken[o]
      /\ undone[o] > 0 => phase[o] \in Stopped
  <2>1. /\ taken[o] \in Nat /\ undone[o] \in Nat /\ undone[o] <= taken[o]
        /\ undone[o] > 0 => phase[o] \in Stopped
    BY <1>1 DEF TypeOK, RequestsProgress, Progress
  <2> QED
    BY <1>1, <2>1, ItemType, CartAssumption
<1>3. ASSUME NEW v \in Visits, target[v] = o, i <= restored[v]
      PROVE  Restores(v) /\ phase[o] \in Whole /\ undone[o] = 0
  <2>1. restored[v] > 0
    BY <1>2, <1>3 DEF TypeOK
  <2> QED
    BY <1>3, <2>1, RestoredOrder DEF Restores
<1>a. \/ m.from = o /\ i = taken[o] + 1 /\ phase[o] \in Stopped
      \/ m.from = o /\ i <= undone[o]
      \/ m.from \in Visits /\ target[m.from] = o /\ i <= restored[m.from]
  BY <1>1 DEF Abandoned
<1> HIDE DEF o, i
<1>4. ASSUME phase[o] = "deducting" PROVE FALSE
  BY <1>4, <1>a, <1>2, <1>3 DEF Stopped, Placed, Whole
<1>5. ASSUME phase[o] = "undoing", i = undone[o] + 1, i <= taken[o] PROVE FALSE
  BY <1>5, <1>a, <1>2, <1>3 DEF Placed, Whole
<1>6. ASSUME NEW v \in Visits, target[v] = o, i = restored[v] + 1, visit[v] = "restoring"
      PROVE  FALSE
  <2>1. phase[o] \in Whole /\ undone[o] = 0
    BY <1>6, RestoredOrder DEF Restores, o
  <2>2. m.from \in Visits /\ target[m.from] = o /\ i <= restored[m.from]
    BY <1>2, <1>a, <2>1 DEF Placed, Whole, Stopped
  <2>3. m.from = v
    BY <1>3, <1>6, <2>2 DEF VisitsExclusive, Restores
  <2> QED
    BY <1>6, <2>2, <2>3 DEF TypeOK
<1>7. ASSUME NEW l \in late, l.order = o, l.item = i, late' = late \ {l} PROVE FALSE
  BY <1>7, LateAlone DEF o, i
<1>8. out'[o][i] = out[o][i]
  BY <1>1, <1>2, <1>4, <1>5, <1>6, <1>7, OutStep
<1> QED
  BY <1>8 DEF o, i

\* Every RPC that is late is still the only one that can move its item.
LEMMA LateOnceNext ==
  ASSUME TypeOK, VisitsExclusive, OnlyPushedWait, RequestsProgress, StockTracked, LateOnce,
         [Next]_vars
  PROVE  LateOnce'
<1> SUFFICES ASSUME NEW m \in late'
             PROVE  /\ m.item \in 1 .. Len(cart'[m.order])
                    /\ Abandoned(m)'
                    /\ ~Ghost(m.order)' =>
                         out'[m.order][m.item] = IF m.delta = -1 THEN 0 ELSE 1
  BY DEF LateOnce
<1>1. CASE m \in late
  <2> DEFINE o == m.order
  <2>1. /\ m \in Rpc /\ o \in Orders /\ Abandoned(m) /\ m.item \in 1 .. Len(cart[o])
        /\ ~Ghost(o) => out[o][m.item] = IF m.delta = -1 THEN 0 ELSE 1
    BY <1>1 DEF LateOnce, TypeOK, Rpc
  <2>2. /\ taken[o] \in Nat /\ undone[o] \in Nat /\ m.item \in Nat /\ m.item > 0
        /\ undone[o] > 0 => phase[o] \in Stopped
    BY <2>1, CartLength, CartAssumption DEF Rpc, TypeOK, RequestsProgress, Progress
  <2>3. phase[o] # "new"
    <3>1. ASSUME NEW v \in Visits, target[v] = o, m.item <= restored[v] PROVE phase[o] # "new"
      <4>1. restored[v] > 0
        BY <2>2, <3>1 DEF TypeOK
      <4> QED
        BY <3>1, <4>1, RestoredOrder DEF Restores, Placed, Whole, Stopped
    <3> QED
      BY <2>1, <2>2, <3>1 DEF Abandoned, Stopped
  <2>4. /\ cart'[o] = cart[o]
        /\ phase[o] \in Stopped => phase'[o] \in Stopped /\ taken'[o] = taken[o]
        /\ undone'[o] \in {undone[o], undone[o] + 1}
    BY <2>1, <2>3, RequestStep DEF Stopped
  <2>5. Abandoned(m)'
    <3>1. ASSUME m.from \in Visits, target[m.from] = o, m.item <= restored[m.from]
          PROVE  target'[m.from] = o /\ m.item <= restored'[m.from]
      <4>1. target'[m.from] = o /\ restored'[m.from] >= restored[m.from]
        BY <2>1, <3>1, RestoredStays
      <4>2. restored'[m.from] \in Nat /\ restored[m.from] \in Nat
        BY <3>1, TypeNext DEF TypeOK
      <4> QED
        BY <2>2, <3>1, <4>1, <4>2
    <3> QED
      BY <2>1, <2>2, <2>4, <3>1 DEF Abandoned
  <2>6. ~Ghost(o)' => ~Ghost(o) /\ out'[o][m.item] = out[o][m.item]
    BY <1>1, <2>1, GhostStays, LateItemStays
  <2> QED
    BY <2>1, <2>4, <2>5, <2>6
<1>2. ASSUME NEW o \in Orders, DecreaseStock(o), phase[o] = "deducting", phase'[o] = "undoing",
             m = [order |-> o, item |-> taken[o] + 1, delta |-> -1, from |-> o], out' = out
      PROVE  /\ m.item \in 1 .. Len(cart'[m.order])
             /\ Abandoned(m)'
             /\ ~Ghost(m.order)' =>
                  out'[m.order][m.item] = IF m.delta = -1 THEN 0 ELSE 1
  <2>1. /\ m.order = o /\ m.item = taken[o] + 1 /\ m.delta = -1 /\ m.from = o
    BY <1>2
  <2>2. taken[o] + 1 \in 1 .. Len(cart[o])
    BY <1>2, NextItem
  <2>3. cart'[o] = cart[o] /\ taken'[o] = taken[o]
    BY <1>2, RequestStep
  <2>4. ~Ghost(o)' => out[o][taken[o] + 1] = 0
    <3> SUFFICES ASSUME ~Ghost(o)' PROVE out[o][taken[o] + 1] = 0
      OBVIOUS
    <3>1. HeldUnlessReturned(o)
      BY GhostStays DEF StockTracked
    <3>2. taken[o] + 1 \in 1 .. MaxItems
      BY <2>2, ItemType
    <3> QED
      BY <1>2, <3>1, <3>2 DEF HeldUnlessReturned, Stopped
  <2> QED
    BY <1>2, <2>1, <2>2, <2>3, <2>4 DEF Abandoned, Stopped
<1>3. ASSUME NEW o \in Orders, Compensate(o), phase[o] = "undoing", undone'[o] = undone[o] + 1,
             m = [order |-> o, item |-> undone[o] + 1, delta |-> 1, from |-> o],
             undone[o] + 1 <= taken[o], out' = out
      PROVE  /\ m.item \in 1 .. Len(cart'[m.order])
             /\ Abandoned(m)'
             /\ ~Ghost(m.order)' =>
                  out'[m.order][m.item] = IF m.delta = -1 THEN 0 ELSE 1
  <2>1. /\ m.order = o /\ m.item = undone[o] + 1 /\ m.delta = 1 /\ m.from = o
    BY <1>3
  <2>2. undone[o] + 1 \in 1 .. Len(cart[o])
    BY <1>3, NextItem
  <2>3. cart'[o] = cart[o]
    BY <1>3, RequestStep
  <2>4. ~Ghost(o)' => out[o][undone[o] + 1] = 1
    BY <1>3, GhostStays, HeldBefore DEF TypeOK
  <2>5. undone'[o] \in Nat
    BY TypeNext DEF TypeOK
  <2> QED
    BY <1>3, <2>1, <2>2, <2>3, <2>4, <2>5 DEF Abandoned
<1>4. ASSUME NEW v \in Visits, RestoreStock(v), visit[v] = "restoring",
             m = [order |-> target[v], item |-> restored[v] + 1, delta |-> 1, from |-> v],
             restored'[v] = restored[v] + 1, target'[v] = target[v], out' = out
      PROVE  /\ m.item \in 1 .. Len(cart'[m.order])
             /\ Abandoned(m)'
             /\ ~Ghost(m.order)' =>
                  out'[m.order][m.item] = IF m.delta = -1 THEN 0 ELSE 1
  <2>1. /\ m.order = target[v] /\ m.item = restored[v] + 1 /\ m.delta = 1 /\ m.from = v
    BY <1>4
  <2>2. target[v] \in Orders /\ restored[v] + 1 \in 1 .. Len(cart[target[v]])
    BY <1>4, NextItem
  <2>3. cart'[target[v]] = cart[target[v]]
    BY <1>4, <2>2, RestoredOrder, CartStays DEF Restores
  <2>4. ~Ghost(target[v])' => out[target[v]][restored[v] + 1] = 1
    BY <1>4, <2>1, <2>2, GhostStays, HeldBefore
  <2>5. restored'[v] \in Nat
    BY TypeNext DEF TypeOK
  <2> QED
    BY <1>4, <2>1, <2>2, <2>3, <2>4, <2>5 DEF Abandoned
<1> QED
  BY <1>1, <1>2, <1>3, <1>4, LateStep
-----------------------------------------------------------------------------
\* The invariant is inductive.
LEMMA InductiveStep == IInv /\ [Next]_vars => IInv'
BY TypeNext, RequestsProgressNext, VisitsExclusiveNext, OnlyPushedWaitNext, StockTrackedNext,
   LateOnceNext DEF IInv

\* The inductive invariant holds in every reachable state.
THEOREM Invariance == Spec => []IInv
BY InitIInv, InductiveStep, PTL DEF Spec

\* The stock is never negative, and every other variable keeps its type.
THEOREM TypeCorrect == Spec => []TypeOK
<1>1. IInv => TypeOK
  BY DEF IInv
<1> QED
  BY <1>1, Invariance, PTL

\* An order that has taken every item and is not given up or cancelled holds
\* each of them.
LEMMA PlacedHolds ==
  ASSUME IInv, NEW o \in Orders, phase[o] \in Whole, row[o] # "cancelled",
         NEW i \in ItemsOf(o)
  PROVE  out[o][i] = 1
<1> USE DEF IInv
<1>1. ~Ghost(o)
  BY DEF Ghost, Placed, Whole
<1>2. taken[o] = Len(cart[o]) /\ undone[o] = 0
  <2>1. Progress(o) /\ undone[o] \in Nat
    BY DEF RequestsProgress, TypeOK
  <2> QED
    BY <2>1 DEF Progress, Placed, Whole, Stopped
<1>3. i \in 1 .. MaxItems /\ undone[o] < i /\ i <= taken[o]
  BY <1>2, ItemType DEF ItemsOf
<1>4. \A v \in Visits : target[v] = o => restored[v] < i
  <2> SUFFICES ASSUME NEW v \in Visits, target[v] = o PROVE restored[v] < i
    OBVIOUS
  <2>1. ~(restored[v] > 0) /\ restored[v] \in Nat
    BY RestoredOrder DEF Restores, TypeOK
  <2> QED
    BY <1>3, <2>1, CartAssumption
<1> QED
  BY <1>1, <1>3, <1>4 DEF StockTracked, HeldUnlessReturned

\* A live order whose request did not fail holds each of its items exactly
\* once, whatever fails, comes late or crashes.
THEOREM LiveOrdersHold == Spec => []LiveOrderHoldsItsStock
<1>1. IInv => LiveOrderHoldsItsStock
  BY PlacedHolds DEF LiveOrderHoldsItsStock, Live, Ghost, Placed, Whole
<1> QED
  BY <1>1, Invariance, PTL

\* An order that was accepted and has no row yet holds each of its items.
THEOREM AcceptedOrdersHold == Spec => []AcceptedOrderHoldsItsStock
<1>1. IInv => AcceptedOrderHoldsItsStock
  BY PlacedHolds DEF AcceptedOrderHoldsItsStock, Placed, Whole
<1> QED
  BY <1>1, Invariance, PTL

\* Compensation, cancellation and late RPCs together give an item back at
\* most once, ghosts excepted.
THEOREM RestoredOnce == Spec => []NothingRestoredTwice
<1>1. IInv => NothingRestoredTwice
  BY DEF IInv, NothingRestoredTwice, StockTracked, HeldUnlessReturned
<1> QED
  BY <1>1, Invariance, PTL

\* The status of an order only moves forward.
THEOREM StatusForward == Spec => StatusMovesForward
<1>1. IInv /\ [Next]_vars => [\A o \in Orders : Rank[row[o]] <= Rank[row'[o]]]_row
  <2> SUFFICES ASSUME IInv, [Next]_vars, NEW o \in Orders PROVE Rank[row[o]] <= Rank[row'[o]]
    OBVIOUS
  <2>1. row[o] \in Statuses
    BY DEF IInv, TypeOK
  <2>2. /\ Rank["none"] = 0 /\ Rank["pending"] = 1
        /\ Rank["confirmed"] = 2 /\ Rank["cancelled"] = 3
    BY DEF Rank, Statuses
  <2> QED
    BY <2>1, <2>2, RowStep DEF IInv, Statuses
<1> QED
  BY <1>1, Invariance, PTL DEF Spec, StatusMovesForward
-----------------------------------------------------------------------------
(***************************************************************************)
(* The stock of a product and what the items of all orders hold of it add  *)
(* up to what there was at first, whatever is lost, late or applied with   *)
(* an error: every step that moves units changes both sides by as much.    *)
(* An item with a negative quantity holds less than nothing.               *)
(***************************************************************************)
\* The units of p each item of an order holds.
Units(p) ==
  [x \in Items |-> IF Names(x, p) THEN out[x[1]][x[2]] * cart[x[1]][x[2]].quantity ELSE 0]

UnitsAddUp ==
  \A p \in Products : stock[p] + SumFunctionOnSet(Units(p), Items) = InitialStock[p]

\* The items of all orders are finitely many.
LEMMA ItemsFinite == IsFiniteSet(Items)
<1>1. IsFiniteSet(1 .. MaxItems)
  BY CartAssumption, FS_Interval
<1> QED
  BY <1>1, FiniteAssumption, FS_Product DEF Items

\* What an item holds is an integer.
LEMMA UnitsType ==
  TypeOK /\ RequestsProgress => \A p \in Products, x \in Items : Units(p)[x] \in Int
<1> SUFFICES ASSUME TypeOK, RequestsProgress, NEW p \in Products, NEW x \in Items
             PROVE  Units(p)[x] \in Int
  OBVIOUS
<1>1. CASE Names(x, p)
  <2>1. x[1] \in Orders /\ x[2] \in 1 .. Len(cart[x[1]])
    BY <1>1 DEF Items, Names, ItemsOf
  <2>2. cart[x[1]][x[2]].quantity \in Int /\ x[2] \in 1 .. MaxItems
    BY <2>1, ItemType
  <2>3. out[x[1]][x[2]] \in Int
    <3>1. out[x[1]] \in [1 .. MaxItems -> Int]
      BY <2>1 DEF TypeOK
    <3> QED
      BY <2>2, <3>1
  <2>4. Units(p)[x] = out[x[1]][x[2]] * cart[x[1]][x[2]].quantity
    BY <1>1 DEF Units
  <2> QED
    BY <2>2, <2>3, <2>4
<1>2. CASE ~Names(x, p)
  BY <1>2 DEF Units
<1> QED
  BY <1>1, <1>2

\* It stays one.
LEMMA UnitsTypeNext ==
  TypeOK' /\ RequestsProgress' => (\A p \in Products, x \in Items : Units(p)[x] \in Int)'
BY UnitsType, PTL

\* One more or one less of an item is its quantity more or less.
LEMMA OneMore ==
  ASSUME NEW n \in Int, NEW q \in Int, NEW d \in {-1, 1}
  PROVE  (n - d) * q = n * q - d * q /\ n * q \in Int /\ d * q \in Int
<1>1. (n - 1) * q = n * q - q /\ (n + 1) * q = n * q + q
  OBVIOUS
<1>2. CASE d = 1
  BY <1>1, <1>2
<1>3. CASE d = -1
  BY <1>1, <1>3
<1> QED
  BY <1>2, <1>3

\* An RPC that is applied takes from the stock what it adds to the item.
LEMMA AppliedAddsUp ==
  ASSUME TypeOK, RequestsProgress, TypeOK', RequestsProgress', UnitsAddUp,
         NEW o \in Orders, NEW i \in 1 .. Len(cart[o]), NEW d \in {-1, 1}, Applied(o, i, d),
         cart' = cart
  PROVE  UnitsAddUp'
<1> SUFFICES ASSUME NEW p \in Products
             PROVE  stock'[p] + SumFunctionOnSet(Units(p)', Items) = InitialStock[p]
  BY DEF UnitsAddUp, Items
<1> DEFINE x == <<o, i>>
           q == cart[o][i].quantity
<1>1. /\ i \in 1 .. MaxItems /\ x \in Items
      /\ q \in Int /\ cart[o][i].product \in Products
  BY ItemType DEF Items
<1>2. /\ stock' = [stock EXCEPT ![cart[o][i].product] = @ + d * q]
      /\ out' = [out EXCEPT ![o][i] = @ - d]
  BY DEF Applied
<1>3. out \in [Orders -> [1 .. MaxItems -> Int]] /\ stock \in [Products -> 0 .. MaxInt]
  BY DEF TypeOK
<1>4. /\ out'[o][i] = out[o][i] - d /\ out[o][i] \in Int
      /\ \A y \in Items : y # x => out'[y[1]][y[2]] = out[y[1]][y[2]]
  <2>1. out[o] \in [1 .. MaxItems -> Int]
    BY <1>3
  <2>2. out'[o][i] = out[o][i] - d /\ out[o][i] \in Int
    BY <1>1, <1>2, <1>3, <2>1
  <2>3. ASSUME NEW y \in Items, y # x PROVE out'[y[1]][y[2]] = out[y[1]][y[2]]
    <3>1. y[1] \in Orders /\ y[2] \in 1 .. MaxItems /\ (y[1] # o \/ y[2] # i)
      BY <2>3 DEF Items
    <3> QED
      BY <1>1, <1>2, <1>3, <2>1, <3>1
  <2> QED
    BY <2>2, <2>3
<1>5. \A y \in Items : Names(y, p)' <=> Names(y, p)
  BY DEF Names, ItemsOf
<1>6. \A y \in Items \ {x} : Units(p)[y] = Units(p)'[y]
  BY <1>4, <1>5 DEF Units, Items
<1>7. \A y \in Items : Units(p)[y] \in Int /\ Units(p)'[y] \in Int
  <2>1. \A y \in Items : Units(p)[y] \in Int
    BY UnitsType
  <2>2. (\A y \in Items : Units(p)[y] \in Int)'
    BY UnitsTypeNext
  <2> QED
    BY <2>1, <2>2 DEF Items
<1>8. /\ SumFunctionOnSet(Units(p)', Items)
           = SumFunctionOnSet(Units(p), Items) - Units(p)[x] + Units(p)'[x]
      /\ SumFunctionOnSet(Units(p), Items) \in Int
  <2> HIDE DEF x
  <2> QED
    BY <1>1, <1>6, <1>7, ItemsFinite, SumChange, SumType
<1>9. stock[p] + SumFunctionOnSet(Units(p), Items) = InitialStock[p]
  BY DEF UnitsAddUp
<1>10. CASE cart[o][i].product = p
  <2>1. Names(x, p) /\ Names(x, p)'
    BY <1>1, <1>5, <1>10 DEF Names, ItemsOf
  <2>2. Units(p)[x] = out[o][i] * q /\ Units(p)'[x] = (out[o][i] - d) * q
    BY <1>1, <1>4, <2>1 DEF Units, Items
  <2>3. stock'[p] = stock[p] + d * q
    BY <1>2, <1>3, <1>10
  <2>4. (out[o][i] - d) * q = out[o][i] * q - d * q /\ out[o][i] * q \in Int /\ d * q \in Int
    <3>1. out[o][i] \in Int /\ q \in Int
      BY <1>1, <1>4
    <3> HIDE DEF q
    <3> QED
      BY <3>1, OneMore
  <2>5. stock[p] \in Int
    BY <1>3
  <2> HIDE DEF x, q
  <2> QED
    BY <1>8, <1>9, <2>2, <2>3, <2>4, <2>5
<1>11. CASE cart[o][i].product # p
  <2>1. ~Names(x, p) /\ ~Names(x, p)'
    BY <1>1, <1>5, <1>11 DEF Names
  <2>2. Units(p)[x] = 0 /\ Units(p)'[x] = 0
    BY <1>1, <2>1 DEF Units, Items
  <2>3. stock'[p] = stock[p]
    BY <1>2, <1>3, <1>11
  <2> HIDE DEF x
  <2> QED
    BY <1>8, <1>9, <2>2, <2>3
<1> QED
  BY <1>10, <1>11

\* Who calls the product service, and who chooses a cart.
LEMMA RpcFrame ==
  ASSUME [Next]_vars
  PROVE  /\ \/ \E o \in Orders : DecreaseStock(o) \/ Compensate(o)
            \/ \E v \in Visits : RestoreStock(v)
            \/ \E m \in late : LateRpc(m)
            \/ UNCHANGED <<stock, out>>
         /\ (\E o \in Orders, items \in Carts : CreateOrder(o, items)) \/ UNCHANGED cart
<1>1. \/ \E o \in Orders : DecreaseStock(o) \/ Compensate(o)
      \/ \E v \in Visits : RestoreStock(v)
      \/ \E m \in late : LateRpc(m)
      \/ UNCHANGED <<stock, out>>
  BY DEF Next, Place, Serve, Work, CreateOrder, PriceItems, ReturnError, InsertOrder, Enqueue,
         Dequeue, ProcessOrder, CommitConfirm, CommitCancel, ConfirmOrder, CancelOrder, Begin,
         ClientGone, Crash, vars, productVars
<1>2. (\E o \in Orders, items \in Carts : CreateOrder(o, items)) \/ UNCHANGED cart
  BY DEF Next, Place, Serve, Work, PriceItems, DecreaseStock, Compensate, ReturnError,
         InsertOrder, Enqueue, Dequeue, ProcessOrder, RestoreStock, CommitConfirm, CommitCancel,
         ConfirmOrder, CancelOrder, Begin, ClientGone, LateRpc, Crash, vars, requestVars
<1> QED
  BY <1>1, <1>2

\* An RPC that is made, in time or late, is about an item of a cart.
LEMMA RpcApplied ==
  ASSUME IInv, [Next]_vars
  PROVE  \/ UNCHANGED <<stock, out>>
         \/ /\ UNCHANGED cart
            /\ \E o \in Orders : \E i \in 1 .. Len(cart[o]) : \E d \in {-1, 1} : Applied(o, i, d)
<1>0. TypeOK /\ VisitsExclusive /\ RequestsProgress /\ LateOnce
  BY DEF IInv
<1>1. ASSUME NEW o \in Orders, DecreaseStock(o)
      PROVE  UNCHANGED cart /\ (UNCHANGED <<stock, out>> \/ Applied(o, taken[o] + 1, -1))
  BY <1>1 DEF DecreaseStock, Succeeds, Fails
<1>2. ASSUME NEW o \in Orders, Compensate(o)
      PROVE  UNCHANGED cart /\ (UNCHANGED <<stock, out>> \/ Applied(o, undone[o] + 1, 1))
  BY <1>2 DEF Compensate, Succeeds, Fails
<1>3. ASSUME NEW v \in Visits, RestoreStock(v)
      PROVE  UNCHANGED cart /\ (UNCHANGED <<stock, out>> \/ Applied(target[v], restored[v] + 1, 1))
  BY <1>3 DEF RestoreStock, Succeeds, Fails, requestVars
<1>4. ASSUME NEW m \in late, LateRpc(m)
      PROVE  UNCHANGED cart /\ (UNCHANGED <<stock, out>> \/ Applied(m.order, m.item, m.delta))
  BY <1>4 DEF LateRpc, requestVars
<1>5. \A m \in late :
        m.order \in Orders /\ m.item \in 1 .. Len(cart[m.order]) /\ m.delta \in {-1, 1}
  BY <1>0 DEF LateOnce, TypeOK, Rpc
<1>6. /\ \A o \in Orders : DecreaseStock(o) => taken[o] + 1 \in 1 .. Len(cart[o])
      /\ \A o \in Orders : Compensate(o) => undone[o] + 1 \in 1 .. Len(cart[o])
      /\ \A v \in Visits : RestoreStock(v) => /\ target[v] \in Orders
                                              /\ restored[v] + 1 \in 1 .. Len(cart[target[v]])
  BY <1>0, NextItem
<1> QED
  BY <1>1, <1>2, <1>3, <1>4, <1>5, <1>6, RpcFrame

\* An order that has just got its cart holds nothing yet.
LEMMA CartAddsUp ==
  ASSUME IInv, IInv', UnitsAddUp, NEW o \in Orders, NEW items \in Carts, CreateOrder(o, items)
  PROVE  UnitsAddUp'
<1>1. /\ phase[o] = "new" /\ cart' = [cart EXCEPT ![o] = items] /\ UNCHANGED <<stock, out>>
  BY DEF CreateOrder, productVars
<1>2. \A i \in 1 .. MaxItems : out[o][i] = 0
  <2>1. Progress(o) /\ taken[o] \in Nat /\ undone[o] \in Nat
    BY DEF IInv, TypeOK, RequestsProgress
  <2>2. taken[o] = 0 /\ ~Ghost(o)
    BY <1>1, <2>1 DEF Progress, Ghost, Placed, Whole, Stopped
  <2>3. HeldUnlessReturned(o)
    BY <2>2 DEF IInv, StockTracked
  <2> QED
    BY <1>1, <2>2, <2>3, CartAssumption DEF HeldUnlessReturned, Stopped
<1>3. ASSUME NEW p \in Products, NEW x \in Items PROVE Units(p)'[x] = Units(p)[x]
  <2>1. x[1] \in Orders /\ x[2] \in 1 .. MaxItems
    BY DEF Items
  <2>2. CASE x[1] # o
    <3>1. cart'[x[1]] = cart[x[1]]
      BY <1>1, <2>1, <2>2 DEF IInv, TypeOK
    <3> QED
      BY <1>1, <3>1 DEF Units, Items, Names, ItemsOf
  <2>3. CASE x[1] = o
    <3>1. out[x[1]][x[2]] = 0
      BY <1>2, <2>1, <2>3
    <3>2. cart[x[1]] = <<>> \/ cart[x[1]] \in Carts
      BY <2>1 DEF IInv, TypeOK
    <3>3. Names(x, p) => cart[x[1]][x[2]].quantity \in Int
      BY <2>1, ItemType DEF Names, ItemsOf, IInv
    <3>4. Names(x, p)' => cart'[x[1]][x[2]].quantity \in Int
      <4> SUFFICES ASSUME Names(x, p)' PROVE cart'[x[1]][x[2]].quantity \in Int
        OBVIOUS
      <4>1. cart'[o] = items
        BY <1>1 DEF IInv, TypeOK
      <4>2. items \in Seq(Item) /\ x[2] \in 1 .. Len(items)
        BY <2>3, <4>1, CartAssumption DEF Names, ItemsOf
      <4>3. items[x[2]] \in Item
        BY <4>2
      <4>4. items[x[2]].quantity \in Int
        BY <4>3, CartAssumption DEF Item
      <4> QED
        BY <2>3, <4>1, <4>4
    <3>5. Units(p)[x] = 0
      BY <3>1, <3>3 DEF Units
    <3>6. Units(p)'[x] = 0
      BY <1>1, <3>1, <3>4 DEF Units, Items
    <3> QED
      BY <3>5, <3>6
  <2> QED
    BY <2>2, <2>3
<1>4. ASSUME NEW p \in Products
      PROVE  SumFunctionOnSet(Units(p)', Items) = SumFunctionOnSet(Units(p), Items)
  BY <1>3, ItemsFinite, SumAgree
<1> QED
  BY <1>1, <1>4 DEF UnitsAddUp, Items

\* The sum stands, whatever fails.
LEMMA UnitsAddUpNext ==
  ASSUME IInv, IInv', UnitsAddUp, [Next]_vars
  PROVE  UnitsAddUp'
<1>1. CASE UNCHANGED <<stock, out, cart>>
  BY <1>1 DEF UnitsAddUp, Units, Items, Names, ItemsOf
<1>2. CASE /\ UNCHANGED cart
           /\ \E o \in Orders : \E i \in 1 .. Len(cart[o]) : \E d \in {-1, 1} : Applied(o, i, d)
  BY <1>2, AppliedAddsUp DEF IInv
<1>3. CASE \E o \in Orders, items \in Carts : CreateOrder(o, items)
  BY <1>3, CartAddsUp
<1> QED
  BY <1>1, <1>2, <1>3, RpcApplied, RpcFrame

\* Nothing is out at first.
LEMMA UnitsAddUpInit == Init => UnitsAddUp
<1> SUFFICES ASSUME Init, NEW p \in Products
             PROVE  stock[p] + SumFunctionOnSet(Units(p), Items) = InitialStock[p]
  BY DEF UnitsAddUp
<1>1. \A x \in Items : Units(p)[x] = 0
  BY DEF Init, Units, Items, Names, ItemsOf
<1>2. SumFunctionOnSet(Units(p), Items) = 0
  BY <1>1, ItemsFinite, SumZero
<1> QED
  BY <1>2, StockAssumption DEF Init

\* What is not in stock is held by the items of orders, whatever fails, is lost,
\* comes late or crashes.
LEMMA UnitsStand == Spec => []UnitsAddUp
<1>1. IInv /\ [Next]_vars => IInv'
  BY InductiveStep
<1>2. IInv /\ IInv' /\ UnitsAddUp /\ [Next]_vars => UnitsAddUp'
  BY UnitsAddUpNext
<1> QED
  BY <1>1, <1>2, InitIInv, UnitsAddUpInit, PTL DEF Spec
-----------------------------------------------------------------------------
(***************************************************************************)
(* Without lost or unclear answers, without clients that go away, and      *)
(* without commits that take effect and report an error, compensation and  *)
(* cancellation give back everything of a product no order has asked a     *)
(* negative quantity of; statements may still fail, CHECKs refuse orders   *)
(* and the service die.                                                    *)
(***************************************************************************)
Answered == Faults \cap {"cancel", "lost", "unclear", "commit", "again"} = {}
\* A commit and an LPUSH that report an error, or nothing, had no effect.
ClearCommits == Faults \cap {"commit", "again"} = {}

\* A row is that of an order whose client was told of it, and so will be the
\* rows of those that wait.
NoGhosts ==
  /\ \A o \in Orders : row[o] # "none" => phase[o] \in Placed
  /\ \A i \in 1 .. Len(queue) : phase[queue[i]] = "accepted"
  /\ \A w \in Workers : worker[w] # NoOne => phase[worker[w]] = "accepted"

\* No request has lost its context, no RPC is late, and no order is a ghost.
NobodyLeft == late = {} /\ (\A r \in Requests : ~gone[r]) /\ NoGhosts

\* What was not taken is not held, and what was given back is back, unless it
\* may have been refused for what a negative quantity did to the stock.
ReturnedIsBack ==
  \A o \in Orders :
    /\ \A i \in 1 .. MaxItems :
         /\ i > taken[o] => out[o][i] = 0
         /\ NeverNegative(cart[o][i].product) =>
              /\ i <= undone[o] => out[o][i] = 0
              /\ \A v \in Visits : target[v] = o /\ i <= restored[v] => out[o][i] = 0
    /\ phase[o] = "failed" => undone[o] = taken[o]

\* A cancelled order was cancelled by a visit that is still giving its stock
\* back, has given it all back, or has died.
CancelledByVisit ==
  \A o \in Orders : row[o] = "cancelled" =>
    \E v \in Visits :
      /\ target[v] = o
      /\ \/ visit[v] \in {"restoring", "dead"}
         \/ visit[v] = "done" /\ restored[v] = Len(cart[o])

HandledInv == IInv /\ NobodyLeft /\ UnitsAddUp /\ ReturnedIsBack /\ CancelledByVisit

\* Nothing is late, gone or lost at the start.
LEMMA InitHandled == Init => HandledInv
<1> SUFFICES ASSUME Init PROVE HandledInv
  OBVIOUS
<1>1. NobodyLeft
  BY DEF Init, NobodyLeft, NoGhosts, Ghost
<1>2. ReturnedIsBack
  BY DEF Init, ReturnedIsBack
<1>3. CancelledByVisit
  BY DEF Init, CancelledByVisit
<1> QED
  BY <1>1, <1>2, <1>3, InitIInv, UnitsAddUpInit DEF HandledInv

\* Nothing holds less than nothing of a product no order has asked a negative
\* quantity of.
LEMMA UnitsPositive ==
  ASSUME IInv, NoGhosts, NEW p \in Products, NeverNegative(p), NEW x \in Items
  PROVE  Units(p)[x] \in Nat
<1>1. CASE Names(x, p)
  <2>1. x[1] \in Orders /\ x[2] \in 1 .. Len(cart[x[1]])
    BY <1>1 DEF Items, Names, ItemsOf
  <2>2. cart[x[1]][x[2]].quantity \in Int /\ x[2] \in 1 .. MaxItems
    BY <2>1, ItemType DEF IInv
  <2>3. cart[x[1]][x[2]].quantity >= 0
    BY <1>1 DEF NeverNegative
  <2>4. HeldUnlessReturned(x[1])
    BY <2>1 DEF IInv, StockTracked, NoGhosts, Ghost, Placed
  <2>5. out[x[1]][x[2]] \in {0, 1}
    BY <2>2, <2>4 DEF HeldUnlessReturned
  <2>6. Units(p)[x] = out[x[1]][x[2]] * cart[x[1]][x[2]].quantity
    BY <1>1 DEF Units
  <2> QED
    BY <2>2, <2>3, <2>5, <2>6
<1>2. CASE ~Names(x, p)
  BY <1>2 DEF Units
<1> QED
  BY <1>1, <1>2

\* There is room in the stock for an item that is held, as all that is held and
\* the stock add up to what there was at first.
LEMMA RoomToReturn ==
  ASSUME IInv, NoGhosts, UnitsAddUp, NEW o \in Orders, NEW i \in 1 .. Len(cart[o]),
         NeverNegative(cart[o][i].product), out[o][i] = 1
  PROVE  Enough(o, i, 1)
<1> DEFINE p == cart[o][i].product
           q == cart[o][i].quantity
           x == <<o, i>>
<1>1. p \in Products /\ q \in Int /\ x \in Items /\ {x} \in SUBSET Items
  BY ItemType DEF IInv, Items
<1>2. Names(x, p)
  BY DEF Names, ItemsOf
<1>3. q >= 0
  BY <1>1, <1>2 DEF NeverNegative
<1>4. Units(p)[x] = 1 * q
  BY <1>1, <1>2 DEF Units
<1>5. \A y \in Items : Units(p)[y] \in Nat
  BY <1>1, UnitsPositive
<1>6. stock[p] + SumFunctionOnSet(Units(p), Items) = InitialStock[p]
  BY <1>1 DEF UnitsAddUp
<1>7. stock[p] \in 0 .. MaxInt /\ InitialStock[p] \in 0 .. MaxInt /\ MaxInt \in Nat
  BY <1>1, StockAssumption, CartAssumption DEF IInv, TypeOK
<1>8. 1 * q = q
  BY <1>1
<1> HIDE DEF p, q, x
<1>9. SumFunctionOnSet(Units(p), {x}) = q
  <2>1. IsFiniteSet({x}) /\ {x} \ {x} = {}
    BY FS_Singleton
  <2>2. SumFunctionOnSet(Units(p), {x}) = Units(p)[x] + SumFunctionOnSet(Units(p), {x} \ {x})
    BY <1>1, <1>5, <2>1, SumRemove
  <2>3. Units(p)[x] = q
    BY <1>4, <1>8
  <2>4. SumFunctionOnSet(Units(p), {x} \ {x}) = 0
    BY <2>1, SumEmpty
  <2>5. q + 0 = q
    BY <1>1
  <2> QED
    BY <2>2, <2>3, <2>4, <2>5
<1>10. SumFunctionOnSet(Units(p), {x}) <= SumFunctionOnSet(Units(p), Items)
  BY <1>1, <1>5, ItemsFinite, SumSubset
<1>11. SumFunctionOnSet(Units(p), Items) \in Int
  BY <1>5, ItemsFinite, SumType
<1>12. stock[p] + 1 * q \in 0 .. MaxInt
  BY <1>1, <1>3, <1>6, <1>7, <1>8, <1>9, <1>10, <1>11
<1> QED
  BY <1>12 DEF Enough, p, q

\* An RPC that fails takes nothing and gives nothing back, and one that gives
\* back fails only for a stock out of its range.
LEMMA RpcAnswered ==
  ASSUME Answered, NobodyLeft, NEW r \in Requests, NEW o, NEW i, NEW d \in {-1, 1}
  PROVE  /\ Succeeds(r, o, i, d) => UNCHANGED <<late, gone>> /\ Applied(o, i, d)
         /\ Fails(r, o, i, d) => UNCHANGED <<late, gone, out>> /\ (d = 1 => ~Enough(o, i, d))
<1>1. /\ ~gone[r] /\ "cancel" \notin Faults /\ "lost" \notin Faults /\ "unclear" \notin Faults
  BY DEF Answered, NobodyLeft
<1> QED
  BY <1>1 DEF Succeeds, Fails

\* What the three kinds of RPC do when everything is answered.
LEMMA AnsweredStep ==
  ASSUME Answered, HandledInv, [Next]_vars
  PROVE  /\ \A o \in Orders : DecreaseStock(o) =>
              /\ UNCHANGED <<late, gone>>
              /\ \/ Applied(o, taken[o] + 1, -1) /\ taken'[o] = taken[o] + 1
                 \/ UNCHANGED out /\ taken'[o] = taken[o]
         /\ \A o \in Orders : Compensate(o) =>
              /\ UNCHANGED <<late, gone>>
              /\ NeverNegative(cart[o][undone[o] + 1].product) => Applied(o, undone[o] + 1, 1)
         /\ \A v \in Visits : RestoreStock(v) =>
              /\ UNCHANGED <<late, gone>>
              /\ NeverNegative(cart[target[v]][restored[v] + 1].product)
                   => Applied(target[v], restored[v] + 1, 1)
<1> USE DEF HandledInv
<1>0. TypeOK /\ VisitsExclusive /\ RequestsProgress /\ StockTracked
  BY DEF IInv
<1>g. \A o \in Orders : ~Ghost(o)
  BY DEF NobodyLeft, NoGhosts, Ghost, Placed
<1>1. ASSUME NEW o \in Orders, DecreaseStock(o)
      PROVE  /\ UNCHANGED <<late, gone>>
             /\ \/ Applied(o, taken[o] + 1, -1) /\ taken'[o] = taken[o] + 1
                \/ UNCHANGED out /\ taken'[o] = taken[o]
  <2> DEFINE i == taken[o] + 1
  <2>1. o \in Requests
    BY DEF Requests
  <2>2. \/ Succeeds(o, o, i, -1) /\ taken' = [taken EXCEPT ![o] = i]
        \/ Fails(o, o, i, -1) /\ taken' = [taken EXCEPT ![o] = taken[o]]
    BY <1>1 DEF DecreaseStock, RecordedAfterError
  <2>3. taken \in [Orders -> Nat] /\ i = taken[o] + 1
    BY <1>0 DEF TypeOK
  <2> HIDE DEF i
  <2>4. /\ Succeeds(o, o, i, -1) => UNCHANGED <<late, gone>> /\ Applied(o, i, -1)
        /\ Fails(o, o, i, -1) => UNCHANGED <<late, gone, out>>
    BY <2>1, RpcAnswered
  <2> QED
    BY <2>2, <2>3, <2>4
<1>2. ASSUME NEW o \in Orders, Compensate(o)
      PROVE  /\ UNCHANGED <<late, gone>>
             /\ NeverNegative(cart[o][undone[o] + 1].product) => Applied(o, undone[o] + 1, 1)
  <2> DEFINE i == undone[o] + 1
  <2>1. i \in 1 .. Len(cart[o]) /\ o \in Requests
    BY <1>0, <1>2, NextItem DEF Requests
  <2>2. Succeeds(o, o, i, 1) \/ Fails(o, o, i, 1)
    BY <1>2 DEF Compensate
  <2>3. out[o][i] = 1
    <3>1. undone[o] < taken[o] /\ phase[o] = "undoing"
      BY <1>0, <1>2 DEF Compensate, TypeOK
    <3> QED
      BY <1>0, <1>g, <3>1, HeldBefore
  <2> HIDE DEF i
  <2>4. NeverNegative(cart[o][i].product) => Enough(o, i, 1)
    BY <2>1, <2>3, RoomToReturn DEF NobodyLeft
  <2>5. UNCHANGED <<late, gone>> /\ (Applied(o, i, 1) \/ ~Enough(o, i, 1))
    BY <2>1, <2>2, RpcAnswered
  <2> QED
    BY <2>4, <2>5 DEF i
<1>3. ASSUME NEW v \in Visits, RestoreStock(v)
      PROVE  /\ UNCHANGED <<late, gone>>
             /\ NeverNegative(cart[target[v]][restored[v] + 1].product)
                  => Applied(target[v], restored[v] + 1, 1)
  <2> DEFINE i == restored[v] + 1
             o == target[v]
  <2>1. o \in Orders /\ i \in 1 .. Len(cart[o]) /\ v \in Requests
    BY <1>0, <1>3, NextItem DEF Requests
  <2>2. Succeeds(v, o, i, 1) \/ Fails(v, o, i, 1)
    BY <1>3 DEF RestoreStock
  <2>3. out[o][i] = 1
    BY <1>0, <1>3, <1>g, <2>1, HeldBefore DEF RestoreStock
  <2> HIDE DEF i, o
  <2>4. NeverNegative(cart[o][i].product) => Enough(o, i, 1)
    BY <2>1, <2>3, RoomToReturn DEF NobodyLeft
  <2>5. UNCHANGED <<late, gone>> /\ (Applied(o, i, 1) \/ ~Enough(o, i, 1))
    BY <2>1, <2>2, RpcAnswered
  <2> QED
    BY <2>4, <2>5 DEF i, o
<1> QED
  BY <1>1, <1>2, <1>3

\* An order keeps the cart it has got, so a product no order asks a negative
\* quantity of was one before.
LEMMA NeverNegativeBefore ==
  ASSUME TypeOK, RequestsProgress, [Next]_vars, NEW p, NeverNegative(p)'
  PROVE  NeverNegative(p)
<1> SUFFICES ASSUME NEW x \in Items, Names(x, p) PROVE cart[x[1]][x[2]].quantity >= 0
  BY DEF NeverNegative
<1>1. x[1] \in Orders /\ x[2] \in 1 .. Len(cart[x[1]])
  BY DEF Items, Names, ItemsOf
<1>2. phase[x[1]] # "new"
  BY <1>1 DEF RequestsProgress, Progress
<1>3. cart'[x[1]] = cart[x[1]]
  BY <1>1, <1>2, RequestStep
<1>4. x \in Items' /\ Names(x, p)'
  BY <1>3 DEF Items, Names, ItemsOf
<1> QED
  BY <1>3, <1>4 DEF NeverNegative

\* No row appears behind its request's back.
LEMMA NoGhostsNext ==
  ASSUME ClearCommits, IInv, NoGhosts, [Next]_vars
  PROVE  NoGhosts'
<1>0. TypeOK /\ VisitsExclusive /\ RequestsProgress /\ OnlyPushedWait
  BY DEF IInv
<1>1. ASSUME NEW o \in Orders PROVE row'[o] # "none" => phase'[o] \in Placed
  <2>1. phase[o] \in Placed => phase'[o] \in Placed
    BY <1>0, RequestStep DEF Placed, Whole
  <2>2. row[o] # "none" => phase'[o] \in Placed
    BY <2>1 DEF NoGhosts
  <2>3. ASSUME row[o] = "none", InsertOrder(o), row'[o] = "pending" PROVE phase'[o] \in Placed
    BY <1>0, <2>3 DEF InsertOrder, ClearCommits, Placed, Whole, TypeOK
  <2>4. ASSUME NEW w \in Workers, worker[w] = o, ProcessOrder(w) PROVE phase'[o] \in Placed
    BY <1>0, <2>1, <2>4 DEF NoGhosts, ProcessOrder, Placed, Whole
  <2> QED
    BY <1>0, <2>2, <2>3, <2>4, RowStep
<1>2. /\ \A i \in 1 .. Len(queue') : phase'[queue'[i]] = "accepted"
      /\ \A w \in Workers : worker'[w] # NoOne => phase'[worker'[w]] = "accepted"
  <2>t. /\ queue \in Seq(Orders) /\ worker \in [Workers -> Orders \cup {NoOne}]
        /\ phase \in [Orders -> Phases]
    BY <1>0 DEF TypeOK
  <2>p. \A o \in Orders : phase[o] = "accepted" => phase'[o] = "accepted"
    BY <1>0, RequestStep DEF Placed, Whole
  <2>w. /\ \A i \in 1 .. Len(queue) : queue[i] \in Orders /\ phase[queue[i]] = "accepted"
        /\ \A w \in Workers : worker[w] # NoOne =>
             worker[w] \in Orders /\ phase[worker[w]] = "accepted"
    BY <1>0, <2>t DEF NoGhosts
  <2>1. ASSUME NEW o \in Orders, Enqueue(o), queue' = Append(queue, o)
        PROVE  /\ \A i \in 1 .. Len(queue') : phase'[queue'[i]] = "accepted"
               /\ \A w \in Workers : worker'[w] # NoOne => phase'[worker'[w]] = "accepted"
    <3>1. phase'[o] = "accepted" /\ worker' = worker
      <4>1. "commit" \notin Faults /\ "again" \notin Faults
        BY DEF ClearCommits
      <4>2. Len(queue') # Len(queue)
        BY <2>1, <2>t
      <4> QED
        BY <2>1, <2>t, <4>1, <4>2 DEF Enqueue
    <3>2. \A i \in 1 .. Len(queue') : (i \in 1 .. Len(queue) /\ queue'[i] = queue[i]) \/ queue'[i] = o
      BY <2>1, <2>t
    <3> QED
      BY <2>p, <2>w, <3>1, <3>2
  <2>2. ASSUME NEW w \in Workers, Dequeue(w)
        PROVE  /\ \A i \in 1 .. Len(queue') : phase'[queue'[i]] = "accepted"
               /\ \A x \in Workers : worker'[x] # NoOne => phase'[worker'[x]] = "accepted"
    <3>1. /\ queue # <<>> /\ queue' = Tail(queue) /\ worker' = [worker EXCEPT ![w] = queue[1]]
      BY <2>2 DEF Dequeue
    <3>2. /\ 1 \in 1 .. Len(queue)
          /\ \A i \in 1 .. Len(queue') : i + 1 \in 1 .. Len(queue) /\ queue'[i] = queue[i + 1]
      BY <2>t, <3>1
    <3>3. \A x \in Workers : worker'[x] = worker[x] \/ worker'[x] = queue[1]
      BY <2>t, <3>1
    <3> QED
      BY <2>p, <2>w, <3>2, <3>3
  <2>3. ASSUME NEW w \in Workers, ProcessOrder(w)
        PROVE  /\ \A i \in 1 .. Len(queue') : phase'[queue'[i]] = "accepted"
               /\ \A x \in Workers : worker'[x] # NoOne => phase'[worker'[x]] = "accepted"
    <3>1. queue' = queue /\ \A x \in Workers : worker'[x] \in {worker[x], NoOne}
      BY <2>t, <2>3 DEF ProcessOrder
    <3> QED
      BY <2>p, <2>w, <3>1
  <2>4. CASE Crash
    <3>1. queue' = queue /\ \A x \in Workers : worker'[x] = NoOne
      BY <2>4 DEF Crash
    <3> QED
      BY <2>p, <2>w, <3>1
  <2>5. CASE queue' = queue /\ worker' = worker
    BY <2>p, <2>w, <2>5
  <2>6. ASSUME NEW o \in Orders, Enqueue(o), queue' # Append(queue, o)
        PROVE  queue' = queue /\ worker' = worker
    BY <2>6 DEF Enqueue
  <2> QED
    BY <1>0, <2>1, <2>2, <2>3, <2>4, <2>5, <2>6, AsyncFrame DEF Work, asyncVars
<1> QED
  BY <1>1, <1>2 DEF NoGhosts

\* Nobody leaves.
LEMMA NobodyLeftNext ==
  ASSUME Answered, HandledInv, [Next]_vars
  PROVE  NobodyLeft'
<1> USE DEF HandledInv
<1>0. /\ TypeOK /\ VisitsExclusive /\ RequestsProgress /\ OnlyPushedWait /\ StockTracked /\ LateOnce
      /\ NobodyLeft
  BY DEF IInv
<1>1. late' = {} /\ \A r \in Requests : ~gone'[r]
  <2>1. late' = late
    BY <1>0, AnsweredStep, StockFrame DEF NobodyLeft
  <2>2. gone' = gone
    <3>1. ASSUME NEW r \in Requests PROVE ~ClientGone(r)
      BY DEF ClientGone, Answered
    <3>2. ASSUME NEW o \in Orders, Place(o) \/ \E items \in Carts : CreateOrder(o, items)
          PROVE  gone' = gone
      BY <3>2, AnsweredStep DEF Place, CreateOrder, PriceItems, ReturnError, InsertOrder, Enqueue
    <3>3. ASSUME NEW v \in Visits,
                 Serve(v) \/ \E o \in Orders : ConfirmOrder(v, o) \/ CancelOrder(v, o)
          PROVE  gone' = gone
      BY <3>3, AnsweredStep DEF Serve, CommitConfirm, CommitCancel, ConfirmOrder, CancelOrder, Begin
    <3>4. ASSUME NEW w \in Workers, Work(w) PROVE gone' = gone
      BY <3>4 DEF Work, Dequeue, ProcessOrder
    <3>5. CASE Crash
      BY <3>5 DEF Crash
    <3>6. CASE UNCHANGED vars
      BY <3>6 DEF vars
    <3> QED
      BY <1>0, <3>1, <3>2, <3>3, <3>4, <3>5, <3>6 DEF Next, NobodyLeft
  <2> QED
    BY <1>0, <2>1, <2>2 DEF NobodyLeft
<1>2. NoGhosts'
  BY <1>0, NoGhostsNext DEF Answered, ClearCommits, NobodyLeft
<1> QED
  BY <1>1, <1>2 DEF NobodyLeft

\* What is given back arrives, and a failed deduction takes nothing.
LEMMA ReturnedIsBackNext ==
  ASSUME Answered, HandledInv, [Next]_vars
  PROVE  ReturnedIsBack'
<1>0. /\ TypeOK /\ VisitsExclusive /\ RequestsProgress /\ OnlyPushedWait /\ StockTracked /\ LateOnce
      /\ NobodyLeft /\ ReturnedIsBack
  BY DEF HandledInv, IInv
<1>1. ASSUME NEW o \in Orders, phase'[o] = "failed" PROVE undone'[o] = taken'[o]
  <2>1. phase[o] = "failed" => undone[o] = taken[o]
    BY <1>0 DEF ReturnedIsBack
  <2>2. phase[o] = "pricing" => undone[o] = taken[o]
    <3>1. undone[o] \in Nat /\ Progress(o)
      BY <1>0 DEF TypeOK, RequestsProgress
    <3> QED
      BY <3>1 DEF Progress
  <2> QED
    BY <1>0, <1>1, <2>1, <2>2, RequestStep DEF Placed, Whole
<1>2. ASSUME NEW o \in Orders, NEW i \in 1 .. MaxItems
      PROVE  /\ i > taken'[o] => out'[o][i] = 0
             /\ (NeverNegative(cart[o][i].product))' =>
                  /\ i <= undone'[o] => out'[o][i] = 0
                  /\ \A v \in Visits : target'[v] = o /\ i <= restored'[v] => out'[o][i] = 0
  <2>g. ~Ghost(o) /\ HeldUnlessReturned(o)
    BY <1>0 DEF NobodyLeft, NoGhosts, StockTracked, Ghost, Placed
  <2>t. /\ taken[o] \in Nat /\ undone[o] \in Nat /\ i \in Nat /\ i > 0
        /\ undone[o] <= taken[o]
        /\ out[o][i] \in {0, 1}
        /\ \A v \in Visits : restored[v] \in Nat
    BY <1>0, <2>g, CartAssumption DEF TypeOK, RequestsProgress, Progress, HeldUnlessReturned
  <2>h. /\ i > taken[o] => out[o][i] = 0
        /\ NeverNegative(cart[o][i].product) =>
             /\ i <= undone[o] => out[o][i] = 0
             /\ \A v \in Visits : target[v] = o /\ i <= restored[v] => out[o][i] = 0
    BY <1>0 DEF ReturnedIsBack
  <2>m. /\ taken'[o] \in {taken[o], taken[o] + 1} /\ undone'[o] \in {undone[o], undone[o] + 1}
        /\ taken'[o] # taken[o] => DecreaseStock(o)
        /\ undone'[o] # undone[o] => Compensate(o)
    BY <1>0, <2>t, RequestStep
  <2>v. \A v \in Visits : target'[v] = o /\ i <= restored'[v] =>
           \/ target[v] = o /\ i <= restored[v]
           \/ RestoreStock(v) /\ target[v] = o /\ i = restored[v] + 1
    <3> SUFFICES ASSUME NEW v \in Visits, target'[v] = o, i <= restored'[v]
                 PROVE  \/ target[v] = o /\ i <= restored[v]
                        \/ RestoreStock(v) /\ target[v] = o /\ i = restored[v] + 1
      OBVIOUS
    <3>1. Visiting(v) /\ restored[v] \in Nat
      BY <1>0 DEF VisitsExclusive, TypeOK
    <3> QED
      BY <1>0, <2>t, <3>1, VisitStep DEF Visiting, Restores
  <2>n. ASSUME (NeverNegative(cart[o][i].product))',
               i <= undone'[o] \/ \E v \in Visits : target'[v] = o /\ i <= restored'[v]
        PROVE  NeverNegative(cart[o][i].product)
    <3>1. Progress(o) /\ \A v \in Visits : Visiting(v)
      BY <1>0 DEF RequestsProgress, VisitsExclusive
    <3>2. ASSUME NEW v \in Visits, target[v] = o PROVE phase[o] # "new"
      BY <3>1, <3>2, NameAssumption DEF Visiting, Progress, Placed, Whole, Stopped
    <3>3. undone'[o] > 0 => phase[o] # "new"
      BY <1>0, <2>t, <3>1, RequestStep DEF Progress
    <3>4. phase[o] # "new"
      BY <2>n, <2>t, <2>m, <2>v, <3>2, <3>3
    <3>5. cart'[o] = cart[o]
      BY <1>0, <3>4, RequestStep
    <3>6. PICK p : p = cart[o][i].product
      OBVIOUS
    <3>7. NeverNegative(p)'
      BY <2>n, <3>5, <3>6 DEF NeverNegative, Names
    <3>8. NeverNegative(p)
      BY <1>0, <3>7, NeverNegativeBefore
    <3> QED
      BY <3>6, <3>8
  <2>1. CASE out'[o][i] = out[o][i]
    <3>1. ASSUME undone'[o] # undone[o], i = undone[o] + 1, NeverNegative(cart[o][i].product)
          PROVE  FALSE
      <4>1. /\ Compensate(o) /\ i \in 1 .. Len(cart[o]) /\ Applied(o, i, 1)
        BY <1>0, <2>m, <3>1, AnsweredStep, NextItem
      <4>2. out'[o][i] = out[o][i] - 1
        BY <1>0, <4>1, AppliedOut
      <4> QED
        BY <2>1, <2>t, <4>2
    <3>2. ASSUME NEW v \in Visits, RestoreStock(v), target[v] = o, i = restored[v] + 1,
                 NeverNegative(cart[o][i].product)
          PROVE  FALSE
      <4>1. i \in 1 .. Len(cart[o]) /\ Applied(o, i, 1)
        BY <1>0, <3>2, AnsweredStep, NextItem
      <4>2. out'[o][i] = out[o][i] - 1
        BY <1>0, <4>1, AppliedOut
      <4> QED
        BY <2>1, <2>t, <4>2
    <3>3. i > taken'[o] => out'[o][i] = 0
      BY <2>1, <2>t, <2>h, <2>m
    <3>4. ASSUME (NeverNegative(cart[o][i].product))', i <= undone'[o] PROVE out'[o][i] = 0
      BY <2>1, <2>t, <2>h, <2>m, <2>n, <3>1, <3>4
    <3>5. ASSUME (NeverNegative(cart[o][i].product))',
                 NEW v \in Visits, target'[v] = o, i <= restored'[v]
          PROVE  out'[o][i] = 0
      BY <2>1, <2>h, <2>v, <2>n, <3>2, <3>5
    <3> QED
      BY <3>3, <3>4, <3>5
  <2>2. CASE /\ DecreaseStock(o) /\ i = taken[o] + 1 /\ out'[o][i] = out[o][i] + 1
             /\ phase[o] = "deducting"
    <3>1. taken'[o] = taken[o] + 1
      <4>1. ~(UNCHANGED out)
        BY <2>2, <2>t
      <4> QED
        BY <2>2, <4>1, AnsweredStep
    <3>2. undone[o] = 0 /\ undone'[o] = 0
      <4>1. undone[o] = 0
        BY <1>0, <2>2, <2>t DEF RequestsProgress, Progress, Stopped
      <4> QED
        BY <1>0, <2>2, <4>1, RequestStep DEF Placed, Whole
    <3>3. \A v \in Visits : target[v] = o => restored[v] = 0 /\ ~RestoreStock(v)
      <4> SUFFICES ASSUME NEW v \in Visits, target[v] = o
                   PROVE  restored[v] = 0 /\ ~RestoreStock(v)
        OBVIOUS
      <4>1. restored[v] = 0
        BY <1>0, <2>g, <2>2, NotRestored DEF Placed, Whole
      <4>2. visit[v] # "restoring"
        BY <1>0, <2>g, <2>2, RestoredOrder DEF Restores, Placed, Whole
      <4> QED
        BY <4>1, <4>2 DEF RestoreStock
    <3> QED
      BY <2>2, <2>t, <2>v, <3>1, <3>2, <3>3
  <2>3. CASE /\ Compensate(o) /\ i = undone[o] + 1 /\ out'[o][i] = out[o][i] - 1
             /\ phase[o] = "undoing" /\ undone'[o] = i /\ i <= taken[o]
    <3>1. out[o][i] = 1
      BY <1>0, <2>3, <2>g, <2>t, HeldBefore
    <3> QED
      BY <2>3, <3>1
  <2>4. ASSUME NEW v \in Visits, RestoreStock(v), target[v] = o, i = restored[v] + 1,
               out'[o][i] = out[o][i] - 1, visit[v] = "restoring"
        PROVE  out'[o][i] = 0
    <3>1. out[o][i] = 1
      BY <1>0, <2>4, <2>g, HeldBefore
    <3> QED
      BY <2>4, <3>1
  <2>5. late = {}
    BY <1>0 DEF NobodyLeft
  <2> QED
    BY <1>0, <2>1, <2>2, <2>3, <2>4, <2>5, OutStep
<1> QED
  BY <1>1, <1>2 DEF ReturnedIsBack

\* The visit that cancelled an order stays known.
LEMMA CancelledByVisitNext ==
  ASSUME Answered, HandledInv, [Next]_vars
  PROVE  CancelledByVisit'
<1>0. /\ TypeOK /\ VisitsExclusive /\ RequestsProgress /\ OnlyPushedWait /\ CancelledByVisit
  BY DEF HandledInv, IInv
<1> SUFFICES ASSUME NEW o \in Orders, row'[o] = "cancelled"
             PROVE  \E v \in Visits :
                      /\ target'[v] = o
                      /\ \/ visit'[v] \in {"restoring", "dead"}
                         \/ visit'[v] = "done" /\ restored'[v] = Len(cart'[o])
  BY DEF CancelledByVisit
<1>1. CASE row[o] = "cancelled"
  <2>1. PICK v \in Visits :
          /\ target[v] = o
          /\ \/ visit[v] \in {"restoring", "dead"}
             \/ visit[v] = "done" /\ restored[v] = Len(cart[o])
    BY <1>0, <1>1 DEF CancelledByVisit
  <2>2. cart'[o] = cart[o]
    BY <1>0, <1>1, CartStays
  <2>3. /\ target'[v] = o
        /\ \/ visit'[v] \in {"restoring", "dead"}
           \/ visit'[v] = "done" /\ restored'[v] = Len(cart'[o])
    <3>1. CASE visit'[v] = visit[v] /\ target'[v] = target[v] /\ restored'[v] = restored[v]
      BY <2>1, <2>2, <3>1
    <3>2. CASE visit'[v] = "dead" /\ target'[v] = target[v]
      BY <2>1, <3>2
    <3>3. CASE /\ target'[v] = target[v] /\ restored'[v] = restored[v] + 1
               /\ visit'[v] = IF restored[v] + 1 = Len(cart[target[v]]) THEN "done" ELSE "restoring"
      BY <2>1, <2>2, <3>3
    <3> QED
      BY <1>0, <2>1, <3>1, <3>2, <3>3, VisitStep
  <2> QED
    BY <2>3
<1>2. CASE row[o] # "cancelled"
  <2>1. PICK v \in Visits : CommitCancel(v) /\ target[v] = o
    BY <1>0, <1>2, RowStep
  <2>2. visit'[v] = "restoring" /\ target'[v] = o
    BY <1>0, <1>2, <2>1 DEF CommitCancel, Answered, AfterCancel, TypeOK
  <2>3. /\ target'[v] = o
        /\ \/ visit'[v] \in {"restoring", "dead"}
           \/ visit'[v] = "done" /\ restored'[v] = Len(cart'[o])
    BY <2>2
  <2> QED
    BY <2>3
<1> QED
  BY <1>1, <1>2

\* The stronger invariant is inductive, and holds in every reachable state.
THEOREM HandledInvariance == ASSUME Answered PROVE Spec => []HandledInv
<1>1. HandledInv /\ [Next]_vars => HandledInv'
  <2> SUFFICES ASSUME HandledInv, [Next]_vars PROVE HandledInv'
    OBVIOUS
  <2>1. IInv /\ UnitsAddUp /\ IInv'
    BY InductiveStep DEF HandledInv
  <2>2. UnitsAddUp'
    BY <2>1, UnitsAddUpNext
  <2> QED
    BY <2>1, <2>2, NobodyLeftNext, ReturnedIsBackNext, CancelledByVisitNext DEF HandledInv
<1> QED
  BY <1>1, InitHandled, PTL DEF Spec

\* A request that failed holds nothing once it has compensated, when every
\* answer arrives and every error means that nothing was done.
THEOREM FailedOrdersHoldNothing == ASSUME Answered PROVE Spec => []FailedOrderHoldsNothing
<1>1. HandledInv => FailedOrderHoldsNothing
  <2> SUFFICES ASSUME HandledInv, NEW o \in Orders, phase[o] = "failed",
                      NEW i \in ItemsOf(o), NeverNegative(cart[o][i].product)
               PROVE  out[o][i] = 0
    BY DEF FailedOrderHoldsNothing
  <2>1. /\ i \in 1 .. MaxItems /\ taken[o] \in Nat /\ undone[o] = taken[o]
    BY ItemType DEF ItemsOf, HandledInv, IInv, TypeOK, ReturnedIsBack
  <2> QED
    BY <2>1, CartAssumption DEF HandledInv, ReturnedIsBack
<1> QED
  BY <1>1, HandledInvariance, PTL

\* A cancelled order holds nothing once its visits are done, under the same
\* conditions.
THEOREM CancelledOrdersHoldNothing == ASSUME Answered PROVE Spec => []CancelledOrderHoldsNothing
<1>1. HandledInv => CancelledOrderHoldsNothing
  <2> SUFFICES ASSUME HandledInv, NEW o \in Orders, row[o] = "cancelled",
                      \A u \in Visits : target[u] = o => visit[u] = "done",
                      NEW i \in ItemsOf(o), NeverNegative(cart[o][i].product)
               PROVE  out[o][i] = 0
    BY DEF CancelledOrderHoldsNothing
  <2>1. PICK v \in Visits : target[v] = o /\ restored[v] = Len(cart[o])
    BY DEF HandledInv, CancelledByVisit
  <2>2. i \in 1 .. MaxItems /\ i <= restored[v]
    BY <2>1, ItemType DEF ItemsOf, HandledInv, IInv
  <2> QED
    BY <2>1, <2>2 DEF HandledInv, ReturnedIsBack
<1> QED
  BY <1>1, HandledInvariance, PTL
-----------------------------------------------------------------------------
(***************************************************************************)
(* With one worker at most, the list and then the worker's hands are the   *)
(* end of the sequence of pushes.                                          *)
(***************************************************************************)
OneWorker == \A w, x \in Workers : w = x

Popped == Len(pushed) - Len(queue)

PushOrder ==
  /\ \A i \in 1 .. Len(pushed) : Awaits(pushed[i])
  /\ Popped >= 0
  /\ \A k \in 1 .. Len(queue) : queue[k] = pushed[Popped + k]
  /\ \A w \in Workers : worker[w] # NoOne => Popped > 0 /\ worker[w] = pushed[Popped]

\* No step changes the order of the pushes or overtakes one.
LEMMA PushOrderNext ==
  ASSUME OneWorker, TypeOK, VisitsExclusive, RequestsProgress, OnlyPushedWait, PushOrder, [Next]_vars
  PROVE  PushOrder'
<1>t. /\ queue \in Seq(Orders) /\ pushed \in Seq(Orders)
      /\ worker \in [Workers -> Orders \cup {NoOne}]
      /\ Len(queue) \in Nat /\ Len(pushed) \in Nat
  BY DEF TypeOK
<1> DEFINE AwaitsNext(o) ==
      o \in Orders /\ mode'[o] = "async" /\ phase'[o] \in Whole \cup Stopped
<1>p. \A o : Awaits(o) => AwaitsNext(o)
  BY AwaitsStays DEF Awaits
<1>i. /\ \A i \in 1 .. Len(pushed) : AwaitsNext(pushed[i])
      /\ Popped >= 0
      /\ \A k \in 1 .. Len(queue) : queue[k] = pushed[Popped + k]
      /\ \A w \in Workers : worker[w] # NoOne => Popped > 0 /\ worker[w] = pushed[Popped]
  BY <1>t, <1>p DEF PushOrder
<1>1. ASSUME NEW o \in Orders, Enqueue(o),
             queue' = Append(queue, o), pushed' = Append(pushed, o)
      PROVE  PushOrder'
  <2>1. worker' = worker /\ AwaitsNext(o)
    <3>1. worker' = worker /\ Awaits(o)
      BY <1>1 DEF Enqueue, Awaits, Whole
    <3> QED
      BY <1>p, <3>1
  <2>2. /\ Len(pushed') = Len(pushed) + 1 /\ pushed'[Len(pushed) + 1] = o
        /\ \A i \in 1 .. Len(pushed) : pushed'[i] = pushed[i]
        /\ Len(queue') = Len(queue) + 1 /\ queue'[Len(queue) + 1] = o
        /\ \A i \in 1 .. Len(queue) : queue'[i] = queue[i]
    BY <1>1, <1>t
  <2>3. \A i \in 1 .. Len(pushed') : i \in 1 .. Len(pushed) \/ i = Len(pushed) + 1
    BY <1>t, <2>2
  <2>4. \A k \in 1 .. Len(queue') : k \in 1 .. Len(queue) \/ k = Len(queue) + 1
    BY <1>t, <2>2
  <2>5. Popped' = Popped /\ Popped \in Int /\ Popped + (Len(queue) + 1) = Len(pushed) + 1
    BY <1>t, <2>2 DEF Popped
  <2>8. \A i \in 1 .. Len(pushed') : AwaitsNext(pushed'[i])
    BY <1>i, <2>1, <2>2, <2>3
  <2>9. \A k \in 1 .. Len(queue') : queue'[k] = pushed'[Popped' + k]
    <3> SUFFICES ASSUME NEW k \in 1 .. Len(queue') PROVE queue'[k] = pushed'[Popped' + k]
      OBVIOUS
    <3>1. CASE k = Len(queue) + 1
      BY <2>2, <2>5, <3>1
    <3>2. CASE k \in 1 .. Len(queue)
      <4>1. Popped + k \in 1 .. Len(pushed)
        BY <1>t, <1>i, <3>2 DEF Popped
      <4> QED
        BY <1>i, <2>2, <2>5, <3>2, <4>1
    <3> QED
      BY <2>4, <3>1, <3>2
  <2>10. \A w \in Workers : worker'[w] # NoOne => Popped' > 0 /\ worker'[w] = pushed'[Popped']
    <3>1. Popped > 0 => Popped \in 1 .. Len(pushed)
      BY <1>t DEF Popped
    <3> QED
      BY <1>i, <2>1, <2>2, <2>5, <3>1
  <2> QED
    BY <1>i, <2>5, <2>8, <2>9, <2>10 DEF PushOrder, Awaits
<1>2. ASSUME NEW w \in Workers, Dequeue(w) PROVE PushOrder'
  <2>1. /\ queue # <<>> /\ queue' = Tail(queue) /\ pushed' = pushed
        /\ worker' = [worker EXCEPT ![w] = queue[1]]
    BY <1>2 DEF Dequeue
  <2>2. /\ 1 \in 1 .. Len(queue) /\ Len(queue') = Len(queue) - 1
        /\ \A k \in 1 .. Len(queue') : k + 1 \in 1 .. Len(queue) /\ queue'[k] = queue[k + 1]
    BY <1>t, <2>1
  <2>3. Popped' = Popped + 1 /\ Popped \in Int
    BY <1>t, <2>1, <2>2 DEF Popped
  <2>4. \A k \in 1 .. Len(queue') : queue'[k] = pushed'[Popped' + k]
    <3> SUFFICES ASSUME NEW k \in 1 .. Len(queue') PROVE queue'[k] = pushed'[Popped' + k]
      OBVIOUS
    <3>1. queue'[k] = pushed[Popped + (k + 1)]
      BY <1>i, <2>2
    <3>2. Popped + (k + 1) = Popped' + k
      BY <2>3
    <3> QED
      BY <2>1, <3>1, <3>2
  <2>5. \A x \in Workers : worker'[x] # NoOne => Popped' > 0 /\ worker'[x] = pushed'[Popped']
    BY <1>t, <1>i, <2>1, <2>2, <2>3 DEF OneWorker
  <2> QED
    BY <1>i, <2>1, <2>3, <2>4, <2>5 DEF PushOrder, Awaits
<1>3. CASE /\ queue' = queue /\ pushed' = pushed
           /\ \A w \in Workers : worker'[w] \in {worker[w], NoOne}
  <2>1. Popped' = Popped
    BY <1>3 DEF Popped
  <2> QED
    BY <1>3, <1>i, <2>1 DEF PushOrder, Awaits
<1>4. ASSUME NEW w \in Workers, ProcessOrder(w)
      PROVE  /\ queue' = queue /\ pushed' = pushed
             /\ \A x \in Workers : worker'[x] \in {worker[x], NoOne}
  BY <1>4, <1>t DEF ProcessOrder
<1>5. ASSUME Crash
      PROVE  /\ queue' = queue /\ pushed' = pushed
             /\ \A x \in Workers : worker'[x] \in {worker[x], NoOne}
  BY <1>5, <1>t DEF Crash
<1>6. ASSUME NEW o \in Orders, Enqueue(o), queue' # Append(queue, o) \/ pushed' # Append(pushed, o)
      PROVE  queue' = queue /\ pushed' = pushed /\ worker' = worker
  BY <1>6 DEF Enqueue
<1> QED
  BY <1>1, <1>2, <1>3, <1>4, <1>5, <1>6, AsyncFrame DEF Work, asyncVars

\* With one worker, rows appear in the order of the pushes.
THEOREM RowsAppearInPushOrder == ASSUME OneWorker PROVE Spec => RowsInPushOrder
<1>1. Init => PushOrder
  BY NameAssumption DEF Init, PushOrder, Popped
<1>2. IInv /\ PushOrder /\ [Next]_vars => PushOrder'
  BY PushOrderNext DEF IInv
<1>3. IInv /\ PushOrder /\ [Next]_vars =>
        [\A i, j \in 1 .. Len(pushed) :
           (PushedBefore(pushed[i], pushed[j])
              /\ row[pushed[j]] = "none" /\ row'[pushed[j]] # "none")
             => pushed[i] \notin Waiting']_vars
  <2> SUFFICES ASSUME IInv, PushOrder, [Next]_vars,
                      NEW i \in 1 .. Len(pushed), NEW j \in 1 .. Len(pushed),
                      PushedBefore(pushed[i], pushed[j]),
                      row[pushed[j]] = "none", row'[pushed[j]] # "none"
               PROVE  pushed[i] \notin Waiting'
    OBVIOUS
  <2>0. /\ TypeOK /\ VisitsExclusive /\ RequestsProgress /\ OnlyPushedWait
        /\ queue \in Seq(Orders) /\ pushed \in Seq(Orders)
        /\ worker \in [Workers -> Orders \cup {NoOne}]
        /\ Len(queue) \in Nat /\ Len(pushed) \in Nat
    <3>1. TypeOK /\ VisitsExclusive /\ RequestsProgress /\ OnlyPushedWait
      BY DEF IInv
    <3>2. /\ queue \in Seq(Orders) /\ pushed \in Seq(Orders)
          /\ worker \in [Workers -> Orders \cup {NoOne}]
      BY <3>1 DEF TypeOK
    <3> QED
      BY <3>1, <3>2
  <2>1. pushed[i] \in Orders /\ pushed[j] \in Orders
    BY <2>0
  <2>2. mode[pushed[j]] = "async"
    BY DEF PushOrder, Awaits
  <2>3. PICK w \in Workers : ProcessOrder(w) /\ worker[w] = pushed[j]
    BY <2>0, <2>1, <2>2, RowStep DEF InsertOrder
  <2>4. queue' = queue /\ worker'[w] = NoOne /\ worker[w] # NoOne
    BY <2>0, <2>3 DEF ProcessOrder
  <2>5. Popped \in 1 .. Len(pushed) /\ pushed[Popped] = pushed[j]
    <3>1. Popped > 0 /\ pushed[Popped] = pushed[j]
      BY <2>3, <2>4 DEF PushOrder
    <3> QED
      BY <2>0, <3>1 DEF Popped
  <2>6. ASSUME NEW k \in 1 .. Len(queue), queue[k] = pushed[i] PROVE FALSE
    <3>1. Popped + k \in 1 .. Len(pushed) /\ ~(Popped + k < Popped)
      BY <2>0, <2>5 DEF Popped
    <3>2. pushed[Popped + k] = pushed[i]
      BY <2>6 DEF PushOrder
    <3>3. Popped + k \in Pushes(pushed[i]) /\ Popped \in Pushes(pushed[j])
      BY <2>5, <3>1, <3>2 DEF Pushes
    <3> QED
      BY <3>1, <3>3 DEF PushedBefore
  <2>7. \A x \in Workers : worker'[x] # pushed[i]
    BY <2>1, <2>4, NameAssumption DEF OneWorker
  <2> QED
    BY <2>4, <2>6, <2>7 DEF Waiting
<1> QED
  BY <1>1, <1>2, <1>3, Invariance, PTL DEF Spec, RowsInPushOrder
-----------------------------------------------------------------------------
\* The live orders, those with a pending or confirmed row, together hold no more
\* than there was of a product that no order has asked a negative quantity of,
\* however many requests, cancellations, late RPCs and crashes there are, if
\* every commit is reported as it went.
THEOREM NothingOversold == ASSUME ClearCommits PROVE Spec => []NoOversell
<1>1. Init => NoGhosts
  BY DEF Init, NoGhosts
<1>2. IInv /\ NoGhosts /\ [Next]_vars => NoGhosts'
  BY NoGhostsNext
<1>3. IInv /\ NoGhosts /\ UnitsAddUp => NoOversell
  <2> SUFFICES ASSUME IInv, NoGhosts, UnitsAddUp, NEW p \in Products, NeverNegative(p)
               PROVE  SumFunction([x \in Promised(p) |-> cart[x[1]][x[2]].quantity])
                        <= InitialStock[p]
    BY DEF NoOversell
  <2> DEFINE S == Promised(p)
             f == [x \in S |-> cart[x[1]][x[2]].quantity]
  <2>1. TypeOK /\ RequestsProgress
    BY DEF IInv
  <2>2. ASSUME NEW x \in Items, Names(x, p)
        PROVE  /\ x[1] \in Orders /\ x[2] \in 1 .. Len(cart[x[1]]) /\ x[2] \in 1 .. MaxItems
               /\ cart[x[1]][x[2]].quantity \in Int
    <3>1. x[1] \in Orders /\ x[2] \in 1 .. Len(cart[x[1]])
      BY <2>2 DEF Items, Names, ItemsOf
    <3> QED
      BY <2>1, <3>1, ItemType
  <2>3. \A x \in Items : Units(p)[x] \in Nat
    BY UnitsPositive
  <2>4. S \in SUBSET Items
    BY DEF Promised
  <2>5. ASSUME NEW x \in S PROVE f[x] = Units(p)[x]
    <3>1. x \in Items /\ Names(x, p) /\ Live(x[1])
      BY DEF Promised
    <3>2. x[1] \in Orders /\ phase[x[1]] \in Whole /\ row[x[1]] # "cancelled"
      BY <2>2, <3>1 DEF NoGhosts, Live, Whole
    <3>3. out[x[1]][x[2]] = 1
      BY <2>2, <3>1, <3>2, PlacedHolds DEF ItemsOf
    <3>4. Units(p)[x] = 1 * cart[x[1]][x[2]].quantity
      BY <3>1, <3>3 DEF Units
    <3> QED
      BY <2>2, <3>1, <3>4
  <2>6. IsFiniteSet(S)
    BY <2>4, ItemsFinite, FS_Subset
  <2>7. SumFunctionOnSet(f, S) = SumFunctionOnSet(Units(p), S)
    <3> HIDE DEF f, S
    <3> QED
      BY <2>5, <2>6, SumAgree
  <2>8. SumFunctionOnSet(Units(p), S) <= SumFunctionOnSet(Units(p), Items)
    <3> HIDE DEF S
    <3> QED
      BY <2>3, <2>4, ItemsFinite, SumSubset
  <2>9. /\ SumFunctionOnSet(Units(p), S) \in Int /\ SumFunctionOnSet(Units(p), Items) \in Int
        /\ stock[p] \in Nat /\ InitialStock[p] \in Nat
    <3>1. \A x \in Items : Units(p)[x] \in Int
      BY <2>3
    <3>2. SumFunctionOnSet(Units(p), Items) \in Int
      BY <3>1, ItemsFinite, SumType
    <3>3. SumFunctionOnSet(Units(p), S) \in Int
      <4> HIDE DEF S
      <4> QED
        BY <2>4, <2>6, <3>1, SumType
    <3> QED
      BY <2>1, <3>2, <3>3, StockAssumption DEF TypeOK
  <2>10. stock[p] + SumFunctionOnSet(Units(p), Items) = InitialStock[p]
    BY DEF UnitsAddUp
  <2>11. SumFunction(f) = SumFunctionOnSet(f, S)
    BY DEF SumFunction
  <2> HIDE DEF f, S
  <2>12. SumFunction(f) <= InitialStock[p]
    BY <2>7, <2>8, <2>9, <2>10, <2>11
  <2> QED
    BY <2>12 DEF f, S
<1> QED
  BY <1>1, <1>2, <1>3, Invariance, UnitsStand, PTL DEF Spec
=============================================================================
