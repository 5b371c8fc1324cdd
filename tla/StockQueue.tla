------------------------------ MODULE StockQueue -----------------------------
(***************************************************************************)
(* The database stock path of the product service                          *)
(*   src/services/product/go/internal/queue/stock_queue.go                 *)
(*   src/services/product/go/internal/repository/db_repository.go          *)
(*   src/services/product/go/internal/handler/product.go (PATCH stock)     *)
(*                                                                         *)
(* A gRPC handler puts its request into the buffered channel of its        *)
(* instance and waits for the answer or for the end of its context.  The   *)
(* instance's single worker takes the requests one by one and runs each in *)
(* a transaction that locks the row, checks the stock, writes it, commits. *)
(* The HTTP handler goes around the queue: it reads the stock and writes   *)
(* an absolute value back, in two transactions of one statement each.      *)
(* The Redis cache in front of the repository is not part of this module:  *)
(* it decides nothing here, as neither path reads it.                      *)
(***************************************************************************)
EXTENDS Integers, Sequences, FiniteSets, Functions

CONSTANTS Callers,        \* goroutines in StockQueue.UpdateStock
          Patchers,       \* goroutines in ProductHandler.UpdateStock
          Products, Servers,
          Deltas,         \* the amounts callers and patchers ask for
          BufferSize,     \* capacity of the channel (10000 in server.go)
          MaxInt,         \* largest int32
          InitialStock,
          DbFaults,       \* may a statement or a commit fail?
          MaxCrashes,     \* bound: crashes of instances in a behaviour
          NoRequest, NoOne

(***************************************************************************)
(* The channel is buffered; the column fits an int32 and is never negative *)
(* (CHECK (stock >= 0)).                                                   *)
(***************************************************************************)
ASSUME BufferAssumption == BufferSize \in Nat \ {0}
ASSUME MaxIntAssumption == MaxInt \in Nat
ASSUME StockAssumption == InitialStock \in [Products -> 0 .. MaxInt]
ASSUME DeltaAssumption == Deltas \subseteq -MaxInt - 1 .. MaxInt
ASSUME NoOneAssumption == NoOne \notin Servers \cup Callers
ASSUME NoRequestAssumption ==
  NoRequest \notin [product: Products, delta: -MaxInt - 1 .. MaxInt, at: Servers]
ASSUME PatcherAssumption == Callers \cap Patchers = {} /\ IsFiniteSet(Callers)
ASSUME FaultAssumption == DbFaults \in BOOLEAN /\ MaxCrashes \in Nat

VARIABLES
  stock,      \* [Products -> 0..MaxInt], the committed column
  lock,       \* [Products -> Servers \cup {NoOne}], the row lock
  requests,   \* [Servers -> Seq(Callers)], the channel of each instance
  worker,     \* [Servers -> worker state], the worker goroutine
  job,        \* the request the worker holds, by its caller
  read,       \* current.Stock of the worker's transaction
  outcome,    \* what the worker will send to the response channel
  caller,     \* [Callers -> caller state]
  request,    \* the StockUpdateRequest of each caller
  ctxDone,    \* has the caller's context ended?
  response,   \* the caller's response channel, of capacity one
  answer,     \* what UpdateStock returned to the caller
  patch,      \* [Patchers -> PatchStates], the HTTP handlers
  held,       \* the row and the stock a handler read, and what it will write
  crashes,    \* crashes so far, bounded by MaxCrashes
  verdict,    \* history: what became of each request
  entered,    \* history: the callers that entered each channel, in order
  log         \* history: the committed writes of each row, in order

inventory == INSTANCE Inventory
  WITH stock <- stock, request <- request, verdict <- verdict, answer <- answer

Int32Add(a, b) == inventory!Int32Add(a, b)

channelVars == <<requests, entered>>
workerVars == <<worker, job, read, outcome>>
callerVars == <<caller, request, ctxDone, answer>>
patchVars == <<patch, held>>
rowVars == <<stock, lock, log>>
vars == <<rowVars, channelVars, workerVars, callerVars, response, verdict, patchVars, crashes>>

Write == [by: Callers \cup Patchers, read: 0 .. MaxInt, wrote: 0 .. MaxInt]
WorkerStates == {"idle", "begin", "locked", "written", "reply", "down"}
CallerStates == {"new", "enqueueing", "waiting", "done"}
PatchStates == {"new", "writing", "done"}
Outcomes == {"none", "ok", "insufficient", "error"}
Holding == [product: Products \cup {NoOne}, read: 0 .. MaxInt, wrote: 0 .. MaxInt]

(***************************************************************************)
(* NewStockQueue: an empty channel, a worker waiting on it.                *)
(***************************************************************************)
Init ==
  /\ stock = InitialStock
  /\ lock = [p \in Products |-> NoOne]
  /\ log = [p \in Products |-> <<>>]
  /\ requests = [s \in Servers |-> <<>>]
  /\ entered = [s \in Servers |-> <<>>]
  /\ worker = [s \in Servers |-> "idle"]
  /\ job = [s \in Servers |-> NoOne]
  /\ read = [s \in Servers |-> 0]
  /\ outcome = [s \in Servers |-> "none"]
  /\ caller = [c \in Callers |-> "new"]
  /\ request = [c \in Callers |-> NoRequest]
  /\ ctxDone = [c \in Callers |-> FALSE]
  /\ response = [c \in Callers |-> "none"]
  /\ answer = [c \in Callers |-> "none"]
  /\ verdict = [c \in Callers |-> "open"]
  /\ patch = [h \in Patchers |-> "new"]
  /\ held = [h \in Patchers |-> [product |-> NoOne, read |-> 0, wrote |-> 0]]
  /\ crashes = 0

-----------------------------------------------------------------------------
(***************************************************************************)
(* The caller: StockQueue.UpdateStock.                                     *)
(***************************************************************************)
Call(c, s, p, d) ==
  /\ caller[c] = "new"
  /\ worker[s] # "down"
  /\ caller' = [caller EXCEPT ![c] = "enqueueing"]
  /\ request' = [request EXCEPT ![c] = [product |-> p, delta |-> d, at |-> s]]
  /\ UNCHANGED <<rowVars, channelVars, workerVars, ctxDone, answer, response, verdict, patchVars, crashes>>

(***************************************************************************)
(* A select whose cases are both ready takes either: a request may enter   *)
(* the channel after its context ended.                                    *)
(***************************************************************************)
Enqueue(c) ==
  LET s == request[c].at IN
  /\ caller[c] = "enqueueing"
  /\ Len(requests[s]) < BufferSize
  /\ requests' = [requests EXCEPT ![s] = Append(@, c)]
  /\ entered' = [entered EXCEPT ![s] = Append(@, c)]
  /\ caller' = [caller EXCEPT ![c] = "waiting"]
  /\ UNCHANGED <<rowVars, workerVars, request, ctxDone, answer, response, verdict, patchVars, crashes>>

\* The client's deadline passes, or the client goes away.
EndContext(c) ==
  /\ caller[c] \in {"enqueueing", "waiting"}
  /\ ~ctxDone[c]
  /\ ctxDone' = [ctxDone EXCEPT ![c] = TRUE]
  /\ UNCHANGED <<rowVars, channelVars, workerVars, caller, request, answer, response, verdict, patchVars, crashes>>

Return(c, a) ==
  /\ caller' = [caller EXCEPT ![c] = "done"]
  /\ answer' = [answer EXCEPT ![c] = a]
  /\ UNCHANGED <<rowVars, channelVars, workerVars, request, ctxDone, response, verdict, patchVars, crashes>>

\* Slip: the two cancellations are reported alike.
GiveUpAnywhere(c) ==
  /\ caller[c] \in {"enqueueing", "waiting"}
  /\ ctxDone[c]
  /\ Return(c, "not_queued")

\* "context cancelled while enqueueing"
GiveUpEnqueue(c) ==
  /\ caller[c] = "enqueueing"
  /\ ctxDone[c]
  /\ Return(c, "not_queued")

\* "context cancelled while waiting for response": the request stays queued.
GiveUpWait(c) ==
  /\ caller[c] = "waiting"
  /\ ctxDone[c]
  /\ Return(c, "cancelled")

Receive(c) ==
  /\ caller[c] = "waiting"
  /\ response[c] # "none"
  /\ Return(c, response[c])

-----------------------------------------------------------------------------
(***************************************************************************)
(* The worker and DBRepository.UpdateStockWithLock, statement by           *)
(* statement.  It runs under context.Background(): nothing cuts it short.  *)
(***************************************************************************)
Target(s) == request[job[s]].product

\* Slip: the sign of the delta is lost on the way.
NewStockNegated(s) == Int32Add(read[s], -request[job[s]].delta)
NewStock(s) == Int32Add(read[s], request[job[s]].delta)

\* Slips: the last unit cannot be sold; nothing is checked.
ShortAtZero(s) == NewStock(s) <= 0
NeverShort(s) == FALSE
Short(s) == NewStock(s) < 0

\* Slip: the SELECT has no FOR UPDATE.
NoRowLock(p) == TRUE
RowFree(p) == lock[p] = NoOne

\* Slip: the newest request is served first.
TakeNewest(s) ==
  /\ worker[s] = "idle"
  /\ requests[s] # <<>>
  /\ worker' = [worker EXCEPT ![s] = "begin"]
  /\ job' = [job EXCEPT ![s] = requests[s][Len(requests[s])]]
  /\ requests' = [requests EXCEPT ![s] = SubSeq(@, 1, Len(@) - 1)]
  /\ UNCHANGED <<rowVars, entered, read, outcome, callerVars, response, verdict, patchVars, crashes>>

Take(s) ==
  /\ worker[s] = "idle"
  /\ requests[s] # <<>>
  /\ worker' = [worker EXCEPT ![s] = "begin"]
  /\ job' = [job EXCEPT ![s] = Head(requests[s])]
  /\ requests' = [requests EXCEPT ![s] = Tail(@)]
  /\ UNCHANGED <<rowVars, entered, read, outcome, callerVars, response, verdict, patchVars, crashes>>

\* SELECT stock ... FOR UPDATE waits for the row lock and keeps it.
LockRow(s) ==
  /\ worker[s] = "begin"
  /\ RowFree(Target(s))
  /\ lock' = [lock EXCEPT ![Target(s)] = s]
  /\ read' = [read EXCEPT ![s] = stock[Target(s)]]
  /\ worker' = [worker EXCEPT ![s] = "locked"]
  /\ UNCHANGED <<stock, log, channelVars, job, outcome, callerVars, response, verdict, patchVars, crashes>>

\* Slip: no deferred rollback.
UnlockForgotten(s) == lock
\* The row locks of instance s are released, by its commit or rollback.
Unlock(s) == [p \in Products |-> IF lock[p] = s THEN NoOne ELSE lock[p]]

Finish(s, o) ==
  /\ outcome' = [outcome EXCEPT ![s] = o]
  /\ worker' = [worker EXCEPT ![s] = "reply"]
  /\ lock' = Unlock(s)
  /\ UNCHANGED <<channelVars, job, read, callerVars, response, patchVars, crashes>>

\* newStock < 0: the transaction is rolled back.
Insufficient(s) ==
  /\ worker[s] = "locked"
  /\ Short(s)
  /\ verdict' = [verdict EXCEPT ![job[s]] = "refused"]
  /\ Finish(s, "insufficient")
  /\ UNCHANGED <<stock, log>>

\* UPDATE inside the transaction: nobody sees it before the commit.
WriteRow(s) ==
  /\ worker[s] = "locked"
  /\ ~Short(s)
  /\ worker' = [worker EXCEPT ![s] = "written"]
  /\ UNCHANGED <<rowVars, channelVars, job, read, outcome, callerVars, response, verdict, patchVars, crashes>>

\* The transaction is durable; the worker sees it succeed or, with a
\* connection lost at the wrong moment, sees an error all the same.
Commit(s) ==
  /\ worker[s] = "written"
  /\ stock' = [stock EXCEPT ![Target(s)] = NewStock(s)]
  /\ log' = [log EXCEPT ![Target(s)] =
       Append(@, [by |-> job[s], read |-> read[s], wrote |-> NewStock(s)])]
  /\ verdict' = [verdict EXCEPT ![job[s]] = "applied"]
  /\ \/ Finish(s, "ok")
     \/ DbFaults /\ Finish(s, "error")

\* Begin, a statement or the commit fails; nothing of the transaction stays.
DbError(s) ==
  /\ DbFaults
  /\ worker[s] \in {"begin", "locked", "written"}
  /\ Finish(s, "error")
  /\ UNCHANGED <<stock, log, verdict>>

\* Slip: only a success is sent back.
ReplyOnSuccess(s) ==
  /\ worker[s] = "reply"
  /\ response' = [response EXCEPT ![job[s]] = IF outcome[s] = "ok" THEN "ok" ELSE @]
  /\ worker' = [worker EXCEPT ![s] = "idle"]
  /\ job' = [job EXCEPT ![s] = NoOne]
  /\ outcome' = [outcome EXCEPT ![s] = "none"]
  /\ UNCHANGED <<rowVars, channelVars, read, callerVars, verdict, patchVars, crashes>>

\* req.Response <- ...: the channel has room for the one answer it gets.
Reply(s) ==
  /\ worker[s] = "reply"
  /\ response' = [response EXCEPT ![job[s]] = outcome[s]]
  /\ worker' = [worker EXCEPT ![s] = "idle"]
  /\ job' = [job EXCEPT ![s] = NoOne]
  /\ outcome' = [outcome EXCEPT ![s] = "none"]
  /\ UNCHANGED <<rowVars, channelVars, read, callerVars, verdict, patchVars, crashes>>

-----------------------------------------------------------------------------
(***************************************************************************)
(* ProductHandler.UpdateStock: GetStockForUpdate, then UpdateStock, both   *)
(* on the pool: each is a transaction of its own and the row lock of the   *)
(* first is gone when it returns.                                          *)
(***************************************************************************)
PatchRead(h, p, d) ==
  LET new == Int32Add(stock[p], d) IN
  /\ patch[h] = "new"
  /\ RowFree(p)
  /\ \/ /\ new < 0
        /\ patch' = [patch EXCEPT ![h] = "done"]
        /\ held' = held
     \/ /\ new >= 0
        /\ patch' = [patch EXCEPT ![h] = "writing"]
        /\ held' = [held EXCEPT ![h] = [product |-> p, read |-> stock[p], wrote |-> new]]
  /\ UNCHANGED <<rowVars, channelVars, workerVars, callerVars, response, verdict, crashes>>

PatchWrite(h) ==
  LET p == held[h].product IN
  /\ patch[h] = "writing"
  /\ RowFree(p)
  /\ stock' = [stock EXCEPT ![p] = held[h].wrote]
  /\ log' = [log EXCEPT ![p] =
       Append(@, [by |-> h, read |-> held[h].read, wrote |-> held[h].wrote])]
  /\ patch' = [patch EXCEPT ![h] = "done"]
  /\ UNCHANGED <<lock, held, channelVars, workerVars, callerVars, response, verdict, crashes>>

-----------------------------------------------------------------------------
(***************************************************************************)
(* An instance dies: its channel and worker are gone, the database rolls   *)
(* its open transaction back, its callers lose their connection.  A death  *)
(* between a durable commit and the answer is Commit followed by Crash.    *)
(***************************************************************************)
ServedBy(s) == {c \in Callers : caller[c] \in {"enqueueing", "waiting"} /\ request[c].at = s}

Crash(s) ==
  /\ worker[s] # "down"
  /\ crashes < MaxCrashes
  /\ crashes' = crashes + 1
  /\ requests' = [requests EXCEPT ![s] = <<>>]
  /\ worker' = [worker EXCEPT ![s] = "down"]
  /\ job' = [job EXCEPT ![s] = NoOne]
  /\ outcome' = [outcome EXCEPT ![s] = "none"]
  /\ lock' = Unlock(s)
  /\ caller' = [c \in Callers |-> IF c \in ServedBy(s) THEN "done" ELSE caller[c]]
  /\ answer' = [c \in Callers |-> IF c \in ServedBy(s) THEN "error" ELSE answer[c]]
  /\ UNCHANGED <<stock, log, entered, read, request, ctxDone, response, verdict, patchVars>>

Restart(s) ==
  /\ worker[s] = "down"
  /\ worker' = [worker EXCEPT ![s] = "idle"]
  /\ UNCHANGED <<rowVars, channelVars, job, read, outcome, callerVars, response, verdict, patchVars, crashes>>

-----------------------------------------------------------------------------
UpdateStock(c) ==
  \/ \E s \in Servers, p \in Products, d \in Deltas : Call(c, s, p, d)
  \/ Enqueue(c)
  \/ EndContext(c)
  \/ GiveUpEnqueue(c)
  \/ GiveUpWait(c)
  \/ Receive(c)

Work(s) ==
  \/ Take(s)
  \/ LockRow(s)
  \/ Insufficient(s)
  \/ WriteRow(s)
  \/ Commit(s)
  \/ DbError(s)
  \/ Reply(s)

Patch(h) ==
  \/ \E p \in Products, d \in Deltas : PatchRead(h, p, d)
  \/ PatchWrite(h)

Next ==
  \/ \E c \in Callers : UpdateStock(c)
  \/ \E s \in Servers : Work(s) \/ Crash(s) \/ Restart(s)
  \/ \E h \in Patchers : Patch(h)

Spec == Init /\ [][Next]_vars

(***************************************************************************)
(* A runnable goroutine is run and a statement returns; no one is obliged  *)
(* to call, to cancel, to crash or to restart.  A sender blocked on a full *)
(* channel stands in Go's queue of senders, and Callers is finite, so weak *)
(* fairness is enough.                                                     *)
(***************************************************************************)
Fairness ==
  /\ \A c \in Callers : WF_vars(Enqueue(c)) /\ WF_vars(GiveUpEnqueue(c) \/ GiveUpWait(c) \/ Receive(c))
  /\ \A s \in Servers : WF_vars(Work(s))

FairSpec == Spec /\ Fairness

-----------------------------------------------------------------------------
(* Properties *)

TypeRows ==
  /\ stock \in [Products -> 0 .. MaxInt]
  /\ lock \in [Products -> Servers \cup {NoOne}]
  /\ log \in [Products -> Seq(Write)]

TypeChannels ==
  /\ requests \in [Servers -> Seq(Callers)]
  /\ entered \in [Servers -> Seq(Callers)]

TypeWorkers ==
  /\ worker \in [Servers -> WorkerStates]
  /\ job \in [Servers -> Callers \cup {NoOne}]
  /\ read \in [Servers -> 0 .. MaxInt]
  /\ outcome \in [Servers -> Outcomes]

TypeCallers ==
  /\ caller \in [Callers -> CallerStates]
  /\ request \in [Callers -> inventory!Request \cup {NoRequest}]
  /\ ctxDone \in [Callers -> BOOLEAN]
  /\ answer \in [Callers -> inventory!Answers]

TypeAnswers ==
  /\ response \in [Callers -> Outcomes]
  /\ verdict \in [Callers -> inventory!Verdicts]

TypePatches ==
  /\ patch \in [Patchers -> PatchStates]
  /\ held \in [Patchers -> Holding]

\* Every variable keeps to its type: the column stays within 0 .. MaxInt, as
\* its CHECK and its width ask, though the int32 sum may wrap.
TypeOK ==
  /\ TypeRows
  /\ TypeChannels
  /\ TypeWorkers
  /\ TypeCallers
  /\ TypeAnswers
  /\ TypePatches
  /\ crashes \in 0 .. MaxCrashes

\* The queue loses no update: each write a worker commits was computed from
\* what the write before it left, even with HTTP handlers writing around the
\* queue, and the column holds what the last write wrote.  This is what the
\* row lock kept from SELECT FOR UPDATE to COMMIT is for.
Before(p, i) == IF i = 1 THEN InitialStock[p] ELSE log[p][i - 1].wrote
SerialUpdates ==
  \A p \in Products :
    /\ \A i \in 1 .. Len(log[p]) :
         log[p][i].by \in Callers => log[p][i].read = Before(p, i)
    /\ stock[p] = Before(p, Len(log[p]) + 1)

\* Seen from the callers: the column is the initial stock plus the amounts of
\* exactly the requests that were applied.
AppliedTo(p) == {c \in Callers : verdict[c] = "applied" /\ request[c].product = p}
StockAddsUp ==
  \A p \in Products :
    stock[p] = InitialStock[p] + SumFunction([c \in AppliedTo(p) |-> request[c].delta])

\* Oversell: no more units leave a product than it had or was given.
NoOversell ==
  \A p \in Products :
    InitialStock[p] + SumFunction([i \in 1 .. Len(log[p]) |-> log[p][i].wrote - log[p][i].read]) >= 0

\* The queue's FIFO promise, end to end: two requests that entered the same
\* instance's channel are committed to a row in the order they entered,
\* whatever timeouts, refusals and crashes lie between.
CommitsInEntryOrder ==
  \A p \in Products, s \in Servers :
    \A i, j \in 1 .. Len(log[p]) : \A m, n \in 1 .. Len(entered[s]) :
      (i < j /\ log[p][i].by = entered[s][m] /\ log[p][j].by = entered[s][n]) => m < n

\* What a caller is told is true and stays true: "ok" means its write is
\* committed, once; "insufficient" and "cancelled while enqueueing" mean it
\* never was, though the select may have both cases ready.
Writes(c) == UNION {{<<p, i>> : i \in {k \in 1 .. Len(log[p]) : log[p][k].by = c}} : p \in Products}
AnswersTrue ==
  \A c \in Callers :
    /\ answer[c] = "ok" => Writes(c) # {}
    /\ answer[c] \in {"insufficient", "not_queued"} => Writes(c) = {}
    /\ \A v, w \in Writes(c) : v = w

\* The row lock is held by a live worker in the middle of its transaction,
\* and such a worker holds the lock of its row: no path out of
\* UpdateStockWithLock leaves a lock behind.
LocksOwned ==
  \A p \in Products, s \in Servers :
    lock[p] = s <=> (worker[s] \in {"locked", "written"} /\ Target(s) = p)

\* Through all of the above, the path does what Inventory promises.
ImplementsInventory == inventory!Spec

\* Every caller is answered, whether or not its context ends.
EveryCallerAnswered ==
  \A c \in Callers : caller[c] = "enqueueing" ~> caller[c] = "done"

\* A request that entered the channel is decided even if its caller gave up
\* waiting, unless the database failed it or its instance died.
EnteredIsDecided ==
  \A c \in Callers :
    caller[c] = "waiting" ~> (verdict[c] # "open" \/ response[c] = "error" \/ crashes > 0)
=============================================================================
