----------------------------- MODULE HotdealStock ----------------------------
(***************************************************************************)
(* One product's stock in its three stores                                 *)
(*   src/services/product/go/internal/repository/hotdeal_repository.go     *)
(*   src/services/product/go/internal/repository/cached_repository.go      *)
(*   src/services/product/go/internal/grpc/server.go (UpdateStock)         *)
(*   src/services/product/go/internal/handler/product.go (hotdeal)         *)
(*                                                                         *)
(* The row of the database is authoritative until StartHotdeal copies the  *)
(* stock to a Redis key; while the key exists, gRPC updates go to it;      *)
(* EndHotdeal deletes the key and writes what was left to the row.  Reads  *)
(* of the product, StartHotdeal's too, pass through a Redis cache with a   *)
(* time to live.  Each Redis command, script and SQL transaction is one    *)
(* step; no step of one request is atomic with its next one.  A command    *)
(* whose reply is lost is sent again by the client library, go-redis with  *)
(* its default options, and may then take effect a second time.  Products  *)
(* share nothing here, so that one is enough.  The update of the row is    *)
(* what Inventory promises: check and write in one transaction.            *)
(***************************************************************************)
EXTENDS Integers, Functions

CONSTANTS Deltas,         \* the amounts of UpdateStock
          Regimes,        \* the circumstances the product runs in, see Regime
          MaxRequests,    \* bound: requests to the product service
          MaxRetries,     \* how often go-redis sends a command again
          Absent          \* a key that does not exist

\* stock: the row's at first; cached: ENABLE_CACHE; faults: may a Redis command
\* or a transaction fail?; orderly: are deals started and ended in turn, with
\* no other request under way?; requests, crashes: bounds.
Regime == [stock: Nat, cached: BOOLEAN, faults: BOOLEAN, orderly: BOOLEAN,
           requests: 0 .. MaxRequests, crashes: Nat]

ASSUME RegimeAssumption == MaxRequests \in Nat /\ Regimes \subseteq Regime
ASSUME RetryAssumption == MaxRetries \in Nat
ASSUME DeltaAssumption == Deltas \subseteq Int
ASSUME AbsentAssumption == Absent \notin Int

VARIABLES
  regime,     \* the circumstances of this behaviour
  row,        \* products.stock
  key,        \* hotdeal:stock:{id}
  cache,      \* the stock in product:{id}
  phase,      \* [Requests -> Phases], what each request does next
  retries,    \* how often its command under way took effect and was sent again
  op,         \* [Requests -> Ops]
  delta,      \* the delta of an update
  seen,       \* the stock a request holds: product.Stock or what it unloaded
  answer,     \* what the request returned
  crashes,
  taken,      \* history: the times a request changed each store
  soldOut     \* history: has a deal ended with nothing left?

requestVars == <<regime, op, delta>>
historyVars == <<taken, soldOut>>
vars == <<row, key, cache, phase, retries, requestVars, seen, answer, crashes, historyVars>>

Requests == 1 .. MaxRequests
Ops == {"none", "update", "get", "start", "end"}
Resting == {"new", "done", "dead"}
Phases == Resting \cup {"route", "redis", "db", "invalidate", "lookup", "fetch", "fill",
                        "load", "unload", "delete", "sync"}
Stores == {"redis", "db"}

Init ==
  /\ regime \in Regimes
  /\ row = regime.stock
  /\ key = Absent
  /\ cache = Absent
  /\ phase = [r \in Requests |-> "new"]
  /\ retries = [r \in Requests |-> 0]
  /\ op = [r \in Requests |-> "none"]
  /\ delta = [r \in Requests |-> 0]
  /\ seen = [r \in Requests |-> 0]
  /\ answer = [r \in Requests |-> "none"]
  /\ crashes = 0
  /\ taken = [r \in Requests |-> [s \in Stores |-> 0]]
  /\ soldOut = FALSE

-----------------------------------------------------------------------------
Go(r, next) ==
  /\ phase' = [phase EXCEPT ![r] = next]
  /\ retries' = [retries EXCEPT ![r] = 0]
Return(r, a) == Go(r, "done") /\ answer' = [answer EXCEPT ![r] = a]

\* The command took effect, its reply is lost, and go-redis sends it again.
\* One that is lost on its way, or only reads, changes nothing by that.
SentAgain(r) ==
  /\ regime.faults
  /\ retries[r] < MaxRetries
  /\ retries' = [retries EXCEPT ![r] = @ + 1]
  /\ UNCHANGED <<phase, answer>>

UnderWay(ops) == \E r \in Requests : phase[r] \notin Resting /\ op[r] \in ops

\* How the load tests run a deal: start it, sell, end it, one after the other.
InTurn(o) ==
  /\ ~UnderWay({"start", "end"})
  /\ o \in {"start", "end"} => ~UnderWay(Ops)
  /\ o = "start" => key = Absent

\* Requests are interchangeable: they begin in the order of their numbers.
Begin(r, o, d) ==
  /\ phase[r] = "new"
  /\ r <= regime.requests
  /\ \A q \in Requests : q < r => phase[q] # "new"
  /\ regime.orderly => InTurn(o)
  /\ op' = [op EXCEPT ![r] = o]
  /\ delta' = [delta EXCEPT ![r] = d]
  /\ Go(r, CASE o = "update" -> "route" [] o = "end" -> "unload" [] OTHER -> "lookup")
  /\ UNCHANGED <<row, key, cache, regime, seen, answer, crashes, historyVars>>

-----------------------------------------------------------------------------
(***************************************************************************)
(* ProductServer.UpdateStock.                                              *)
(***************************************************************************)
\* HasStock: EXISTS; an error reads as "no".
Route(r) ==
  /\ phase[r] = "route"
  /\ \/ key # Absent /\ Go(r, "redis")
     \/ (key = Absent \/ regime.faults) /\ Go(r, "db")
  /\ UNCHANGED <<row, key, cache, requestVars, seen, answer, crashes, historyVars>>

Took(r, s) == taken' = [taken EXCEPT ![r][s] = @ + 1]

\* Slip: an update that Redis failed is tried again on the row.
TryTheRow(r) == Go(r, "db") /\ UNCHANGED answer
RedisFailed(r) == Return(r, "error")

\* The Lua script: -1 without a key, -2 with too little stock.  Sent again it
\* may take the units again, or find too few of them left.
DecrementStock(r) ==
  /\ phase[r] = "redis"
  /\ delta[r] < 0
  /\ \/ /\ key = Absent
        /\ Return(r, "error")
        /\ UNCHANGED <<key, taken>>
     \/ /\ key # Absent /\ key < -delta[r]
        /\ Return(r, "insufficient")
        /\ UNCHANGED <<key, taken>>
     \/ /\ key # Absent /\ key >= -delta[r]
        /\ key' = key + delta[r]
        /\ Took(r, "redis")
        /\ \/ Go(r, "lookup") /\ UNCHANGED answer
           \/ SentAgain(r)
           \/ regime.faults /\ RedisFailed(r)
     \/ regime.faults /\ RedisFailed(r) /\ UNCHANGED <<key, taken>>
  /\ UNCHANGED <<row, cache, requestVars, seen, crashes, soldOut>>

\* INCRBY: a key that is gone by now comes back, holding the delta alone.
\* Sent again it adds the delta again.
IncrementStock(r) ==
  /\ phase[r] = "redis"
  /\ delta[r] >= 0
  /\ \/ /\ key' = IF key = Absent THEN delta[r] ELSE key + delta[r]
        /\ Took(r, "redis")
        /\ \/ Go(r, "lookup") /\ UNCHANGED answer
           \/ SentAgain(r)
           \/ regime.faults /\ RedisFailed(r)
     \/ regime.faults /\ RedisFailed(r) /\ UNCHANGED <<key, taken>>
  /\ UNCHANGED <<row, cache, requestVars, seen, crashes, soldOut>>

\* Slip: the stock is not checked.
NeverShort(r) == FALSE
Short(r) == row + delta[r] < 0

\* stockQueue.UpdateStock: the worker's transaction.  After an error nothing
\* is invalidated, though a commit that reports one may have taken effect.
UpdateStockWithLock(r) ==
  /\ phase[r] = "db"
  /\ \/ /\ Short(r)
        /\ Return(r, "insufficient")
        /\ UNCHANGED <<row, taken>>
     \/ /\ ~Short(r)
        /\ row' = row + delta[r]
        /\ Took(r, "db")
        /\ \/ Go(r, "invalidate") /\ UNCHANGED answer
           \/ regime.faults /\ Return(r, "error")
     \/ regime.faults /\ Return(r, "error") /\ UNCHANGED <<row, taken>>
  /\ UNCHANGED <<key, cache, requestVars, seen, crashes, soldOut>>

\* InvalidateProduct, whose error is ignored.  An update goes on to read the
\* product for its response; the end of a deal returns.
Invalidate(r) ==
  /\ phase[r] = "invalidate"
  /\ \/ /\ cache' = Absent \/ (regime.faults /\ UNCHANGED cache)
        /\ IF op[r] = "end" THEN Return(r, "ok") ELSE Go(r, "lookup") /\ UNCHANGED answer
     \/ cache' = Absent /\ SentAgain(r)
  /\ UNCHANGED <<row, key, requestVars, seen, crashes, historyVars>>

-----------------------------------------------------------------------------
(***************************************************************************)
(* CachedRepository.GetProductByID, for the response of an update, for a   *)
(* reader and for StartHotdeal; its context may end at any of its steps.   *)
(***************************************************************************)
AfterRead(r) == IF op[r] = "start" THEN Go(r, "load") /\ UNCHANGED answer ELSE Return(r, "ok")

Lookup(r) ==
  /\ phase[r] = "lookup"
  /\ \/ /\ regime.cached /\ cache # Absent
        /\ seen' = [seen EXCEPT ![r] = cache]
        /\ AfterRead(r)
     \/ /\ ~regime.cached \/ cache = Absent \/ regime.faults
        /\ Go(r, "fetch")
        /\ UNCHANGED <<seen, answer>>
  /\ UNCHANGED <<row, key, cache, requestVars, crashes, historyVars>>

Fetch(r) ==
  /\ phase[r] = "fetch"
  /\ \/ /\ seen' = [seen EXCEPT ![r] = row]
        /\ IF regime.cached THEN Go(r, "fill") /\ UNCHANGED answer ELSE AfterRead(r)
     \/ Return(r, "error") /\ UNCHANGED seen
  /\ UNCHANGED <<row, key, cache, requestVars, crashes, historyVars>>

Fill(r) ==
  /\ phase[r] = "fill"
  /\ \/ (cache' = seen[r] \/ (regime.faults /\ UNCHANGED cache)) /\ AfterRead(r)
     \/ cache' = seen[r] /\ SentAgain(r)
  /\ UNCHANGED <<row, key, requestVars, seen, crashes, historyVars>>

\* Slip: the entry is stored without a time to live.
NeverExpire == FALSE /\ UNCHANGED vars

\* The time to live of the entry passes.
Expire ==
  /\ cache # Absent
  /\ cache' = Absent
  /\ UNCHANGED <<row, key, phase, retries, requestVars, seen, answer, crashes, historyVars>>

-----------------------------------------------------------------------------
(***************************************************************************)
(* StartHotdeal and EndHotdeal.                                            *)
(***************************************************************************)
LoadStock(r) ==
  /\ phase[r] = "load"
  /\ \/ key' = seen[r] /\ Return(r, "ok")
     \/ key' = seen[r] /\ SentAgain(r)
     \/ regime.faults /\ Return(r, "error") /\ (key' = seen[r] \/ UNCHANGED key)
  /\ UNCHANGED <<row, cache, requestVars, seen, crashes, historyVars>>

\* UnloadStock's GET: without a key there is nothing to end.
UnloadStock(r) ==
  /\ phase[r] = "unload"
  /\ \/ /\ key = Absent
        /\ Return(r, "ok")
        /\ UNCHANGED seen
     \/ /\ key # Absent
        /\ seen' = [seen EXCEPT ![r] = key]
        /\ Go(r, "delete")
        /\ UNCHANGED answer
     \/ regime.faults /\ Return(r, "error") /\ UNCHANGED seen
  /\ UNCHANGED <<row, key, cache, requestVars, crashes, historyVars>>

\* Slip: the last unit is not worth writing.
ManyLeft(r) == seen[r] > 1
SomeLeft(r) == seen[r] > 0

\* UnloadStock's DEL; only a positive remainder is written to the row.
DeleteKey(r) ==
  /\ phase[r] = "delete"
  /\ \/ /\ key' = Absent
        /\ soldOut' = (soldOut \/ seen[r] = 0)
        /\ IF SomeLeft(r) THEN Go(r, "sync") /\ UNCHANGED answer ELSE Return(r, "ok")
     \/ key' = Absent /\ SentAgain(r) /\ UNCHANGED soldOut
     \/ /\ regime.faults
        /\ Return(r, "error")
        /\ key' = Absent \/ UNCHANGED key
        /\ UNCHANGED soldOut
  /\ UNCHANGED <<row, cache, requestVars, seen, crashes, taken>>

\* repo.UpdateStock: an absolute value, without a look at the row.
SyncStock(r) ==
  /\ phase[r] = "sync"
  /\ \/ row' = seen[r] /\ Go(r, "invalidate") /\ UNCHANGED answer
     \/ regime.faults /\ Return(r, "error") /\ (row' = seen[r] \/ UNCHANGED row)
  /\ UNCHANGED <<key, cache, requestVars, seen, crashes, historyVars>>

-----------------------------------------------------------------------------
\* The product service dies: its requests are gone, every store stays.
Crash ==
  /\ crashes < regime.crashes
  /\ crashes' = crashes + 1
  /\ phase' = [r \in Requests |-> IF phase[r] \in Resting THEN phase[r] ELSE "dead"]
  /\ retries' = [r \in Requests |-> 0]
  /\ UNCHANGED <<row, key, cache, requestVars, seen, answer, historyVars>>

UpdateStock(r) ==
  \/ Route(r)
  \/ DecrementStock(r)
  \/ IncrementStock(r)
  \/ UpdateStockWithLock(r)
  \/ Invalidate(r)

GetProductByID(r) == Lookup(r) \/ Fetch(r) \/ Fill(r)

StartHotdeal(r) == LoadStock(r)
EndHotdeal(r) == UnloadStock(r) \/ DeleteKey(r) \/ SyncStock(r)

Serve(r) == UpdateStock(r) \/ GetProductByID(r) \/ StartHotdeal(r) \/ EndHotdeal(r)

Next ==
  \/ \E r \in Requests :
       \/ \E d \in Deltas : Begin(r, "update", d)
       \/ \E o \in {"get", "start", "end"} : Begin(r, o, 0)
       \/ Serve(r)
  \/ Expire
  \/ Crash

Spec == Init /\ [][Next]_vars

\* A request under way goes on and an entry outlives no time to live.
FairSpec == Spec /\ (\A r \in Requests : WF_vars(Serve(r))) /\ WF_vars(Expire)

-----------------------------------------------------------------------------
(* Properties *)

\* Every variable keeps to its type; no store ever goes below zero, though
\* three kinds of request write them without a common lock.
TypeOK ==
  /\ regime \in Regimes
  /\ row \in Nat
  /\ {key, cache} \subseteq Nat \cup {Absent}
  /\ phase \in [Requests -> Phases]
  /\ retries \in [Requests -> 0 .. MaxRetries]
  /\ op \in [Requests -> Ops]
  /\ delta \in [Requests -> Deltas \cup {0}]
  /\ seen \in [Requests -> Nat]
  /\ answer \in [Requests -> {"none", "ok", "insufficient", "error"}]
  /\ crashes \in 0 .. regime.crashes
  /\ taken \in [Requests -> [Stores -> 0 .. MaxRetries + 1]]
  /\ soldOut \in BOOLEAN

\* An update charges one of the two stores, never both, however the deal
\* comes and goes under it: the row once, and the key once unless its command
\* was sent again.  "ok" means that a store was charged; "insufficient" that
\* none was, unless an attempt before the last one was.
UpdateChargesOneStore ==
  \A r \in Requests :
    LET again == IF regime.faults THEN MaxRetries ELSE 0 IN
    /\ taken[r]["redis"] = 0 \/ taken[r]["db"] = 0
    /\ taken[r]["db"] <= 1 /\ taken[r]["redis"] <= 1 + again
    /\ answer[r] = "ok" /\ op[r] = "update" => taken[r]["redis"] + taken[r]["db"] >= 1
    /\ answer[r] = "insufficient" => taken[r]["db"] = 0 /\ taken[r]["redis"] <= again

\* The units the updates took and gave back, over both stores.
Charges == [r \in Requests |-> -delta[r] * (taken[r]["redis"] + taken[r]["db"])]
NetTaken == SumFunction(Charges)
Available == IF key = Absent THEN row ELSE key
StocksAddUp == ~UnderWay(Ops) => Available + NetTaken = regime.stock

\* Across deals started and ended in turn with nothing else under way, no unit
\* is lost or sold twice in the move between the two stores, as long as no
\* deal ended sold out; without a cache, from which a start may take a stale
\* stock, and as long as nothing fails or dies.
StocksAddUpUnlessSoldOut ==
  (regime.orderly /\ ~regime.cached /\ ~regime.faults /\ crashes = 0 /\ ~soldOut) => StocksAddUp

\* The cache catches up: once requests stop, it shows the row's stock or
\* nothing, whatever stale value a slow reader put back.
CacheCatchesUp == <>[](cache \in {row, Absent})
=============================================================================
