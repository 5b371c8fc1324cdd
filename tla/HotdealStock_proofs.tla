------------------------- MODULE HotdealStock_proofs -------------------------
(***************************************************************************)
(* Theorems about HotdealStock, for every set of deltas, every number of   *)
(* requests and every circumstance: any initial stock, with or without     *)
(* cache, faults, crashes, and deals started and ended at any time.        *)
(***************************************************************************)
EXTENDS HotdealStock, Sums_proofs

\* An update in one of these phases has not changed a store yet.
Before == {"new", "route", "db"}
\* An update in one of these phases has changed one.
After == {"invalidate", "lookup", "fetch", "fill"}
\* No update is ever in one of these.
DealPhases == {"load", "unload", "delete", "sync"}

(***************************************************************************)
(* A request has an answer only when it is done.  Before the key an update *)
(* counts nothing; at the key it counts as often as its command was sent   *)
(* again; the row it counts once, and never after the key.                 *)
(***************************************************************************)
Again == IF regime.faults THEN MaxRetries ELSE 0

Counted(r) ==
  /\ retries[r] <= Again
  /\ answer[r] # "none" => phase[r] = "done"
  /\ phase[r] \in Before => taken[r]["redis"] = 0 /\ taken[r]["db"] = 0
  /\ phase[r] = "redis" => taken[r]["redis"] <= retries[r] /\ taken[r]["db"] = 0
  /\ taken[r]["redis"] = 0 \/ taken[r]["db"] = 0
  /\ taken[r]["redis"] <= 1 + Again /\ taken[r]["db"] <= 1
  /\ op[r] = "update" /\ phase[r] \in After => taken[r]["redis"] + taken[r]["db"] >= 1
  /\ phase[r] \in DealPhases => op[r] # "update"
  /\ answer[r] = "ok" /\ op[r] = "update" => taken[r]["redis"] + taken[r]["db"] >= 1
  /\ answer[r] = "insufficient" => taken[r]["redis"] <= Again /\ taken[r]["db"] = 0

IInv == TypeOK /\ \A r \in Requests : Counted(r)

-----------------------------------------------------------------------------
\* How often a command may be sent again is a number.
LEMMA AgainType == TypeOK => Again \in Nat /\ Again <= MaxRetries
  BY RetryAssumption DEF Again

\* The invariant holds before the first request.
LEMMA InitIInv == Init => IInv
<1> SUFFICES ASSUME Init PROVE IInv
  OBVIOUS
<1>1. regime \in Regime
  BY RegimeAssumption DEF Init
<1>2. TypeOK
  <2>1. row \in Nat /\ crashes \in 0 .. regime.crashes
    BY <1>1 DEF Init, Regime
  <2>2. taken \in [Requests -> [Stores -> 0 .. MaxRetries + 1]]
    BY RetryAssumption DEF Init
  <2>3. retries \in [Requests -> 0 .. MaxRetries]
    BY RetryAssumption DEF Init
  <2> QED
    BY <2>1, <2>2, <2>3 DEF Init, TypeOK, Phases, Resting, Ops
<1>3. \A r \in Requests : Counted(r)
  <2> SUFFICES ASSUME NEW r \in Requests PROVE Counted(r)
    OBVIOUS
  <2>1. /\ phase[r] = "new" /\ answer[r] = "none" /\ retries[r] = 0
        /\ taken[r]["redis"] = 0 /\ taken[r]["db"] = 0
    BY DEF Init, Stores
  <2>2. Again \in Nat
    BY <1>2, AgainType
  <2> QED
    BY <2>1, <2>2 DEF Counted, Before, After, DealPhases
<1> QED
  BY <1>2, <1>3 DEF IInv

\* What a request counts when it has changed a store.
LEMMA TookType ==
  ASSUME TypeOK, NEW r \in Requests, NEW s \in Stores, taken[r][s] <= MaxRetries, Took(r, s)
  PROVE  /\ taken' \in [Requests -> [Stores -> 0 .. MaxRetries + 1]]
         /\ taken'[r][s] = taken[r][s] + 1
         /\ \A u \in Stores : u # s => taken'[r][u] = taken[r][u]
         /\ \A q \in Requests : q # r => taken'[q] = taken[q]
<1>1. taken \in [Requests -> [Stores -> 0 .. MaxRetries + 1]]
  BY DEF TypeOK
<1>2. taken[r] \in [Stores -> 0 .. MaxRetries + 1]
  BY <1>1
<1>3. taken' = [taken EXCEPT ![r] = [taken[r] EXCEPT ![s] = taken[r][s] + 1]]
  BY DEF Took
<1>4. taken[r][s] + 1 \in 0 .. MaxRetries + 1
  BY <1>2, RetryAssumption
<1>5. [taken[r] EXCEPT ![s] = taken[r][s] + 1] \in [Stores -> 0 .. MaxRetries + 1]
  BY <1>2, <1>4
<1> QED
  BY <1>1, <1>2, <1>3, <1>5

\* How often a command was sent again keeps its type and its bound.
LEMMA RetriesNext ==
  ASSUME IInv, [Next]_vars
  PROVE  /\ retries' \in [Requests -> 0 .. MaxRetries]
         /\ \A q \in Requests : retries'[q] <= Again'
<1>1. /\ retries \in [Requests -> 0 .. MaxRetries]
      /\ \A q \in Requests : retries[q] <= Again
  BY DEF IInv, TypeOK, Counted
<1>2. regime' = regime
  BY DEF Next, Begin, Serve, UpdateStock, Route, DecrementStock, IncrementStock,
         UpdateStockWithLock, Invalidate, GetProductByID, Lookup, Fetch, Fill, StartHotdeal,
         LoadStock, EndHotdeal, UnloadStock, DeleteKey, SyncStock, Expire, Crash, requestVars, vars
<1>3. Again' = Again /\ Again \in Nat /\ Again <= MaxRetries
  BY <1>2, AgainType DEF Again, IInv
<1>4. \/ UNCHANGED retries
      \/ retries' = [r \in Requests |-> 0]
      \/ \E r \in Requests : retries' = [retries EXCEPT ![r] = 0]
      \/ \E r \in Requests : SentAgain(r)
  BY DEF Next, Begin, Serve, UpdateStock, Route, DecrementStock, IncrementStock, RedisFailed,
         UpdateStockWithLock, Invalidate, GetProductByID, Lookup, Fetch, Fill, AfterRead,
         StartHotdeal, LoadStock, EndHotdeal, UnloadStock, DeleteKey, SyncStock, Expire, Crash,
         Return, Go, vars
<1>5. ASSUME NEW r \in Requests, SentAgain(r)
      PROVE  /\ retries' \in [Requests -> 0 .. MaxRetries]
             /\ \A q \in Requests : retries'[q] <= Again'
  <2>1. Again = MaxRetries /\ retries[r] + 1 \in 0 .. MaxRetries
    BY <1>1, <1>5, RetryAssumption DEF SentAgain, Again
  <2>2. retries' = [retries EXCEPT ![r] = retries[r] + 1]
    BY <1>5 DEF SentAgain
  <2> QED
    BY <1>1, <1>3, <2>1, <2>2
<1> QED
  BY <1>1, <1>3, <1>4, <1>5, RetryAssumption

\* No step of a request takes a store below zero or breaks a type.
LEMMA TypeNext ==
  ASSUME IInv, [Next]_vars
  PROVE  TypeOK'
<1> USE DEF IInv, TypeOK, Phases, Resting, Ops
<1>0. regime \in Regime /\ \A r \in Requests : delta[r] \in Int
  <2>1. \A r \in Requests : delta[r] \in Deltas \cup {0}
    OBVIOUS
  <2>2. Deltas \cup {0} \subseteq Int
    BY DeltaAssumption
  <2> QED
    BY <2>1, <2>2, RegimeAssumption
<1>r. retries' \in [Requests -> 0 .. MaxRetries]
  BY RetriesNext
<1>m. \A r \in Requests : /\ phase[r] = "redis" => taken[r]["redis"] <= MaxRetries
                          /\ phase[r] = "db" => taken[r]["db"] <= MaxRetries
  <2> SUFFICES ASSUME NEW r \in Requests
               PROVE  /\ phase[r] = "redis" => taken[r]["redis"] <= MaxRetries
                      /\ phase[r] = "db" => taken[r]["db"] <= MaxRetries
    OBVIOUS
  <2>1. Counted(r) /\ retries[r] \in 0 .. MaxRetries /\ taken[r]["redis"] \in Nat
    BY RetryAssumption DEF Stores
  <2> QED
    BY <2>1, RetryAssumption DEF Counted, Before
<1>1. ASSUME NEW r \in Requests, NEW o \in {"update", "get", "start", "end"},
             NEW d \in Deltas \cup {0}, Begin(r, o, d)
      PROVE  TypeOK'
  BY <1>r, <1>1 DEF Begin, Go, historyVars
<1>2. ASSUME NEW r \in Requests, Route(r) PROVE TypeOK'
  BY <1>r, <1>2 DEF Route, Go, requestVars, historyVars
<1>3. ASSUME NEW r \in Requests, DecrementStock(r) PROVE TypeOK'
  <2>1. key' \in Nat \cup {Absent}
    BY <1>0, <1>3, AbsentAssumption DEF DecrementStock
  <2>2. taken' \in [Requests -> [Stores -> 0 .. MaxRetries + 1]]
    BY <1>m, <1>3, TookType DEF DecrementStock, Stores
  <2>3. phase' \in [Requests -> Phases] /\ answer' \in [Requests -> {"none", "ok", "insufficient", "error"}]
    BY <1>3 DEF DecrementStock, RedisFailed, SentAgain, Return, Go
  <2> QED
    BY <1>r, <1>3, <2>1, <2>2, <2>3 DEF DecrementStock, requestVars
<1>4. ASSUME NEW r \in Requests, IncrementStock(r) PROVE TypeOK'
  <2>1. key' \in Nat \cup {Absent}
    BY <1>0, <1>4, AbsentAssumption DEF IncrementStock
  <2>2. taken' \in [Requests -> [Stores -> 0 .. MaxRetries + 1]]
    BY <1>m, <1>4, TookType DEF IncrementStock, Stores
  <2>3. phase' \in [Requests -> Phases] /\ answer' \in [Requests -> {"none", "ok", "insufficient", "error"}]
    BY <1>4 DEF IncrementStock, RedisFailed, SentAgain, Return, Go
  <2> QED
    BY <1>r, <1>4, <2>1, <2>2, <2>3 DEF IncrementStock, requestVars
<1>5. ASSUME NEW r \in Requests, UpdateStockWithLock(r) PROVE TypeOK'
  <2>1. row' \in Nat
    BY <1>0, <1>5 DEF UpdateStockWithLock, Short
  <2>2. taken' \in [Requests -> [Stores -> 0 .. MaxRetries + 1]]
    BY <1>m, <1>5, TookType DEF UpdateStockWithLock, Stores
  <2>3. phase' \in [Requests -> Phases] /\ answer' \in [Requests -> {"none", "ok", "insufficient", "error"}]
    BY <1>5 DEF UpdateStockWithLock, Return, Go
  <2> QED
    BY <1>r, <1>5, <2>1, <2>2, <2>3 DEF UpdateStockWithLock, requestVars
<1>6. ASSUME NEW r \in Requests, Invalidate(r) PROVE TypeOK'
  BY <1>r, <1>6 DEF Invalidate, SentAgain, Return, Go, requestVars, historyVars
<1>7. ASSUME NEW r \in Requests, GetProductByID(r) PROVE TypeOK'
  <2>1. /\ seen' \in [Requests -> Nat] /\ cache' \in Nat \cup {Absent}
    BY <1>7 DEF GetProductByID, Lookup, Fetch, Fill
  <2>2. phase' \in [Requests -> Phases] /\ answer' \in [Requests -> {"none", "ok", "insufficient", "error"}]
    BY <1>7 DEF GetProductByID, Lookup, Fetch, Fill, AfterRead, SentAgain, Return, Go
  <2> QED
    BY <1>r, <1>7, <2>1, <2>2 DEF GetProductByID, Lookup, Fetch, Fill, requestVars, historyVars
<1>8. ASSUME NEW r \in Requests, LoadStock(r) PROVE TypeOK'
  <2>1. seen[r] \in Nat
    OBVIOUS
  <2>2. key' \in Nat \cup {Absent}
    BY <1>8, <2>1 DEF LoadStock
  <2>3. phase' \in [Requests -> Phases] /\ answer' \in [Requests -> {"none", "ok", "insufficient", "error"}]
    BY <1>8 DEF LoadStock, SentAgain, Return, Go
  <2> QED
    BY <1>r, <1>8, <2>2, <2>3 DEF LoadStock, requestVars, historyVars
<1>9. ASSUME NEW r \in Requests, UnloadStock(r) PROVE TypeOK'
  BY <1>r, <1>9 DEF UnloadStock, Return, Go, requestVars, historyVars
<1>10. ASSUME NEW r \in Requests, DeleteKey(r) PROVE TypeOK'
  <2>1. phase' \in [Requests -> Phases] /\ answer' \in [Requests -> {"none", "ok", "insufficient", "error"}]
    BY <1>10 DEF DeleteKey, SentAgain, Return, Go
  <2>2. key' \in Nat \cup {Absent} /\ soldOut' \in BOOLEAN
    BY <1>10 DEF DeleteKey
  <2> QED
    BY <1>r, <1>10, <2>1, <2>2 DEF DeleteKey, requestVars
<1>11. ASSUME NEW r \in Requests, SyncStock(r) PROVE TypeOK'
  <2>1. seen[r] \in Nat
    OBVIOUS
  <2>2. row' \in Nat
    BY <1>11, <2>1 DEF SyncStock
  <2>3. phase' \in [Requests -> Phases] /\ answer' \in [Requests -> {"none", "ok", "insufficient", "error"}]
    BY <1>11 DEF SyncStock, Return, Go
  <2> QED
    BY <1>r, <1>11, <2>2, <2>3 DEF SyncStock, requestVars, historyVars
<1>12. CASE Expire
  BY <1>r, <1>12 DEF Expire, requestVars, historyVars
<1>13. CASE Crash
  BY <1>r, <1>0, <1>13 DEF Crash, requestVars, historyVars, Regime
<1>14. CASE UNCHANGED vars
  BY <1>r, <1>14 DEF vars, requestVars, historyVars
<1> QED
  BY <1>1, <1>2, <1>3, <1>4, <1>5, <1>6, <1>7, <1>8, <1>9, <1>10, <1>11, <1>12, <1>13,
     <1>14 DEF Next, Serve, UpdateStock, StartHotdeal, EndHotdeal

\* No step counts an update twice, or answers what it did not do.
LEMMA CountedNext ==
  ASSUME IInv, [Next]_vars, NEW q \in Requests
  PROVE  Counted(q)'
<1>t. /\ phase \in [Requests -> Phases] /\ op \in [Requests -> Ops]
      /\ answer \in [Requests -> {"none", "ok", "insufficient", "error"}]
      /\ taken \in [Requests -> [Stores -> 0 .. MaxRetries + 1]]
  BY DEF IInv, TypeOK
<1>c. Counted(q)
  BY DEF IInv
<1>a. Again' = Again /\ Again \in Nat /\ Again <= MaxRetries /\ retries'[q] <= Again'
  <2>1. regime' = regime
    BY DEF Next, Begin, Serve, UpdateStock, Route, DecrementStock, IncrementStock,
           UpdateStockWithLock, Invalidate, GetProductByID, Lookup, Fetch, Fill, StartHotdeal,
           LoadStock, EndHotdeal, UnloadStock, DeleteKey, SyncStock, Expire, Crash, requestVars, vars
  <2> QED
    BY <2>1, AgainType, RetriesNext DEF Again, IInv
<1>n. /\ taken[q]["redis"] \in Nat /\ taken[q]["db"] \in Nat
      /\ retries \in [Requests -> 0 .. MaxRetries] /\ retries[q] \in 0 .. MaxRetries
  BY RetryAssumption DEF IInv, TypeOK, Stores
<1> USE DEF Counted, Before, After, DealPhases, Resting
<1>1. ASSUME phase'[q] = phase[q], op'[q] = op[q], answer'[q] = answer[q], taken'[q] = taken[q],
             retries'[q] = retries[q]
      PROVE  Counted(q)'
  BY <1>1, <1>a, <1>c
<1>2. ASSUME NEW o \in {"update", "get", "start", "end"}, NEW d, Begin(q, o, d) PROVE Counted(q)'
  BY <1>2, <1>a, <1>c, <1>t DEF Begin, Go, historyVars
<1>3. CASE Route(q)
  <2>1. /\ phase[q] = "route" /\ phase'[q] \in {"redis", "db"} /\ op'[q] = op[q]
        /\ retries'[q] = 0 /\ UNCHANGED <<taken, answer>>
    BY <1>3, <1>t, <1>n DEF Route, Go, requestVars, historyVars
  <2> QED
    BY <2>1, <1>a, <1>c
<1>4. CASE DecrementStock(q) \/ IncrementStock(q)
  <2>1. /\ phase[q] = "redis" /\ op'[q] = op[q]
        /\ \/ /\ taken' = taken /\ phase'[q] = "done"
              /\ answer'[q] \in {"error", "insufficient"}
           \/ /\ Took(q, "redis")
              /\ \/ phase'[q] = "lookup" /\ answer'[q] = answer[q]
                 \/ SentAgain(q)
                 \/ phase'[q] = "done" /\ answer'[q] = "error"
    BY <1>4, <1>t DEF DecrementStock, IncrementStock, RedisFailed, Return, Go, requestVars
  <2>2. /\ taken[q]["redis"] <= retries[q] /\ taken[q]["db"] = 0 /\ retries[q] <= Again
        /\ answer[q] = "none" /\ taken[q]["redis"] <= Again
    BY <2>1, <1>a, <1>c, <1>n
  <2>3. CASE /\ taken' = taken /\ phase'[q] = "done"
             /\ answer'[q] \in {"error", "insufficient"}
    BY <1>a, <1>c, <1>n, <2>1, <2>2, <2>3
  <2>4. ASSUME Took(q, "redis")
        PROVE  taken'[q]["redis"] = taken[q]["redis"] + 1 /\ taken'[q]["db"] = 0
    <3>1. taken[q]["redis"] <= MaxRetries
      BY <2>2, <1>a, <1>n, RetryAssumption
    <3> QED
      BY <2>2, <2>4, <3>1, TookType DEF IInv, Stores
  <2>5. CASE /\ Took(q, "redis")
             /\ \/ phase'[q] = "lookup" /\ answer'[q] = answer[q]
                \/ phase'[q] = "done" /\ answer'[q] = "error"
    BY <1>a, <1>c, <1>n, <2>1, <2>2, <2>4, <2>5
  <2>6. CASE Took(q, "redis") /\ SentAgain(q)
    <3>1. phase'[q] = "redis" /\ answer'[q] = "none" /\ retries'[q] = retries[q] + 1
      BY <2>1, <2>2, <2>6, <1>n DEF SentAgain
    <3> QED
      BY <1>a, <1>c, <1>n, <2>1, <2>2, <2>4, <2>6, <3>1
  <2> QED
    BY <2>1, <2>3, <2>5, <2>6
<1>5. CASE UpdateStockWithLock(q)
  <2>1. /\ phase[q] = "db" /\ op'[q] = op[q]
        /\ \/ /\ taken' = taken /\ phase'[q] = "done"
              /\ answer'[q] \in {"error", "insufficient"}
           \/ /\ Took(q, "db")
              /\ \/ phase'[q] = "invalidate" /\ answer'[q] = answer[q]
                 \/ phase'[q] = "done" /\ answer'[q] = "error"
    BY <1>5, <1>t DEF UpdateStockWithLock, Return, Go, requestVars
  <2>2. taken[q]["redis"] = 0 /\ taken[q]["db"] = 0 /\ answer[q] = "none"
    BY <2>1, <1>c
  <2>3. CASE /\ taken' = taken /\ phase'[q] = "done"
             /\ answer'[q] \in {"error", "insufficient"}
    BY <1>a, <1>c, <2>1, <2>2, <2>3
  <2>4. CASE /\ Took(q, "db")
             /\ \/ phase'[q] = "invalidate" /\ answer'[q] = answer[q]
                \/ phase'[q] = "done" /\ answer'[q] = "error"
    <3>1. taken'[q]["db"] = 1 /\ taken'[q]["redis"] = 0
      BY <2>2, <2>4, TookType, RetryAssumption DEF IInv, Stores
    <3> QED
      BY <1>a, <1>c, <2>1, <2>2, <2>4, <3>1
  <2> QED
    BY <2>1, <2>3, <2>4
<1>6. CASE Invalidate(q)
  <2>1. /\ phase[q] = "invalidate" /\ op'[q] = op[q] /\ taken' = taken
        /\ \/ phase'[q] \in {"lookup", "invalidate"} /\ answer'[q] = answer[q]
           \/ phase'[q] = "done" /\ answer'[q] = "ok"
    BY <1>6, <1>t DEF Invalidate, SentAgain, Return, Go, requestVars, historyVars
  <2> QED
    BY <1>a, <1>c, <2>1
<1>7. CASE GetProductByID(q)
  <2>1. /\ phase[q] \in After /\ op'[q] = op[q] /\ taken' = taken
        /\ \/ phase'[q] \in {"fetch", "fill"} /\ answer'[q] = answer[q]
           \/ op[q] = "start" /\ phase'[q] = "load" /\ answer'[q] = answer[q]
           \/ phase'[q] = "done" /\ answer'[q] \in {"ok", "error"}
    BY <1>7, <1>t DEF GetProductByID, Lookup, Fetch, Fill, AfterRead, SentAgain,
                      Return, Go, requestVars, historyVars
  <2> QED
    BY <1>a, <1>c, <2>1
<1>8. CASE StartHotdeal(q) \/ EndHotdeal(q)
  <2>1. /\ phase[q] \in DealPhases /\ op'[q] = op[q] /\ taken' = taken
        /\ \/ phase'[q] \in {"load", "delete", "sync"} /\ answer'[q] = answer[q]
           \/ phase'[q] = "invalidate" /\ answer'[q] = answer[q]
           \/ phase'[q] = "done" /\ answer'[q] \in {"ok", "error"}
    BY <1>8, <1>t DEF StartHotdeal, LoadStock, EndHotdeal, UnloadStock, DeleteKey, SyncStock,
                      SentAgain, Return, Go, requestVars, historyVars
  <2> QED
    BY <1>a, <1>c, <2>1
<1>9. ASSUME NEW r \in Requests, r # q,
             Serve(r) \/ \E o \in {"update", "get", "start", "end"} :
                            \E d \in Deltas \cup {0} : Begin(r, o, d)
      PROVE  Counted(q)'
  <2>1. /\ op'[q] = op[q] /\ phase'[q] = phase[q] /\ answer'[q] = answer[q]
        /\ retries'[q] = retries[q]
    BY <1>9, <1>t, <1>n DEF Serve, UpdateStock, Route, DecrementStock, IncrementStock,
         UpdateStockWithLock, Invalidate, GetProductByID, Lookup, Fetch, Fill, StartHotdeal,
         LoadStock, EndHotdeal, UnloadStock, DeleteKey, SyncStock, AfterRead, RedisFailed,
         SentAgain, Return, Go, Begin, requestVars
  <2>2. taken'[q] = taken[q]
    BY <1>9, <1>t DEF Serve, UpdateStock, Route, DecrementStock, IncrementStock, Took,
         UpdateStockWithLock, Invalidate, GetProductByID, Lookup, Fetch, Fill, StartHotdeal,
         LoadStock, EndHotdeal, UnloadStock, DeleteKey, SyncStock, Begin, historyVars
  <2> QED
    BY <1>1, <2>1, <2>2
<1>10. CASE Expire
  BY <1>1, <1>10 DEF Expire, requestVars, historyVars
<1>11. CASE Crash
  BY <1>11, <1>a, <1>c, <1>t DEF Crash, requestVars, historyVars
<1>12. CASE UNCHANGED vars
  BY <1>1, <1>12 DEF vars, requestVars, historyVars
<1> QED
  BY <1>2, <1>3, <1>4, <1>5, <1>6, <1>7, <1>8, <1>9, <1>10, <1>11, <1>12
     DEF Next, Serve, UpdateStock

-----------------------------------------------------------------------------
\* The inductive invariant holds in every reachable state.
THEOREM Invariance == Spec => []IInv
<1>1. IInv /\ [Next]_vars => IInv'
  BY TypeNext, CountedNext DEF IInv, Requests
<1> QED
  BY <1>1, InitIInv, PTL DEF Spec

\* No store goes below zero, though updates, the start and the end of a deal
\* write them without a common lock, and every other variable keeps its type.
THEOREM TypeCorrect == Spec => []TypeOK
<1>1. IInv => TypeOK
  BY DEF IInv
<1> QED
  BY <1>1, Invariance, PTL

\* An update charges one store at most, the row once and the key once for each
\* time its command was sent, and its answer says no more than that.
THEOREM ChargesOneStore == Spec => []UpdateChargesOneStore
<1>1. IInv => UpdateChargesOneStore
  BY DEF IInv, Counted, Again, UpdateChargesOneStore
<1> QED
  BY <1>1, Invariance, PTL

-----------------------------------------------------------------------------
(***************************************************************************)
(* Deals in turn.  No unit is lost between the stores as long as deals are *)
(* started and ended in turn, nothing is read from a cache, nothing fails  *)
(* or dies, and no deal ends sold out.                                     *)
(***************************************************************************)
Orderly == regime.orderly /\ ~regime.cached /\ ~regime.faults /\ crashes = 0

\* Where a request may be, and what it knows of the stores by then: nothing
\* moves the stock between the stores but itself.
Placed(r) ==
  /\ phase[r] \in {"route", "redis", "db"} => op[r] = "update"
  /\ phase[r] = "invalidate" => op[r] \in {"update", "end"}
  /\ phase[r] = "load" => op[r] = "start" /\ seen[r] = row
  /\ phase[r] \in {"unload", "delete", "sync"} => op[r] = "end"
  /\ phase[r] \in {"lookup", "fetch"} => op[r] # "end"
  /\ phase[r] # "fill"
  /\ phase[r] = "redis" => key # Absent
  /\ phase[r] = "db" => key = Absent
  /\ phase[r] \in {"lookup", "fetch", "load"} /\ op[r] = "start" => key = Absent
  /\ phase[r] = "delete" => key = seen[r] /\ key # Absent
  /\ phase[r] = "sync" => key = Absent

\* The start or the end of a deal is under way alone.
AloneInTurn ==
  \A r, q \in Requests :
    phase[r] \notin Resting /\ op[r] \in {"start", "end"} /\ phase[q] \notin Resting => q = r

\* The stock is in one place: in the row or the key, or in the hands of a
\* request between the two.
InOnePlace ==
  /\ \A r \in Requests : phase[r] = "sync" => seen[r] + NetTaken = regime.stock
  /\ (\A r \in Requests : phase[r] # "sync") => Available + NetTaken = regime.stock

TurnInv == Orderly => /\ \A r \in Requests : Placed(r)
                      /\ AloneInTurn
                      /\ ~soldOut => InOnePlace

-----------------------------------------------------------------------------
\* What a request is charged for: nothing, or its amount once.
ChargeFacts ==
  /\ IsFiniteSet(Requests)
  /\ NetTaken = SumFunctionOnSet(Charges, Requests)
  /\ NetTaken \in Int
  /\ \A r \in Requests :
       /\ delta[r] \in Int /\ Charges[r] \in Int
       /\ taken[r]["redis"] = 0 /\ taken[r]["db"] = 0 => Charges[r] = 0
       /\ taken[r]["redis"] + taken[r]["db"] = 1 => Charges[r] = -delta[r]

LEMMA ChargeType == TypeOK => ChargeFacts
<1> SUFFICES ASSUME TypeOK PROVE ChargeFacts
  OBVIOUS
<1>1. IsFiniteSet(Requests)
  BY FS_Interval, RegimeAssumption DEF Requests
<1>2. ASSUME NEW r \in Requests
      PROVE  /\ delta[r] \in Int /\ Charges[r] \in Int
             /\ taken[r]["redis"] = 0 /\ taken[r]["db"] = 0 => Charges[r] = 0
             /\ taken[r]["redis"] + taken[r]["db"] = 1 => Charges[r] = -delta[r]
  <2>1. delta[r] \in Int
    <3>1. delta[r] \in Deltas \cup {0}
      BY DEF TypeOK
    <3>2. Deltas \cup {0} \subseteq Int
      BY DeltaAssumption
    <3> QED
      BY <3>1, <3>2
  <2>2. taken[r]["redis"] \in Nat /\ taken[r]["db"] \in Nat
    BY RetryAssumption DEF TypeOK, Stores
  <2>3. Charges[r] = -delta[r] * (taken[r]["redis"] + taken[r]["db"])
    BY DEF Charges
  <2>4. CASE taken[r]["redis"] + taken[r]["db"] = 0
    BY <2>1, <2>2, <2>3, <2>4
  <2>5. CASE taken[r]["redis"] + taken[r]["db"] = 1
    BY <2>1, <2>2, <2>3, <2>5
  <2>6. Charges[r] \in Int
    <3> DEFINE a == delta[r]
               b == taken[r]["redis"] + taken[r]["db"]
    <3>1. a \in Int /\ b \in Int
      BY <2>1, <2>2
    <3>2. Charges[r] = -(a * b)
      BY <2>3
    <3> HIDE DEF a, b
    <3> QED
      BY <3>1, <3>2
  <2> QED
    BY <2>2, <2>1, <2>4, <2>5, <2>6
<1>3. NetTaken = SumFunctionOnSet(Charges, Requests)
  BY DEF NetTaken, SumFunction, Charges
<1> QED
  BY <1>1, <1>2, <1>3, SumType DEF ChargeFacts

\* A step that changes no charge, and the beginning of a request, leave the
\* net sales as they were; a change of a store adds its own amount.
LEMMA NetSame ==
  ASSUME TypeOK, TypeOK', \A r \in Requests : Charges'[r] = Charges[r]
  PROVE  NetTaken' = NetTaken
<1>1. TypeOK' => ChargeFacts'
  BY ChargeType, PTL
<1>2. NetTaken' = SumFunctionOnSet(Charges', Requests)
  BY <1>1 DEF ChargeFacts, Requests
<1> QED
  BY <1>2, ChargeType, SumAgree DEF ChargeFacts

LEMMA NetTook ==
  ASSUME IInv, TypeOK', NEW r \in Requests, NEW s \in Stores,
         taken[r]["redis"] = 0, taken[r]["db"] = 0, Took(r, s), delta' = delta
  PROVE  NetTaken' = NetTaken - delta[r] /\ NetTaken \in Int /\ delta[r] \in Int
<1>1. /\ taken'[r]["redis"] + taken'[r]["db"] = 1
      /\ \A q \in Requests : q # r => taken'[q] = taken[q]
  BY TookType, RetryAssumption DEF IInv, Stores
<1>2. TypeOK' => ChargeFacts'
  BY ChargeType, PTL
<1>3. /\ NetTaken' = SumFunctionOnSet(Charges', Requests)
      /\ \A q \in Requests :
           /\ Charges'[q] \in Int
           /\ taken'[q]["redis"] + taken'[q]["db"] = 1 => Charges'[q] = -delta'[q]
  BY <1>2 DEF ChargeFacts, Requests
<1>4. /\ IsFiniteSet(Requests) /\ NetTaken = SumFunctionOnSet(Charges, Requests) /\ NetTaken \in Int
      /\ \A q \in Requests : Charges[q] \in Int
      /\ delta[r] \in Int /\ Charges[r] = 0
  BY ChargeType DEF IInv, ChargeFacts
<1>5. \A q \in Requests \ {r} : Charges[q] = Charges'[q]
  BY <1>1 DEF Charges, Requests
<1>6. Charges'[r] = -delta[r]
  BY <1>1, <1>3
<1>7. NetTaken' = NetTaken - Charges[r] + Charges'[r]
  <2> HIDE DEF Charges
  <2> QED
    BY <1>3, <1>4, <1>5, SumChange
<1> QED
  BY <1>4, <1>6, <1>7

LEMMA NetBegin ==
  ASSUME IInv, TypeOK', NEW r \in Requests, phase[r] = "new", NEW d, delta' = [delta EXCEPT ![r] = d],
         taken' = taken
  PROVE  NetTaken' = NetTaken
<1>1. taken[r]["redis"] = 0 /\ taken[r]["db"] = 0
  BY DEF IInv, Counted, Before
<1>2. \A q \in Requests \ {r} : Charges'[q] = Charges[q]
  BY DEF Charges, IInv, TypeOK, Requests
<1>3. TypeOK' => ChargeFacts'
  BY ChargeType, PTL
<1>4. Charges'[r] = Charges[r]
  BY <1>1, <1>3, ChargeType DEF IInv, ChargeFacts, Requests
<1> QED
  BY <1>2, <1>4, NetSame DEF IInv

-----------------------------------------------------------------------------
\* The stock stays in one place when a step moves nothing.
LEMMA NothingMoves ==
  ASSUME TypeOK, InOnePlace, UNCHANGED <<regime, row, key, seen>>, NetTaken' = NetTaken,
         \A q \in Requests : phase'[q] = "sync" <=> phase[q] = "sync"
  PROVE  InOnePlace'
BY DEF InOnePlace, Available, Requests

\* No request begins that could move the stock under another one's feet.
LEMMA TurnBegin ==
  ASSUME IInv, TypeOK', TurnInv, Orderly, NEW r \in Requests,
         NEW o \in {"update", "get", "start", "end"}, NEW d \in Deltas \cup {0}, Begin(r, o, d)
  PROVE  TurnInv'
<1>1. /\ \A q \in Requests : Placed(q)
      /\ AloneInTurn /\ (~soldOut => InOnePlace)
  BY DEF TurnInv
<1>2. /\ phase \in [Requests -> Phases] /\ op \in [Requests -> Ops]
      /\ phase' = [phase EXCEPT ![r] = CASE o = "update" -> "route" [] o = "end" -> "unload"
                                          [] OTHER -> "lookup"]
      /\ op' = [op EXCEPT ![r] = o] /\ delta' = [delta EXCEPT ![r] = d]
      /\ phase[r] = "new" /\ InTurn(o)
      /\ UNCHANGED <<row, key, regime, seen, taken, soldOut>>
  BY DEF Begin, Go, IInv, TypeOK, historyVars, Orderly
<1>3. /\ \A q \in Requests : phase[q] \notin Resting => op[q] \notin {"start", "end"}
      /\ o \in {"start", "end"} => \A q \in Requests : phase[q] \in Resting
      /\ o = "start" => key = Absent
  BY <1>2 DEF InTurn, UnderWay
<1>4. ASSUME NEW q \in Requests PROVE Placed(q)'
  <2>1. CASE q = r
    BY <1>2, <1>3, <2>1 DEF Placed
  <2>2. CASE q # r
    BY <1>1, <1>2, <2>2 DEF Placed
  <2> QED
    BY <2>1, <2>2
<1>5. AloneInTurn'
  <2> SUFFICES ASSUME NEW p \in Requests, NEW q \in Requests,
                      phase'[p] \notin Resting, op'[p] \in {"start", "end"}, phase'[q] \notin Resting
               PROVE  q = p
    BY DEF AloneInTurn, Requests, Resting
  <2>1. p = r
    BY <1>2, <1>3
  <2> QED
    BY <1>2, <1>3, <2>1
<1>6. ASSUME ~soldOut' PROVE InOnePlace'
  <2>1. NetTaken' = NetTaken
    BY <1>2, NetBegin
  <2>2. \A q \in Requests : phase'[q] = "sync" <=> phase[q] = "sync"
    BY <1>2
  <2> QED
    BY <1>1, <1>2, <1>6, <2>1, <2>2, NothingMoves DEF IInv
<1> QED
  BY <1>4, <1>5, <1>6 DEF TurnInv, Requests

\* Who is alone stays alone while no other request begins.
LEMMA StillAlone ==
  ASSUME AloneInTurn, op' = op, \A q \in Requests : phase[q] \in Resting => phase'[q] \in Resting
  PROVE  AloneInTurn'
BY DEF AloneInTurn, Requests, Resting

\* A step that leaves the stores alone, for a request that starts or ends no
\* deal between them.
LEMMA TurnQuiet ==
  ASSUME IInv, TypeOK', TurnInv, Orderly, NEW r \in Requests, phase[r] \notin Resting,
         UNCHANGED <<regime, row, key, op, delta, taken, soldOut>>,
         \A q \in Requests \ {r} : phase'[q] = phase[q] /\ seen'[q] = seen[q],
         Placed(r)', phase[r] # "sync", phase'[r] # "sync"
  PROVE  TurnInv'
<1>1. /\ \A q \in Requests : Placed(q)
      /\ AloneInTurn /\ (~soldOut => InOnePlace)
  BY DEF TurnInv
<1>2. ASSUME NEW q \in Requests PROVE Placed(q)'
  BY <1>1 DEF Placed
<1>3. AloneInTurn'
  BY <1>1, StillAlone
<1>4. ASSUME ~soldOut' PROVE InOnePlace'
  <2>1. NetTaken' = NetTaken
    BY NetSame DEF IInv, Charges
  <2> QED
    BY <1>1, <1>4, <2>1 DEF InOnePlace, Available, Requests
<1> QED
  BY <1>2, <1>3, <1>4 DEF TurnInv, Requests

\* An update charges the store that has the stock: no deal starts or ends
\* while the update is under way.
LEMMA TurnSell ==
  ASSUME IInv, TypeOK', TurnInv, Orderly, NEW r \in Requests, NEW s \in Stores, Took(r, s),
         UNCHANGED <<regime, op, delta, seen, soldOut>>,
         \/ s = "redis" /\ phase[r] = "redis" /\ key' = key + delta[r] /\ row' = row
         \/ s = "db" /\ phase[r] = "db" /\ row' = row + delta[r] /\ key' = key,
         phase' = [phase EXCEPT ![r] = IF s = "redis" THEN "lookup" ELSE "invalidate"]
  PROVE  TurnInv'
<1>1. /\ \A q \in Requests : Placed(q)
      /\ AloneInTurn /\ (~soldOut => InOnePlace)
  BY DEF TurnInv
<1>2. phase \in [Requests -> Phases] /\ row \in Nat /\ key \in Nat \cup {Absent}
      /\ row' \in Nat /\ key' \in Nat \cup {Absent}
  BY DEF IInv, TypeOK
<1>3. op[r] = "update" /\ phase[r] \notin Resting
      /\ (s = "redis" => key # Absent) /\ (s = "db" => key = Absent)
  BY <1>1 DEF Placed, Resting
<1>4. NetTaken' = NetTaken - delta[r] /\ NetTaken \in Int /\ delta[r] \in Int
  <2>1. Counted(r) /\ Again = 0 /\ retries[r] \in Nat /\ taken[r]["redis"] \in Nat
    BY RetryAssumption DEF IInv, TypeOK, Orderly, Again, Stores
  <2>2. taken[r]["redis"] = 0 /\ taken[r]["db"] = 0
    BY <2>1 DEF Counted, Before
  <2> QED
    BY <2>2, NetTook
<1>5. s = "redis" => key' # Absent /\ key' = key + delta[r] /\ key \in Nat
  BY <1>2, <1>3, <1>4, AbsentAssumption
<1>6. \A q \in Requests : phase[q] \notin Resting => op[q] \notin {"start", "end"}
  <2> SUFFICES ASSUME NEW q \in Requests, phase[q] \notin Resting, op[q] \in {"start", "end"}
               PROVE  FALSE
    OBVIOUS
  <2>1. r = q
    BY <1>1, <1>3 DEF AloneInTurn
  <2> QED
    BY <1>3, <2>1
<1>7. ASSUME NEW q \in Requests PROVE Placed(q)' /\ phase[q] # "sync" /\ phase'[q] # "sync"
  <2>1. CASE q = r
    BY <1>2, <1>3, <2>1 DEF Placed
  <2>2. CASE q # r
    <3>1. phase'[q] = phase[q]
      BY <1>2, <2>2
    <3>2. phase[q] \notin {"load", "unload", "delete", "sync"}
      BY <1>1, <1>6 DEF Placed, Resting
    <3>3. phase[q] \notin Resting => op[q] # "start"
      BY <1>6
    <3> QED
      BY <1>1, <1>3, <1>5, <3>1, <3>2, <3>3 DEF Placed, Resting
  <2> QED
    BY <2>1, <2>2
<1>8. AloneInTurn'
  BY <1>1, <1>2, <1>3, StillAlone
<1>9. ASSUME ~soldOut' PROVE InOnePlace'
  <2>1. Available + NetTaken = regime.stock
    BY <1>1, <1>7, <1>9 DEF InOnePlace
  <2>2. Available' = Available + delta[r] /\ Available \in Int
    BY <1>2, <1>3, <1>5 DEF Available, Stores
  <2>3. Available' + NetTaken' = regime'.stock
    BY <1>4, <2>1, <2>2
  <2> QED
    BY <1>7, <2>3 DEF InOnePlace, Requests
<1> QED
  BY <1>7, <1>8, <1>9 DEF TurnInv, Requests

\* The start and the end of a deal move the whole stock, and no one sees it
\* in between.
LEMMA TurnMove ==
  ASSUME IInv, TypeOK', TurnInv, Orderly, NEW r \in Requests,
         LoadStock(r) \/ DeleteKey(r) \/ SyncStock(r)
  PROVE  TurnInv'
<1>1. /\ \A q \in Requests : Placed(q)
      /\ AloneInTurn /\ (~soldOut => InOnePlace)
  BY DEF TurnInv
<1>2. phase \in [Requests -> Phases] /\ row \in Nat /\ key \in Nat \cup {Absent}
      /\ seen[r] \in Nat
  BY DEF IInv, TypeOK
<1>3. /\ UNCHANGED <<regime, op, delta, taken, seen>>
      /\ phase[r] \notin Resting /\ op[r] \in {"start", "end"}
      /\ \A q \in Requests \ {r} : phase'[q] = phase[q]
  BY <1>1 DEF LoadStock, DeleteKey, SyncStock, Placed, SentAgain, Return, Go, IInv, TypeOK, requestVars,
              historyVars, Resting
<1>4. \A q \in Requests \ {r} : phase[q] \in Resting
  BY <1>1, <1>3 DEF AloneInTurn
<1>5. NetTaken' = NetTaken
  BY <1>3, NetSame DEF IInv, Charges
<1>6. AloneInTurn'
  BY <1>1, <1>3, <1>4, StillAlone
<1>7. ASSUME NEW q \in Requests \ {r} PROVE Placed(q)' /\ phase'[q] # "sync" /\ phase[q] # "sync"
  BY <1>3, <1>4 DEF Placed, Resting
<1>8. CASE LoadStock(r)
  <2>1. phase[r] = "load" /\ phase'[r] = "done" /\ key' = seen[r] /\ UNCHANGED <<row, soldOut>>
    BY <1>2, <1>8 DEF LoadStock, Orderly, SentAgain, Return, Go, historyVars
  <2>2. seen[r] = row /\ key = Absent
    BY <1>1, <2>1 DEF Placed
  <2>3. Placed(r)'
    BY <2>1 DEF Placed
  <2>4. Available' = Available
    BY <1>2, <2>1, <2>2, AbsentAssumption DEF Available
  <2>5. ~soldOut' => InOnePlace'
    <3>1. \A q \in Requests : phase[q] # "sync" /\ phase'[q] # "sync"
      BY <1>7, <2>1
    <3> QED
      BY <1>1, <1>3, <1>5, <2>1, <2>4, <3>1 DEF InOnePlace, Requests
  <2> QED
    BY <1>6, <1>7, <2>3, <2>5 DEF TurnInv, Requests
<1>9. CASE DeleteKey(r)
  <2>1. /\ phase[r] = "delete" /\ key' = Absent /\ row' = row
        /\ soldOut' = (soldOut \/ seen[r] = 0)
        /\ seen[r] > 0 => phase'[r] = "sync"
        /\ ~ (seen[r] > 0) => phase'[r] = "done"
    BY <1>2, <1>9 DEF DeleteKey, Orderly, SentAgain, Return, Go, SomeLeft
  <2>2. key = seen[r] /\ key # Absent /\ op[r] = "end"
    BY <1>1, <2>1 DEF Placed
  <2>3. Placed(r)'
    BY <1>2, <1>3, <2>1, <2>2 DEF Placed
  <2>4. ASSUME ~soldOut' PROVE InOnePlace'
    <3>1. ~soldOut /\ seen[r] > 0 /\ phase'[r] = "sync"
      <4>1. ~soldOut /\ seen[r] # 0
        BY <2>1, <2>4, Zenon
      <4>2. seen[r] > 0
        BY <1>2, <4>1
      <4> QED
        BY <2>1, <4>1, <4>2
    <3>2. \A q \in Requests : phase[q] # "sync"
      BY <1>7, <2>1
    <3>3. seen[r] + NetTaken = regime.stock
      BY <1>1, <2>2, <3>1, <3>2 DEF InOnePlace, Available
    <3> QED
      BY <1>3, <1>5, <1>7, <3>1, <3>3 DEF InOnePlace, Requests
  <2> QED
    BY <1>6, <1>7, <2>3, <2>4 DEF TurnInv, Requests
<1>10. CASE SyncStock(r)
  <2>1. phase[r] = "sync" /\ phase'[r] = "invalidate" /\ row' = seen[r] /\ UNCHANGED <<key, soldOut>>
    BY <1>2, <1>10 DEF SyncStock, Orderly, Return, Go, historyVars
  <2>2. key = Absent /\ op[r] = "end"
    BY <1>1, <2>1 DEF Placed
  <2>3. Placed(r)'
    BY <1>3, <2>1, <2>2 DEF Placed
  <2>4. ASSUME ~soldOut' PROVE InOnePlace'
    <3>1. seen[r] + NetTaken = regime.stock
      BY <1>1, <2>1, <2>4 DEF InOnePlace
    <3>2. \A q \in Requests : phase'[q] # "sync"
      BY <1>7, <2>1
    <3>3. Available' = seen[r]
      BY <2>1, <2>2 DEF Available
    <3> QED
      BY <1>3, <1>5, <3>1, <3>2, <3>3 DEF InOnePlace, Requests
  <2> QED
    BY <1>6, <1>7, <2>3, <2>4 DEF TurnInv, Requests
<1> QED
  BY <1>8, <1>9, <1>10

\* Every step keeps the stock in one place, and every request in its turn.
LEMMA TurnNext ==
  ASSUME IInv, TypeOK', TurnInv, [Next]_vars
  PROVE  TurnInv'
<1> SUFFICES ASSUME Orderly' PROVE TurnInv'
  BY DEF TurnInv
<1>1. Orderly
  <2>1. regime' = regime /\ (crashes' = crashes \/ crashes' = crashes + 1)
    BY DEF Next, Begin, Serve, UpdateStock, Route, DecrementStock, IncrementStock,
         UpdateStockWithLock, Invalidate, GetProductByID, Lookup, Fetch, Fill, StartHotdeal,
         LoadStock, EndHotdeal, UnloadStock, DeleteKey, SyncStock, Expire, Crash, requestVars, vars
  <2>2. crashes \in Nat
    BY RegimeAssumption DEF IInv, TypeOK, Regime
  <2> QED
    BY <2>1, <2>2 DEF Orderly
<1>2. /\ \A q \in Requests : Placed(q)
      /\ AloneInTurn /\ (~soldOut => InOnePlace)
  BY <1>1 DEF TurnInv
<1>3. /\ phase \in [Requests -> Phases] /\ op \in [Requests -> Ops] /\ seen \in [Requests -> Nat]
      /\ key \in Nat \cup {Absent}
  BY DEF IInv, TypeOK
<1>4. ASSUME NEW r \in Requests, NEW o \in {"update", "get", "start", "end"},
             NEW d \in Deltas \cup {0}, Begin(r, o, d)
      PROVE  TurnInv'
  BY <1>1, <1>4, TurnBegin
<1>5. ASSUME NEW r \in Requests, Route(r) \/ Invalidate(r) \/ GetProductByID(r) \/ UnloadStock(r)
      PROVE  TurnInv'
  <2>1. /\ phase[r] \notin Resting /\ phase[r] # "sync" /\ phase'[r] # "sync"
        /\ UNCHANGED <<regime, row, key, op, delta, taken, soldOut>>
        /\ \A q \in Requests \ {r} : phase'[q] = phase[q] /\ seen'[q] = seen[q]
    BY <1>3, <1>5 DEF Route, Invalidate, GetProductByID, Lookup, Fetch, Fill, UnloadStock,
         AfterRead, SentAgain, Return, Go, requestVars, historyVars, Resting
  <2>2. Placed(r)'
    <3>1. CASE Route(r)
      BY <1>1, <1>2, <1>3, <3>1 DEF Route, Placed, Orderly, Go, requestVars
    <3>2. CASE Invalidate(r)
      BY <1>2, <1>3, <3>2 DEF Invalidate, Placed, SentAgain, Return, Go, requestVars
    <3>3. CASE GetProductByID(r)
      BY <1>1, <1>2, <1>3, <3>3 DEF GetProductByID, Lookup, Fetch, Fill, Placed, Orderly,
           AfterRead, SentAgain, Return, Go, requestVars
    <3>4. CASE UnloadStock(r)
      BY <1>1, <1>2, <1>3, <3>4 DEF UnloadStock, Placed, Orderly, Return, Go, requestVars
    <3> QED
      BY <1>5, <3>1, <3>2, <3>3, <3>4
  <2> QED
    BY <1>1, <2>1, <2>2, TurnQuiet
<1>6. ASSUME NEW r \in Requests,
             DecrementStock(r) \/ IncrementStock(r) \/ UpdateStockWithLock(r)
      PROVE  TurnInv'
  <2>1. phase[r] \notin Resting /\ phase[r] # "sync" /\ UNCHANGED <<regime, op, delta, seen, soldOut>>
    BY <1>6 DEF DecrementStock, IncrementStock, UpdateStockWithLock, requestVars, Resting
  <2>2. \/ /\ phase' = [phase EXCEPT ![r] = "done"]
           /\ UNCHANGED <<row, key, taken>>
        \/ /\ phase[r] = "redis" /\ key' = key + delta[r] /\ row' = row
           /\ Took(r, "redis") /\ phase' = [phase EXCEPT ![r] = "lookup"]
        \/ /\ phase[r] = "db" /\ row' = row + delta[r] /\ key' = key
           /\ Took(r, "db") /\ phase' = [phase EXCEPT ![r] = "invalidate"]
    <3>1. phase[r] = "redis" => key # Absent
      BY <1>2 DEF Placed
    <3>2. CASE DecrementStock(r)
      BY <1>1, <3>2 DEF DecrementStock, Orderly, SentAgain, Return, Go
    <3>3. CASE IncrementStock(r)
      BY <1>1, <3>1, <3>3 DEF IncrementStock, Orderly, SentAgain, Return, Go
    <3>4. CASE UpdateStockWithLock(r)
      BY <1>1, <3>4 DEF UpdateStockWithLock, Orderly, Return, Go
    <3> QED
      BY <1>6, <3>2, <3>3, <3>4
  <2>3. CASE phase' = [phase EXCEPT ![r] = "done"] /\ UNCHANGED <<row, key, taken>>
    <3>1. phase'[r] = "done" /\ \A q \in Requests \ {r} : phase'[q] = phase[q]
      BY <1>3, <2>3
    <3>2. Placed(r)'
      BY <3>1 DEF Placed
    <3> QED
      BY <1>1, <2>1, <2>3, <3>1, <3>2, TurnQuiet
  <2>4. CASE /\ phase[r] = "redis" /\ key' = key + delta[r] /\ row' = row
             /\ Took(r, "redis") /\ phase' = [phase EXCEPT ![r] = "lookup"]
    BY <1>1, <2>1, <2>4, TurnSell, "redis" \in Stores DEF Stores
  <2>5. CASE /\ phase[r] = "db" /\ row' = row + delta[r] /\ key' = key
             /\ Took(r, "db") /\ phase' = [phase EXCEPT ![r] = "invalidate"]
    BY <1>1, <2>1, <2>5, TurnSell, "db" \in Stores, "db" # "redis" DEF Stores
  <2> QED
    BY <2>2, <2>3, <2>4, <2>5
<1>7. ASSUME NEW r \in Requests, LoadStock(r) \/ DeleteKey(r) \/ SyncStock(r)
      PROVE  TurnInv'
  BY <1>1, <1>7, TurnMove
<1>8. CASE Expire \/ UNCHANGED vars
  <2>1. UNCHANGED <<regime, row, key, phase, op, delta, seen, taken, soldOut>>
    BY <1>8 DEF Expire, vars, requestVars, historyVars
  <2>2. NetTaken' = NetTaken
    BY <2>1, NetSame DEF IInv, Charges
  <2>3. AloneInTurn'
    BY <1>2, <2>1, StillAlone
  <2>4. \A q \in Requests : Placed(q)'
    BY <1>2, <2>1 DEF Placed
  <2>5. ~soldOut' => InOnePlace'
    BY <1>2, <2>1, <2>2, NothingMoves DEF IInv
  <2> QED
    BY <2>3, <2>4, <2>5 DEF TurnInv, Requests
<1>9. CASE Crash
  <2>1. crashes' = crashes + 1
    BY <1>9 DEF Crash
  <2> QED
    BY <1>1, <2>1 DEF Orderly
<1> QED
  BY <1>4, <1>5, <1>6, <1>7, <1>8, <1>9
     DEF Next, Serve, UpdateStock, StartHotdeal, EndHotdeal

\* At first the row has all of the stock and nothing was taken.
LEMMA TurnInit == Init => TurnInv
<1> SUFFICES ASSUME Init PROVE TurnInv
  OBVIOUS
<1>1. IInv
  BY InitIInv
<1>2. NetTaken = 0
  <2>1. \A r \in Requests : Charges[r] = 0
    BY <1>1, ChargeType DEF Init, IInv, ChargeFacts, Stores
  <2> QED
    BY <1>1, <2>1, ChargeType, SumZero DEF IInv, ChargeFacts
<1>3. \A r \in Requests : Placed(r)
  BY DEF Init, Placed
<1>4. AloneInTurn
  BY DEF Init, AloneInTurn, Resting
<1>5. InOnePlace
  BY <1>1, <1>2 DEF Init, InOnePlace, Available, IInv, TypeOK
<1> QED
  BY <1>3, <1>4, <1>5 DEF TurnInv

-----------------------------------------------------------------------------
\* No unit is lost or sold twice in the move between the two stores, for any
\* stock, any amounts and any number of updates, over deals in turn of which
\* none ends sold out.
THEOREM StocksAdd == Spec => []StocksAddUpUnlessSoldOut
<1>1. IInv /\ TypeOK' /\ TurnInv /\ [Next]_vars => TurnInv'
  BY TurnNext
<1>2. IInv /\ TurnInv => StocksAddUpUnlessSoldOut
  <2> SUFFICES ASSUME IInv, TurnInv, Orderly, ~soldOut, ~UnderWay(Ops)
               PROVE  Available + NetTaken = regime.stock
    BY DEF StocksAddUpUnlessSoldOut, StocksAddUp, Orderly
  <2>1. \A r \in Requests : phase[r] \in Resting
    BY DEF UnderWay, IInv, TypeOK
  <2> QED
    BY <2>1 DEF TurnInv, InOnePlace, Resting
<1> QED
  BY <1>1, <1>2, TurnInit, Invariance, TypeCorrect, PTL DEF Spec
=============================================================================
