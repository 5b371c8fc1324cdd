-------------------------- MODULE StockQueue_proofs --------------------------
(***************************************************************************)
(* Theorems about StockQueue, for every set of callers, patchers, products *)
(* and instances, every buffer size and every width of the integer.        *)
(***************************************************************************)
EXTENDS StockQueue, TLAPS

Busy == {"begin", "locked", "written", "reply"}

(***************************************************************************)
(* Whoever is in a channel or in a worker's hands has made a request.      *)
(***************************************************************************)
RequestsMade ==
  /\ \A c \in Callers : caller[c] # "new" => request[c] \in inventory!Request
  /\ \A s \in Servers : \A i \in 1 .. Len(requests[s]) : caller[requests[s][i]] # "new"
  /\ \A s \in Servers : worker[s] \in Busy => job[s] \in Callers /\ caller[job[s]] # "new"
  /\ \A h \in Patchers : patch[h] = "writing" => held[h].product \in Products

(***************************************************************************)
(* While a worker holds its row nobody else moves the stock it read, and   *)
(* it writes only what the check let through.                              *)
(***************************************************************************)
ReadCurrent ==
  \A s \in Servers :
    /\ worker[s] \in {"locked", "written"} => read[s] = stock[Target(s)]
    /\ worker[s] = "written" => NewStock(s) >= 0

IInv ==
  /\ TypeOK
  /\ RequestsMade
  /\ LocksOwned
  /\ ReadCurrent
  /\ SerialUpdates

-----------------------------------------------------------------------------
\* An int32 sum is an int32.
LEMMA Int32AddType ==
  ASSUME NEW a \in -MaxInt - 1 .. MaxInt, NEW b \in -MaxInt - 1 .. MaxInt
  PROVE  Int32Add(a, b) \in -MaxInt - 1 .. MaxInt
BY MaxIntAssumption DEF Int32Add, inventory!Int32Add

\* What a worker in a transaction computes is an int32.
LEMMA NewStockType ==
  ASSUME TypeOK, RequestsMade, NEW s \in Servers, worker[s] \in Busy
  PROVE  /\ job[s] \in Callers
         /\ request[job[s]] \in inventory!Request
         /\ Target(s) \in Products
         /\ NewStock(s) \in -MaxInt - 1 .. MaxInt
<1>1. job[s] \in Callers /\ request[job[s]] \in inventory!Request
  BY DEF RequestsMade
<1>2. request[job[s]].product \in Products /\ request[job[s]].delta \in -MaxInt - 1 .. MaxInt
  BY <1>1 DEF inventory!Request, inventory!Int32
<1>3. read[s] \in -MaxInt - 1 .. MaxInt
  BY MaxIntAssumption DEF TypeOK, TypeWorkers
<1> QED
  BY <1>1, <1>2, <1>3, Int32AddType DEF Target, NewStock

\* The invariant holds when an instance has just started.
LEMMA InitIInv == Init => IInv
<1> SUFFICES ASSUME Init PROVE IInv
  OBVIOUS
<1> USE StockAssumption, NoOneAssumption, MaxIntAssumption, FaultAssumption DEF Init
<1>1. TypeOK
  BY DEF TypeOK, TypeRows, TypeChannels, TypeWorkers, TypeCallers, TypeAnswers,
         TypePatches, WorkerStates, CallerStates, PatchStates, Outcomes, Holding,
         inventory!Answers, inventory!Verdicts
<1>2. RequestsMade
  BY DEF RequestsMade, Busy
<1>3. LocksOwned
  BY DEF LocksOwned
<1>4. ReadCurrent
  BY DEF ReadCurrent
<1>5. SerialUpdates
  BY DEF SerialUpdates, Before
<1> QED
  BY <1>1, <1>2, <1>3, <1>4, <1>5 DEF IInv

-----------------------------------------------------------------------------
(***************************************************************************)
(* Frames: which actions can disturb which part of the state.              *)
(***************************************************************************)
\* Only LockRow, Finish and the writes touch the rows and their locks.
LEMMA RowFrame ==
  ASSUME [Next]_vars
  PROVE  \/ \E s \in Servers : LockRow(s) \/ Insufficient(s) \/ Commit(s) \/ DbError(s)
         \/ \E s \in Servers : Crash(s)
         \/ \E h \in Patchers : PatchWrite(h)
         \/ UNCHANGED rowVars
BY DEF Next, UpdateStock, Work, Patch, Call, Enqueue, EndContext, GiveUpEnqueue,
       GiveUpWait, Receive, Return, Take, WriteRow, Reply, Restart, PatchRead, vars

\* Only Enqueue, Take and Crash touch the channels.
LEMMA ChannelFrame ==
  ASSUME [Next]_vars
  PROVE  \/ \E c \in Callers : Enqueue(c)
         \/ \E s \in Servers : Take(s) \/ Crash(s)
         \/ UNCHANGED channelVars
BY DEF Next, UpdateStock, Work, Patch, Call, EndContext, GiveUpEnqueue, GiveUpWait,
       Receive, Return, LockRow, Insufficient, WriteRow, Commit, DbError, Finish,
       Reply, Restart, PatchRead, PatchWrite, vars, channelVars

\* Only a worker, or its death and restart, changes a worker.
LEMMA WorkerFrame ==
  ASSUME [Next]_vars
  PROVE  \/ \E s \in Servers : Work(s) \/ Crash(s) \/ Restart(s)
         \/ UNCHANGED workerVars
BY DEF Next, UpdateStock, Patch, Call, Enqueue, EndContext, GiveUpEnqueue, GiveUpWait,
       Receive, Return, PatchRead, PatchWrite, vars

\* Only the caller's own steps, or its server's death, change a caller.
LEMMA CallerFrame ==
  ASSUME [Next]_vars
  PROVE  \/ \E c \in Callers : UpdateStock(c)
         \/ \E s \in Servers : Crash(s)
         \/ UNCHANGED callerVars
BY DEF Next, Work, Patch, Take, LockRow, Insufficient, WriteRow, Commit, DbError,
       Finish, Reply, Restart, PatchRead, PatchWrite, vars

\* Only Insufficient, Commit and Reply decide a request or answer it.
LEMMA AnswerFrame ==
  ASSUME [Next]_vars
  PROVE  \/ \E s \in Servers : Reply(s) \/ Insufficient(s) \/ Commit(s)
         \/ UNCHANGED <<response, verdict>>
BY DEF Next, UpdateStock, Work, Patch, Call, Enqueue, EndContext, GiveUpEnqueue,
       GiveUpWait, Receive, Return, Take, LockRow, WriteRow, DbError, Finish, Crash,
       Restart, PatchRead, PatchWrite, vars

\* Only an HTTP handler changes what it holds.
LEMMA PatchFrame ==
  ASSUME [Next]_vars
  PROVE  (\E h \in Patchers : Patch(h)) \/ UNCHANGED patchVars
<1>1. ASSUME NEW c \in Callers, UpdateStock(c) PROVE UNCHANGED patchVars
  BY <1>1 DEF UpdateStock, Call, Enqueue, EndContext, GiveUpEnqueue, GiveUpWait,
              Receive, Return
<1>2. ASSUME NEW s \in Servers, Work(s) PROVE UNCHANGED patchVars
  BY <1>2 DEF Work, Take, LockRow, Insufficient, WriteRow, Commit, DbError, Finish, Reply
<1>3. ASSUME NEW s \in Servers, Crash(s) \/ Restart(s) PROVE UNCHANGED patchVars
  BY <1>3 DEF Crash, Restart
<1> QED
  BY <1>1, <1>2, <1>3 DEF Next, vars

\* Only Crash counts crashes.
LEMMA CrashFrame ==
  ASSUME [Next]_vars
  PROVE  (\E s \in Servers : Crash(s)) \/ UNCHANGED crashes
BY DEF Next, UpdateStock, Work, Patch, Call, Enqueue, EndContext, GiveUpEnqueue,
       GiveUpWait, Receive, Return, Take, LockRow, Insufficient, WriteRow, Commit,
       DbError, Finish, Reply, Restart, PatchRead, PatchWrite, vars

-----------------------------------------------------------------------------
(* The types are kept. *)

\* The rows, their locks and their logs keep their types.
LEMMA TypeRowsNext ==
  ASSUME TypeOK, RequestsMade, ReadCurrent, [Next]_vars
  PROVE  TypeRows'
<1> USE DEF TypeRows
<1>t. TypeRows
  BY DEF TypeOK
<1>1. ASSUME NEW s \in Servers, LockRow(s) PROVE TypeRows'
  <2>1. Target(s) \in Products
    BY <1>1, NewStockType DEF LockRow, Busy
  <2> QED
    BY <1>1, <1>t, <2>1 DEF LockRow
<1>2. ASSUME NEW s \in Servers, Insufficient(s) PROVE TypeRows'
  BY <1>2, <1>t DEF Insufficient, Finish, Unlock
<1>3. ASSUME NEW s \in Servers, Commit(s) PROVE TypeRows'
  <2>1. job[s] \in Callers /\ Target(s) \in Products /\ NewStock(s) \in 0 .. MaxInt
    BY <1>3, NewStockType, MaxIntAssumption DEF Commit, Busy, ReadCurrent
  <2>2. read[s] \in 0 .. MaxInt
    BY DEF TypeOK, TypeWorkers
  <2>3. [by |-> job[s], read |-> read[s], wrote |-> NewStock(s)] \in Write
    BY <2>1, <2>2 DEF Write
  <2>4. stock' \in [Products -> 0 .. MaxInt] /\ log' \in [Products -> Seq(Write)]
    BY <1>3, <1>t, <2>1, <2>3 DEF Commit
  <2>5. lock' = Unlock(s)
    BY <1>3 DEF Commit, Finish
  <2> QED
    BY <1>t, <2>4, <2>5 DEF Unlock
<1>4. ASSUME NEW s \in Servers, DbError(s) PROVE TypeRows'
  BY <1>4, <1>t DEF DbError, Finish, Unlock
<1>5. ASSUME NEW s \in Servers, Crash(s) PROVE TypeRows'
  BY <1>5, <1>t DEF Crash, Unlock
<1>6. ASSUME NEW h \in Patchers, PatchWrite(h) PROVE TypeRows'
  <2>1. /\ held[h].product \in Products
        /\ held[h].read \in 0 .. MaxInt
        /\ held[h].wrote \in 0 .. MaxInt
    BY <1>6 DEF PatchWrite, RequestsMade, TypeOK, TypePatches, Holding
  <2>2. [by |-> h, read |-> held[h].read, wrote |-> held[h].wrote] \in Write
    BY <2>1 DEF Write
  <2> QED
    BY <1>6, <1>t, <2>1, <2>2 DEF PatchWrite
<1>7. CASE UNCHANGED rowVars
  BY <1>7, <1>t DEF rowVars
<1> QED
  BY <1>1, <1>2, <1>3, <1>4, <1>5, <1>6, <1>7, RowFrame

\* The channels keep their types.
LEMMA TypeChannelsNext ==
  ASSUME TypeOK, RequestsMade, [Next]_vars
  PROVE  TypeChannels'
<1> USE DEF TypeChannels
<1>t. TypeChannels
  BY DEF TypeOK
<1>1. ASSUME NEW c \in Callers, Enqueue(c) PROVE TypeChannels'
  <2>1. request[c].at \in Servers
    BY <1>1 DEF Enqueue, RequestsMade, inventory!Request
  <2> QED
    BY <1>1, <1>t, <2>1 DEF Enqueue
<1>2. ASSUME NEW s \in Servers, Take(s) PROVE TypeChannels'
  BY <1>2, <1>t DEF Take
<1>3. ASSUME NEW s \in Servers, Crash(s) PROVE TypeChannels'
  BY <1>3, <1>t DEF Crash
<1>4. CASE UNCHANGED channelVars
  BY <1>4, <1>t DEF channelVars
<1> QED
  BY <1>1, <1>2, <1>3, <1>4, ChannelFrame

\* The workers keep their types, what a worker read included.
LEMMA TypeWorkersNext ==
  ASSUME TypeOK, RequestsMade, [Next]_vars
  PROVE  TypeWorkers'
<1> USE DEF TypeWorkers, WorkerStates, Outcomes
<1>t. TypeWorkers
  BY DEF TypeOK
<1>1. ASSUME NEW s \in Servers, Take(s) PROVE TypeWorkers'
  <2>1. Head(requests[s]) \in Callers
    BY <1>1 DEF Take, TypeOK, TypeChannels
  <2> QED
    BY <1>1, <1>t, <2>1 DEF Take
<1>2. ASSUME NEW s \in Servers, LockRow(s) PROVE TypeWorkers'
  <2>1. stock[Target(s)] \in 0 .. MaxInt
    BY <1>2, NewStockType DEF LockRow, Busy, TypeOK, TypeRows
  <2> QED
    BY <1>2, <1>t, <2>1 DEF LockRow
<1>3. ASSUME NEW s \in Servers, NEW o \in Outcomes, Finish(s, o) PROVE TypeWorkers'
  BY <1>3, <1>t DEF Finish
<1>4. ASSUME NEW s \in Servers, Insufficient(s) PROVE TypeWorkers'
  BY <1>3, <1>4 DEF Insufficient
<1>5. ASSUME NEW s \in Servers, WriteRow(s) PROVE TypeWorkers'
  BY <1>5, <1>t DEF WriteRow
<1>6. ASSUME NEW s \in Servers, Commit(s) PROVE TypeWorkers'
  BY <1>3, <1>6 DEF Commit
<1>7. ASSUME NEW s \in Servers, DbError(s) PROVE TypeWorkers'
  BY <1>3, <1>7 DEF DbError
<1>8. ASSUME NEW s \in Servers, Reply(s) PROVE TypeWorkers'
  BY <1>8, <1>t DEF Reply
<1>9. ASSUME NEW s \in Servers, Crash(s) \/ Restart(s) PROVE TypeWorkers'
  BY <1>9, <1>t DEF Crash, Restart
<1>10. CASE UNCHANGED workerVars
  BY <1>10, <1>t DEF workerVars
<1> QED
  BY <1>1, <1>2, <1>4, <1>5, <1>6, <1>7, <1>8, <1>9, <1>10, WorkerFrame DEF Work

\* The callers keep their types.
LEMMA TypeCallersNext ==
  ASSUME TypeOK, [Next]_vars
  PROVE  TypeCallers'
<1> USE DEF TypeCallers, CallerStates, inventory!Answers
<1>t. TypeCallers
  BY DEF TypeOK
<1>1. ASSUME NEW c \in Callers, NEW s \in Servers, NEW p \in Products, NEW d \in Deltas,
             Call(c, s, p, d)
      PROVE  TypeCallers'
  <2>1. [product |-> p, delta |-> d, at |-> s] \in inventory!Request
    BY DeltaAssumption DEF inventory!Request, inventory!Int32
  <2> QED
    BY <1>1, <1>t, <2>1 DEF Call
<1>2. ASSUME NEW c \in Callers, Enqueue(c) \/ EndContext(c) PROVE TypeCallers'
  BY <1>2, <1>t DEF Enqueue, EndContext
<1>3. ASSUME NEW c \in Callers, GiveUpEnqueue(c) \/ GiveUpWait(c) PROVE TypeCallers'
  BY <1>3, <1>t DEF GiveUpEnqueue, GiveUpWait, Return
<1>4. ASSUME NEW c \in Callers, Receive(c) PROVE TypeCallers'
  <2>1. response[c] \in inventory!Answers
    BY DEF TypeOK, TypeAnswers, Outcomes
  <2> QED
    BY <1>4, <1>t, <2>1 DEF Receive, Return
<1>5. ASSUME NEW s \in Servers, Crash(s) PROVE TypeCallers'
  BY <1>5, <1>t DEF Crash
<1>6. CASE UNCHANGED callerVars
  BY <1>6, <1>t DEF callerVars
<1> QED
  BY <1>1, <1>2, <1>3, <1>4, <1>5, <1>6, CallerFrame DEF UpdateStock

\* The response channels and the verdicts keep their types.
LEMMA TypeAnswersNext ==
  ASSUME TypeOK, RequestsMade, [Next]_vars
  PROVE  TypeAnswers'
<1> USE DEF TypeAnswers, inventory!Verdicts
<1>t. TypeAnswers
  BY DEF TypeOK
<1>1. ASSUME NEW s \in Servers, Reply(s) PROVE TypeAnswers'
  <2>1. outcome[s] \in Outcomes
    BY DEF TypeOK, TypeWorkers
  <2> QED
    BY <1>1, <1>t, <2>1 DEF Reply
<1>2. ASSUME NEW s \in Servers, Insufficient(s) PROVE TypeAnswers'
  BY <1>2, <1>t DEF Insufficient, Finish
<1>3. ASSUME NEW s \in Servers, Commit(s) PROVE TypeAnswers'
  BY <1>3, <1>t DEF Commit, Finish
<1>4. CASE UNCHANGED <<response, verdict>>
  BY <1>4, <1>t
<1> QED
  BY <1>1, <1>2, <1>3, <1>4, AnswerFrame

\* The HTTP handlers keep their types: what one will write fits the column.
LEMMA TypePatchesNext ==
  ASSUME TypeOK, [Next]_vars
  PROVE  TypePatches'
<1> USE DEF TypePatches, PatchStates
<1>t. TypePatches
  BY DEF TypeOK
<1>1. ASSUME NEW h \in Patchers, NEW p \in Products, NEW d \in Deltas, PatchRead(h, p, d)
      PROVE  TypePatches'
  <2> DEFINE new == Int32Add(stock[p], d)
  <2>1. stock[p] \in 0 .. MaxInt
    BY DEF TypeOK, TypeRows
  <2>2. new \in -MaxInt - 1 .. MaxInt
    BY <2>1, Int32AddType, DeltaAssumption, MaxIntAssumption
  <2> HIDE DEF new
  <2>3. CASE new < 0
    BY <1>1, <1>t, <2>2, <2>3, MaxIntAssumption DEF PatchRead, new
  <2>4. CASE new >= 0
    <3>1. [product |-> p, read |-> stock[p], wrote |-> new] \in Holding
      BY <2>1, <2>2, <2>4, MaxIntAssumption DEF Holding
    <3> QED
      BY <1>1, <1>t, <3>1 DEF PatchRead, new
  <2> QED
    BY <2>2, <2>3, <2>4, MaxIntAssumption
<1>2. ASSUME NEW h \in Patchers, PatchWrite(h) PROVE TypePatches'
  BY <1>2, <1>t DEF PatchWrite
<1>3. CASE UNCHANGED patchVars
  BY <1>3, <1>t DEF patchVars
<1> QED
  BY <1>1, <1>2, <1>3, PatchFrame DEF Patch

\* No step breaks TypeOK.
LEMMA TypeNext ==
  ASSUME TypeOK, RequestsMade, ReadCurrent, [Next]_vars
  PROVE  TypeOK'
<1>1. crashes' \in 0 .. MaxCrashes
  BY CrashFrame, FaultAssumption DEF TypeOK, Crash
<1> QED
  BY <1>1, TypeRowsNext, TypeChannelsNext, TypeWorkersNext, TypeCallersNext,
     TypeAnswersNext, TypePatchesNext DEF TypeOK

-----------------------------------------------------------------------------
(* The rest of the inductive invariant is kept. *)

\* A request, once made, is not changed, and its caller is never new again.
LEMMA RequestsStay ==
  ASSUME TypeOK, [Next]_vars, NEW c \in Callers, caller[c] # "new"
  PROVE  caller'[c] # "new" /\ request'[c] = request[c]
<1> USE DEF TypeOK, TypeCallers
<1>1. ASSUME NEW d \in Callers, UpdateStock(d) PROVE caller'[c] # "new" /\ request'[c] = request[c]
  BY <1>1 DEF UpdateStock, Call, Enqueue, EndContext, GiveUpEnqueue, GiveUpWait, Receive, Return
<1>2. ASSUME NEW s \in Servers, Crash(s) PROVE caller'[c] # "new" /\ request'[c] = request[c]
  BY <1>2 DEF Crash
<1>3. CASE UNCHANGED callerVars
  BY <1>3 DEF callerVars
<1> QED
  BY <1>1, <1>2, <1>3, CallerFrame

\* Whoever is queued, served or waiting has made a request to that instance.
LEMMA RequestsMadeNext ==
  ASSUME TypeOK, RequestsMade, [Next]_vars
  PROVE  RequestsMade'
<1>1. \A c \in Callers : caller'[c] # "new" => request'[c] \in inventory!Request
  <2> SUFFICES ASSUME NEW c \in Callers, caller'[c] # "new", caller[c] = "new"
               PROVE  request'[c] \in inventory!Request
    BY RequestsStay DEF RequestsMade
  <2>1. PICK s \in Servers, p \in Products, d \in Deltas : Call(c, s, p, d)
    <3>1. ASSUME NEW e \in Callers, UpdateStock(e)
          PROVE  \E s \in Servers, p \in Products, d \in Deltas : Call(c, s, p, d)
      BY <3>1 DEF UpdateStock, Call, Enqueue, EndContext, GiveUpEnqueue, GiveUpWait,
                 Receive, Return, TypeOK, TypeCallers
    <3>2. ASSUME NEW s \in Servers, Crash(s) PROVE FALSE
      BY <3>2 DEF Crash, ServedBy
    <3>3. CASE UNCHANGED callerVars
      BY <3>3 DEF callerVars
    <3> QED
      BY <3>1, <3>2, <3>3, CallerFrame
  <2>2. [product |-> p, delta |-> d, at |-> s] \in inventory!Request
    BY DeltaAssumption DEF inventory!Request, inventory!Int32
  <2> QED
    BY <2>1, <2>2 DEF Call, TypeOK, TypeCallers
<1>2. \A s \in Servers : \A i \in 1 .. Len(requests'[s]) : caller'[requests'[s][i]] # "new"
  <2> SUFFICES ASSUME NEW s \in Servers, NEW i \in 1 .. Len(requests'[s])
               PROVE  caller'[requests'[s][i]] # "new"
    OBVIOUS
  <2>t. TypeChannels
    BY DEF TypeOK
  <2>1. ASSUME NEW c \in Callers, Enqueue(c) PROVE caller'[requests'[s][i]] # "new"
    <3>1. CASE request[c].at = s /\ i = Len(requests[s]) + 1
      BY <2>t, <2>1, <3>1 DEF Enqueue, TypeChannels, TypeOK, TypeCallers
    <3>2. CASE ~(request[c].at = s /\ i = Len(requests[s]) + 1)
      <4>1. i \in 1 .. Len(requests[s]) /\ requests'[s][i] = requests[s][i]
        BY <2>t, <2>1, <3>2 DEF Enqueue, TypeChannels
      <4> QED
        BY <2>t, <4>1, RequestsStay DEF RequestsMade, TypeChannels
    <3> QED
      BY <3>1, <3>2
  <2>2. ASSUME NEW u \in Servers, Take(u) PROVE caller'[requests'[s][i]] # "new"
    <3>1. \E j \in 1 .. Len(requests[s]) : requests'[s][i] = requests[s][j]
      BY <2>t, <2>2 DEF Take, TypeChannels
    <3> QED
      BY <2>t, <3>1, RequestsStay DEF RequestsMade, TypeChannels
  <2>3. ASSUME NEW u \in Servers, Crash(u) PROVE caller'[requests'[s][i]] # "new"
    <3>1. i \in 1 .. Len(requests[s]) /\ requests'[s][i] = requests[s][i]
      BY <2>t, <2>3 DEF Crash, TypeChannels
    <3> QED
      BY <2>t, <3>1, RequestsStay DEF RequestsMade, TypeChannels
  <2>4. CASE UNCHANGED channelVars
    BY <2>4, <2>t, RequestsStay DEF RequestsMade, TypeChannels, channelVars
  <2> QED
    BY <2>1, <2>2, <2>3, <2>4, ChannelFrame
<1>3. \A s \in Servers : worker'[s] \in Busy => job'[s] \in Callers /\ caller'[job'[s]] # "new"
  <2> SUFFICES ASSUME NEW s \in Servers, worker'[s] \in Busy
               PROVE  job'[s] \in Callers /\ caller'[job'[s]] # "new"
    OBVIOUS
  <2>t. TypeWorkers
    BY DEF TypeOK
  <2>1. CASE Take(s)
    <3>1. 1 \in 1 .. Len(requests[s]) /\ job'[s] = requests[s][1] /\ requests[s][1] \in Callers
      BY <2>t, <2>1 DEF Take, TypeOK, TypeChannels, TypeWorkers
    <3> QED
      BY <3>1, RequestsStay DEF RequestsMade
  <2>2. CASE ~Take(s)
    <3>1. worker[s] \in Busy /\ job'[s] = job[s]
      <4>1. ASSUME NEW u \in Servers, Work(u) \/ Crash(u) \/ Restart(u)
            PROVE  worker[s] \in Busy /\ job'[s] = job[s]
        BY <2>t, <2>2, <4>1 DEF Work, Take, LockRow, Insufficient, WriteRow, Commit, DbError,
                                Finish, Reply, Crash, Restart, Busy, TypeWorkers
      <4>2. CASE UNCHANGED workerVars
        BY <4>2 DEF workerVars
      <4> QED
        BY <4>1, <4>2, WorkerFrame
    <3> QED
      BY <3>1, RequestsStay DEF RequestsMade
  <2> QED
    BY <2>1, <2>2
<1>4. \A h \in Patchers : patch'[h] = "writing" => held'[h].product \in Products
  <2>t. TypePatches
    BY DEF TypeOK
  <2>1. ASSUME NEW g \in Patchers, Patch(g)
        PROVE  \A h \in Patchers : patch'[h] = "writing" => held'[h].product \in Products
    BY <2>1, <2>t DEF Patch, PatchRead, PatchWrite, RequestsMade, TypePatches
  <2>2. CASE UNCHANGED patchVars
    BY <2>2 DEF patchVars, RequestsMade
  <2> QED
    BY <2>1, <2>2, PatchFrame
<1> QED
  BY <1>1, <1>2, <1>3, <1>4 DEF RequestsMade

\* A worker in a transaction keeps the target it has.
LEMMA TargetStays ==
  ASSUME TypeOK, RequestsMade, [Next]_vars,
         NEW s \in Servers, worker[s] \in Busy, job'[s] = job[s]
  PROVE  /\ Target(s)' = Target(s)
         /\ request'[job[s]] = request[job[s]]
BY RequestsStay DEF RequestsMade, Target

\* No step leaves a row lock behind, or a transaction without its lock.
LEMMA LocksOwnedNext ==
  ASSUME TypeOK, RequestsMade, LocksOwned, [Next]_vars
  PROVE  LocksOwned'
<1> DEFINE Holds(s, p) == worker[s] \in {"locked", "written"} /\ Target(s) = p
<1>w. TypeWorkers /\ TypeRows
  BY DEF TypeOK
<1> SUFFICES ASSUME NEW p \in Products, NEW s \in Servers
             PROVE  (lock[p] = s)' <=> Holds(s, p)'
  BY DEF LocksOwned
<1>h. lock[p] = s <=> Holds(s, p)
  BY DEF LocksOwned
<1>n. NoOne # s
  BY NoOneAssumption
<1>1. ASSUME NEW u \in Servers, Take(u) PROVE (lock[p] = s)' <=> Holds(s, p)'
  <2>1. lock' = lock
    BY <1>1 DEF Take, rowVars
  <2>2. CASE s = u
    BY <1>1, <1>h, <1>w, <2>1, <2>2 DEF Take, TypeWorkers
  <2>3. CASE s # u
    <3>1. worker'[s] = worker[s] /\ job'[s] = job[s]
      BY <1>1, <1>w, <2>3 DEF Take, TypeWorkers
    <3> QED
      BY <1>h, <2>1, <3>1, TargetStays DEF Busy
  <2> QED
    BY <2>2, <2>3
<1>2. ASSUME NEW u \in Servers, LockRow(u) PROVE (lock[p] = s)' <=> Holds(s, p)'
  <2>1. job'[s] = job[s] /\ Target(u) \in Products
    BY <1>2, NewStockType DEF LockRow, Busy
  <2>2. CASE s = u
    <3>1. Target(s)' = Target(s)
      BY <1>2, <2>1, <2>2, TargetStays DEF LockRow, Busy
    <3>2. worker'[s] = "locked" /\ lock' = [lock EXCEPT ![Target(s)] = s]
      BY <1>2, <1>w, <2>2 DEF LockRow, TypeWorkers
    <3>3. worker[s] = "begin"
      BY <1>2, <2>2 DEF LockRow
    <3> QED
      BY <1>h, <1>w, <3>1, <3>2, <3>3 DEF TypeRows
  <2>3. CASE s # u
    <3>1. worker'[s] = worker[s]
      BY <1>2, <1>w, <2>3 DEF LockRow, TypeWorkers
    <3>2. lock'[p] = s <=> lock[p] = s
      BY <1>2, <1>w, <1>n, <2>3, <2>1 DEF LockRow, RowFree, TypeRows
    <3> QED
      BY <1>h, <2>1, <3>1, <3>2, TargetStays DEF Busy
  <2> QED
    BY <2>2, <2>3
<1>3. ASSUME NEW u \in Servers, NEW o, worker[u] \in Busy, Finish(u, o)
      PROVE  (lock[p] = s)' <=> Holds(s, p)'
  <2>1. job'[s] = job[s] /\ lock' = Unlock(u)
    BY <1>3 DEF Finish
  <2>2. CASE s = u
    <3>1. worker'[s] = "reply" /\ lock'[p] # s
      BY <1>3, <1>w, <1>n, <2>1, <2>2 DEF Finish, Unlock, TypeWorkers
    <3> QED
      BY <3>1
  <2>3. CASE s # u
    <3>1. worker'[s] = worker[s] /\ (lock'[p] = s <=> lock[p] = s)
      BY <1>3, <1>w, <1>n, <2>1, <2>3 DEF Finish, Unlock, TypeWorkers
    <3> QED
      BY <1>h, <2>1, <3>1, TargetStays DEF Busy
  <2> QED
    BY <2>2, <2>3
<1>4. ASSUME NEW u \in Servers, Insufficient(u) \/ Commit(u) \/ DbError(u)
      PROVE  (lock[p] = s)' <=> Holds(s, p)'
  BY <1>3, <1>4 DEF Insufficient, Commit, DbError, Busy
<1>5. ASSUME NEW u \in Servers, WriteRow(u) PROVE (lock[p] = s)' <=> Holds(s, p)'
  <2>1. /\ lock' = lock /\ job'[s] = job[s]
        /\ worker'[s] \in {"locked", "written"} <=> worker[s] \in {"locked", "written"}
    BY <1>5, <1>w DEF WriteRow, rowVars, TypeWorkers
  <2> QED
    BY <1>h, <2>1, TargetStays DEF Busy
<1>6. ASSUME NEW u \in Servers, Reply(u) PROVE (lock[p] = s)' <=> Holds(s, p)'
  <2>1. lock' = lock
    BY <1>6 DEF Reply, rowVars
  <2>2. CASE s = u
    BY <1>6, <1>h, <1>w, <2>1, <2>2 DEF Reply, TypeWorkers
  <2>3. CASE s # u
    <3>1. worker'[s] = worker[s] /\ job'[s] = job[s]
      BY <1>6, <1>w, <2>3 DEF Reply, TypeWorkers
    <3> QED
      BY <1>h, <2>1, <3>1, TargetStays DEF Busy
  <2> QED
    BY <2>2, <2>3
<1>7. ASSUME NEW u \in Servers, Crash(u) PROVE (lock[p] = s)' <=> Holds(s, p)'
  <2>1. lock' = Unlock(u)
    BY <1>7 DEF Crash
  <2>2. CASE s = u
    <3>1. worker'[s] = "down" /\ lock'[p] # s
      BY <1>7, <1>w, <1>n, <2>1, <2>2 DEF Crash, Unlock, TypeWorkers
    <3> QED
      BY <3>1
  <2>3. CASE s # u
    <3>1. worker'[s] = worker[s] /\ job'[s] = job[s] /\ (lock'[p] = s <=> lock[p] = s)
      BY <1>7, <1>w, <1>n, <2>1, <2>3 DEF Crash, Unlock, TypeWorkers
    <3> QED
      BY <1>h, <3>1, TargetStays DEF Busy
  <2> QED
    BY <2>2, <2>3
<1>8. ASSUME NEW u \in Servers, Restart(u) PROVE (lock[p] = s)' <=> Holds(s, p)'
  <2>1. lock' = lock /\ job'[s] = job[s] /\ (s # u => worker'[s] = worker[s])
    BY <1>8, <1>w DEF Restart, rowVars, TypeWorkers
  <2>2. s = u => worker[s] = "down" /\ worker'[s] = "idle"
    BY <1>8, <1>w DEF Restart, TypeWorkers
  <2> QED
    BY <1>h, <2>1, <2>2, TargetStays DEF Busy
<1>9. ASSUME UNCHANGED workerVars, UNCHANGED lock PROVE (lock[p] = s)' <=> Holds(s, p)'
  BY <1>9, <1>h, TargetStays DEF workerVars, Busy
<1>10. ASSUME NEW c \in Callers, UpdateStock(c) PROVE UNCHANGED workerVars /\ UNCHANGED lock
  BY <1>10 DEF UpdateStock, Call, Enqueue, EndContext, GiveUpEnqueue, GiveUpWait, Receive,
               Return, rowVars
<1>11. ASSUME NEW h \in Patchers, Patch(h) PROVE UNCHANGED workerVars /\ UNCHANGED lock
  BY <1>11 DEF Patch, PatchRead, PatchWrite, rowVars
<1>12. CASE UNCHANGED vars
  BY <1>9, <1>12 DEF vars, rowVars
<1> QED
  BY <1>1, <1>2, <1>4, <1>5, <1>6, <1>7, <1>8, <1>9, <1>10, <1>11, <1>12 DEF Next, Work

\* A row whose lock is held is moved by nobody but its holder.
LEMMA HeldRowStays ==
  ASSUME TypeOK, RequestsMade, LocksOwned, [Next]_vars,
         NEW s \in Servers, worker[s] \in {"locked", "written"}, ~Commit(s)
  PROVE  stock'[Target(s)] = stock[Target(s)]
<1>1. Target(s) \in Products /\ lock[Target(s)] = s
  BY NewStockType DEF Busy, LocksOwned
<1>2. ASSUME NEW u \in Servers, Commit(u) PROVE stock'[Target(s)] = stock[Target(s)]
  <2>1. Target(u) \in Products /\ lock[Target(u)] = u
    BY <1>2, NewStockType DEF Commit, Busy, LocksOwned
  <2>2. Target(u) # Target(s)
    BY <1>1, <1>2, <2>1
  <2> QED
    BY <1>1, <1>2, <2>2 DEF Commit, TypeOK, TypeRows
<1>3. ASSUME NEW h \in Patchers, PatchWrite(h) PROVE stock'[Target(s)] = stock[Target(s)]
  <2>1. held[h].product # Target(s)
    BY <1>1, <1>3, NoOneAssumption DEF PatchWrite, RowFree
  <2> QED
    BY <1>1, <1>3, <2>1 DEF PatchWrite, TypeOK, TypeRows
<1>4. ASSUME NEW u \in Servers, LockRow(u) \/ Insufficient(u) \/ DbError(u) \/ Crash(u)
      PROVE  stock' = stock
  BY <1>4 DEF LockRow, Insufficient, DbError, Crash
<1>5. CASE UNCHANGED rowVars
  BY <1>5 DEF rowVars
<1> QED
  BY <1>2, <1>3, <1>4, <1>5, RowFrame

\* What a worker read under the lock stays the row's stock until it writes.
LEMMA ReadCurrentNext ==
  ASSUME TypeOK, RequestsMade, LocksOwned, ReadCurrent, [Next]_vars
  PROVE  ReadCurrent'
<1>w. TypeWorkers
  BY DEF TypeOK
<1> SUFFICES ASSUME NEW s \in Servers, worker'[s] \in {"locked", "written"}
             PROVE  /\ read'[s] = stock'[Target(s)']
                    /\ worker'[s] = "written" => NewStock(s)' >= 0
  BY DEF ReadCurrent
<1>1. CASE LockRow(s)
  <2>1. /\ worker[s] = "begin" /\ worker'[s] = "locked"
        /\ read'[s] = stock[Target(s)] /\ stock' = stock /\ job'[s] = job[s]
    BY <1>1, <1>w DEF LockRow, TypeWorkers
  <2> QED
    BY <2>1, TargetStays DEF Busy
<1>2. CASE WriteRow(s)
  <2>1. /\ worker[s] = "locked" /\ NewStock(s) >= 0
        /\ read' = read /\ stock' = stock /\ job' = job
    BY <1>2, NewStockType, MaxIntAssumption DEF WriteRow, rowVars, Short, Busy
  <2> QED
    BY <2>1, TargetStays DEF Busy, ReadCurrent, NewStock
<1>3. CASE ~LockRow(s) /\ ~WriteRow(s)
  <2>1. /\ worker'[s] = worker[s] /\ read'[s] = read[s] /\ job'[s] = job[s]
        /\ ~Commit(s)
    <3>1. ASSUME NEW u \in Servers, Work(u) \/ Crash(u) \/ Restart(u)
          PROVE  worker'[s] = worker[s] /\ read'[s] = read[s] /\ job'[s] = job[s]
      BY <1>3, <1>w, <3>1 DEF Work, Take, LockRow, Insufficient, WriteRow, Commit, DbError,
                              Finish, Reply, Crash, Restart, TypeWorkers
    <3>2. ASSUME UNCHANGED workerVars
          PROVE  worker'[s] = worker[s] /\ read'[s] = read[s] /\ job'[s] = job[s]
      BY <3>2 DEF workerVars
    <3>3. ~Commit(s)
      BY <1>w DEF Commit, Finish, TypeWorkers
    <3> QED
      BY <3>1, <3>2, <3>3, WorkerFrame
  <2>2. Target(s)' = Target(s) /\ NewStock(s)' = NewStock(s)
    BY <2>1, TargetStays DEF Busy, NewStock
  <2> QED
    BY <2>1, <2>2, HeldRowStays DEF ReadCurrent
<1> QED
  BY <1>1, <1>2, <1>3

\* A write computed from the current stock keeps the chain of writes whole,
\* and so does a write that is not a caller's.
LEMMA SerialAppend ==
  ASSUME TypeOK, SerialUpdates, NEW p \in Products, NEW e \in Write,
         log' = [log EXCEPT ![p] = Append(@, e)],
         stock' = [stock EXCEPT ![p] = e.wrote],
         e.by \in Callers => e.read = stock[p]
  PROVE  SerialUpdates'
<1>t. TypeRows
  BY DEF TypeOK
<1> SUFFICES ASSUME NEW q \in Products
             PROVE  /\ \A i \in 1 .. Len(log'[q]) :
                         log'[q][i].by \in Callers => log'[q][i].read = Before(q, i)'
                    /\ stock'[q] = Before(q, Len(log[q]) + 1)'
  BY DEF SerialUpdates
<1>1. CASE q # p
  BY <1>t, <1>1 DEF SerialUpdates, Before, TypeRows
<1>2. CASE q = p
  <2>1. /\ log[p] \in Seq(Write) /\ log'[p] = Append(log[p], e) /\ stock'[p] = e.wrote
    BY <1>t DEF TypeRows
  <2>2. /\ Len(log'[p]) = Len(log[p]) + 1 /\ log'[p][Len(log[p]) + 1] = e
        /\ \A i \in 1 .. Len(log[p]) : log'[p][i] = log[p][i]
    BY <2>1
  <2>3. \A i \in 1 .. Len(log[p]) + 1 : Before(p, i)' = Before(p, i)
    <3> SUFFICES ASSUME NEW i \in 1 .. Len(log[p]) + 1 PROVE Before(p, i)' = Before(p, i)
      OBVIOUS
    <3>1. CASE i = 1
      BY <3>1 DEF Before
    <3>2. CASE i # 1
      <4>1. i - 1 \in 1 .. Len(log[p])
        BY <2>1, <3>2
      <4> QED
        BY <2>2, <3>2, <4>1 DEF Before
    <3> QED
      BY <3>1, <3>2
  <2>4. Before(p, Len(log[p]) + 1)' = e.wrote
    <3>1. /\ Len(log'[p]) + 1 # 1
          /\ (Len(log'[p]) + 1) - 1 = Len(log[p]) + 1
      BY <2>1, <2>2
    <3> QED
      BY <2>2, <3>1 DEF Before
  <2>5. \A i \in 1 .. Len(log[p]) : log[p][i].by \in Callers => log[p][i].read = Before(p, i)
    BY DEF SerialUpdates
  <2>6. stock[p] = Before(p, Len(log[p]) + 1) /\ Len(log[p]) \in Nat
    BY <2>1 DEF SerialUpdates
  <2>7. \A i \in 1 .. Len(log'[p]) : log'[p][i].by \in Callers => log'[p][i].read = Before(p, i)'
    <3> SUFFICES ASSUME NEW i \in 1 .. Len(log[p]) + 1, log'[p][i].by \in Callers
                 PROVE  log'[p][i].read = Before(p, i)
      BY <2>2, <2>3
    <3>1. CASE i = Len(log[p]) + 1
      BY <2>2, <2>6, <3>1
    <3>2. CASE i # Len(log[p]) + 1
      <4>1. i \in 1 .. Len(log[p])
        BY <2>6, <3>2
      <4> QED
        BY <2>2, <2>5, <4>1
    <3> QED
      BY <3>1, <3>2
  <2> QED
    BY <1>2, <2>1, <2>4, <2>7
<1> QED
  BY <1>1, <1>2

\* No step loses an update.
LEMMA SerialUpdatesNext ==
  ASSUME TypeOK, RequestsMade, ReadCurrent, SerialUpdates, [Next]_vars
  PROVE  SerialUpdates'
<1>1. ASSUME NEW s \in Servers, Commit(s) PROVE SerialUpdates'
  <2> DEFINE e == [by |-> job[s], read |-> read[s], wrote |-> NewStock(s)]
  <2>1. job[s] \in Callers /\ Target(s) \in Products /\ NewStock(s) \in 0 .. MaxInt
    BY <1>1, NewStockType, MaxIntAssumption DEF Commit, Busy, ReadCurrent
  <2>2. read[s] \in 0 .. MaxInt /\ read[s] = stock[Target(s)]
    BY <1>1 DEF Commit, ReadCurrent, TypeOK, TypeWorkers
  <2>3. e \in Write
    BY <2>1, <2>2 DEF Write
  <2>4. /\ log' = [log EXCEPT ![Target(s)] = Append(@, e)]
        /\ stock' = [stock EXCEPT ![Target(s)] = e.wrote]
    BY <1>1 DEF Commit
  <2> HIDE DEF e
  <2>5. e.by \in Callers => e.read = stock[Target(s)]
    BY <2>2 DEF e
  <2> QED
    BY <2>1, <2>3, <2>4, <2>5, SerialAppend
<1>2. ASSUME NEW h \in Patchers, PatchWrite(h) PROVE SerialUpdates'
  <2> DEFINE e == [by |-> h, read |-> held[h].read, wrote |-> held[h].wrote]
  <2>1. /\ held[h].product \in Products
        /\ held[h].read \in 0 .. MaxInt
        /\ held[h].wrote \in 0 .. MaxInt
    BY <1>2 DEF PatchWrite, RequestsMade, TypeOK, TypePatches, Holding
  <2>2. e \in Write
    BY <2>1 DEF Write
  <2>3. /\ log' = [log EXCEPT ![held[h].product] = Append(@, e)]
        /\ stock' = [stock EXCEPT ![held[h].product] = e.wrote]
    BY <1>2 DEF PatchWrite
  <2>4. e.by \notin Callers
    BY PatcherAssumption
  <2> HIDE DEF e
  <2> QED
    BY <2>1, <2>2, <2>3, <2>4, SerialAppend
<1>3. CASE UNCHANGED <<stock, log>>
  BY <1>3 DEF SerialUpdates, Before
<1>4. ASSUME NEW u \in Servers, LockRow(u) \/ Insufficient(u) \/ DbError(u) \/ Crash(u)
      PROVE  UNCHANGED <<stock, log>>
  BY <1>4 DEF LockRow, Insufficient, DbError, Crash
<1> QED
  BY <1>1, <1>2, <1>3, <1>4, RowFrame DEF rowVars

-----------------------------------------------------------------------------
\* The invariant is inductive.
LEMMA InductiveStep == IInv /\ [Next]_vars => IInv'
BY TypeNext, RequestsMadeNext, LocksOwnedNext, ReadCurrentNext, SerialUpdatesNext DEF IInv

\* The inductive invariant holds in every reachable state.
THEOREM Invariance == Spec => []IInv
BY InitIInv, InductiveStep, PTL DEF Spec

\* The stock column never leaves 0 .. MaxInt, though Go's int32 sum can wrap,
\* and every other variable keeps its type.
THEOREM TypeCorrect == Spec => []TypeOK
<1>1. IInv => TypeOK
  BY DEF IInv
<1> QED
  BY <1>1, Invariance, PTL

\* No row lock outlives the transaction that took it, on any path.
THEOREM LocksAreOwned == Spec => []LocksOwned
<1>1. IInv => LocksOwned
  BY DEF IInv
<1> QED
  BY <1>1, Invariance, PTL

\* The queue loses no update, with any number of instances, of callers that
\* give up, of crashes, and of HTTP handlers writing beside it.
THEOREM NoLostUpdate == Spec => []SerialUpdates
<1>1. IInv => SerialUpdates
  BY DEF IInv
<1> QED
  BY <1>1, Invariance, PTL
=============================================================================
