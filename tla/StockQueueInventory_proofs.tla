---------------------- MODULE StockQueueInventory_proofs ----------------------
(***************************************************************************)
(* What the callers of StockQueue can rely on, for every set of callers,   *)
(* instances and HTTP handlers: the answers are true, a row is written in  *)
(* the order of entry, and, where no HTTP handler goes around the queue,   *)
(* the whole path implements Inventory.                                    *)
(***************************************************************************)
EXTENDS StockQueue_proofs, Sums_proofs

\* How many requests have left the channel of s, by a worker or a crash.
Taken(s) == Len(entered[s]) - Len(requests[s])

InTransaction == {"begin", "locked", "written"}

(***************************************************************************)
(* A caller enters the channel of its instance, and that one once.         *)
(***************************************************************************)
EnteredOnce ==
  \A s \in Servers : \A m \in 1 .. Len(entered[s]) :
    LET c == entered[s][m] IN
    /\ caller[c] \in {"waiting", "done"} /\ answer[c] # "not_queued"
    /\ request[c].at = s
    /\ \A n \in 1 .. Len(entered[s]) : entered[s][n] = c => n = m

(***************************************************************************)
(* The channel is what entered last; a worker's job entered just before.   *)
(***************************************************************************)
ChannelIsTail ==
  \A s \in Servers :
    /\ Taken(s) \in Nat
    /\ \A i \in 1 .. Len(requests[s]) : requests[s][i] = entered[s][Taken(s) + i]
    /\ worker[s] \in Busy => Taken(s) >= 1 /\ job[s] = entered[s][Taken(s)]

(***************************************************************************)
(* A request is decided only after it left the channel, and the job of a   *)
(* transaction that goes on is not decided yet.                            *)
(***************************************************************************)
Passed(c) ==
  \E s \in Servers : \E m \in 1 .. Taken(s) :
    entered[s][m] = c /\ (worker[s] \in InTransaction => m < Taken(s))
DecidedPassed == \A c \in Callers : verdict[c] # "open" => Passed(c)

(***************************************************************************)
(* The log holds one write of every applied request, and no other's.       *)
(***************************************************************************)
LogAgrees ==
  /\ \A p \in Products : \A i \in 1 .. Len(log[p]) :
       log[p][i].by \in Callers => verdict[log[p][i].by] = "applied"
  /\ \A p, q \in Products : \A i \in 1 .. Len(log[p]), j \in 1 .. Len(log[q]) :
       log[p][i].by = log[q][j].by /\ log[p][i].by \in Callers => p = q /\ i = j
  /\ \A c \in Callers : verdict[c] = "applied" =>
       \E p \in Products : \E i \in 1 .. Len(log[p]) : log[p][i].by = c

(***************************************************************************)
(* A word of the worker, on its way or received, is the verdict.           *)
(***************************************************************************)
Says(word, v) == (word = "ok" => v = "applied") /\ (word = "insufficient" => v = "refused")
AnswersAgree ==
  /\ \A s \in Servers : worker[s] = "reply" => Says(outcome[s], verdict[job[s]])
  /\ \A c \in Callers : Says(response[c], verdict[c]) /\ Says(answer[c], verdict[c])

\* Before its return a caller has no answer, and before its call no request.
CallersOpen ==
  \A c \in Callers :
    /\ caller[c] # "done" => answer[c] = "none"
    /\ caller[c] = "new" => request[c] = NoRequest

HInv ==
  /\ IInv
  /\ EnteredOnce
  /\ ChannelIsTail
  /\ DecidedPassed
  /\ LogAgrees
  /\ AnswersAgree
  /\ CallersOpen

-----------------------------------------------------------------------------
\* The invariant holds when an instance has just started.
LEMMA InitHInv == Init => HInv
<1> SUFFICES ASSUME Init PROVE HInv
  OBVIOUS
<1>1. EnteredOnce
  BY DEF Init, EnteredOnce
<1>2. ChannelIsTail
  BY DEF Init, ChannelIsTail, Taken, Busy
<1>3. DecidedPassed
  BY DEF Init, DecidedPassed
<1>4. LogAgrees
  BY DEF Init, LogAgrees
<1>5. AnswersAgree
  BY DEF Init, AnswersAgree, Says
<1>6. CallersOpen
  BY DEF Init, CallersOpen
<1> QED
  BY <1>1, <1>2, <1>3, <1>4, <1>5, <1>6, InitIInv DEF HInv

\* The job of a transaction that goes on is not decided.
LEMMA JobOpen ==
  ASSUME HInv, NEW s \in Servers, worker[s] \in InTransaction
  PROVE  job[s] \in Callers /\ verdict[job[s]] = "open"
<1>1. job[s] \in Callers /\ worker[s] \in Busy
  BY DEF HInv, IInv, RequestsMade, InTransaction, Busy
<1>2. Taken(s) \in Nat /\ Taken(s) >= 1 /\ job[s] = entered[s][Taken(s)]
      /\ Taken(s) <= Len(entered[s])
  BY <1>1 DEF HInv, IInv, TypeOK, TypeChannels, ChannelIsTail, Taken
<1>3. SUFFICES ASSUME verdict[job[s]] # "open" PROVE FALSE
  BY <1>1
<1>u. PICK u \in Servers : \E m \in 1 .. Taken(u) :
        entered[u][m] = job[s] /\ (worker[u] \in InTransaction => m < Taken(u))
  BY <1>1, <1>3 DEF HInv, DecidedPassed, Passed
<1>4. PICK m \in 1 .. Taken(u) :
        entered[u][m] = job[s] /\ (worker[u] \in InTransaction => m < Taken(u))
  BY <1>u
<1>5. m \in 1 .. Len(entered[u])
  BY <1>4 DEF HInv, IInv, TypeOK, TypeChannels, ChannelIsTail, Taken
<1>6. request[job[s]].at = u /\ request[job[s]].at = s
  BY <1>2, <1>4, <1>5 DEF HInv, EnteredOnce
<1>7. m = Taken(s)
  BY <1>2, <1>4, <1>5, <1>6 DEF HInv, EnteredOnce
<1> QED
  BY <1>2, <1>4, <1>6, <1>7

\* A decision is final.
LEMMA VerdictStays ==
  ASSUME HInv, [Next]_vars, NEW c \in Callers, verdict[c] # "open"
  PROVE  verdict'[c] = verdict[c]
<1>1. ASSUME NEW s \in Servers, Insufficient(s) \/ Commit(s) PROVE verdict'[c] = verdict[c]
  <2>1. job[s] # c
    BY <1>1, JobOpen DEF Insufficient, Commit, InTransaction
  <2> QED
    BY <1>1, <2>1 DEF Insufficient, Commit, HInv, IInv, TypeOK, TypeAnswers
<1>2. ASSUME NEW s \in Servers, Reply(s) PROVE verdict' = verdict
  BY <1>2 DEF Reply
<1> QED
  BY <1>1, <1>2, AnswerFrame

\* Who has entered a channel is not told otherwise.
LEMMA WaitersStay ==
  ASSUME HInv, [Next]_vars, NEW c \in Callers,
         caller[c] \in {"waiting", "done"}, answer[c] # "not_queued"
  PROVE  caller'[c] \in {"waiting", "done"} /\ answer'[c] # "not_queued"
<1> USE DEF HInv, IInv, TypeOK, TypeCallers, TypeAnswers
<1>1. ASSUME NEW d \in Callers, UpdateStock(d)
      PROVE  caller'[c] \in {"waiting", "done"} /\ answer'[c] # "not_queued"
  <2>1. response[d] # "not_queued"
    BY DEF Outcomes
  <2> QED
    BY <1>1, <2>1 DEF UpdateStock, Call, Enqueue, EndContext, GiveUpEnqueue, GiveUpWait,
                      Receive, Return
<1>2. ASSUME NEW s \in Servers, Crash(s)
      PROVE  caller'[c] \in {"waiting", "done"} /\ answer'[c] # "not_queued"
  BY <1>2 DEF Crash
<1>3. CASE UNCHANGED callerVars
  BY <1>3 DEF callerVars
<1> QED
  BY <1>1, <1>2, <1>3, CallerFrame

\* No step lets a caller enter twice.
LEMMA EnteredOnceNext ==
  ASSUME HInv, [Next]_vars
  PROVE  EnteredOnce'
<1>t. entered \in [Servers -> Seq(Callers)]
  BY DEF HInv, IInv, TypeOK, TypeChannels
<1>1. ASSUME NEW s \in Servers, NEW m \in 1 .. Len(entered[s])
      PROVE  LET c == entered[s][m] IN
             /\ c \in Callers
             /\ caller'[c] \in {"waiting", "done"} /\ answer'[c] # "not_queued"
             /\ request'[c].at = s
             /\ \A n \in 1 .. Len(entered[s]) : entered[s][n] = c => n = m
  <2> DEFINE c == entered[s][m]
  <2>1. c \in Callers
    BY <1>t
  <2>2. /\ caller[c] \in {"waiting", "done"} /\ answer[c] # "not_queued" /\ request[c].at = s
        /\ \A n \in 1 .. Len(entered[s]) : entered[s][n] = c => n = m
    BY DEF HInv, EnteredOnce
  <2> HIDE DEF c
  <2>3. caller'[c] \in {"waiting", "done"} /\ answer'[c] # "not_queued" /\ request'[c] = request[c]
    BY <2>1, <2>2, WaitersStay, RequestsStay DEF HInv, IInv
  <2> QED
    BY <2>1, <2>2, <2>3 DEF c
<1>2. ASSUME NEW c \in Callers, Enqueue(c) PROVE EnteredOnce'
  <2> DEFINE s == request[c].at
  <2>1. s \in Servers /\ answer[c] = "none"
    BY <1>2 DEF Enqueue, HInv, IInv, RequestsMade, CallersOpen, inventory!Request
  <2>2. /\ entered' = [entered EXCEPT ![s] = Append(entered[s], c)]
        /\ caller'[c] = "waiting" /\ answer'[c] = "none" /\ request'[c].at = s
    BY <1>2, <2>1 DEF Enqueue, HInv, IInv, TypeOK, TypeCallers
  <2> HIDE DEF s
  <2>3. \A n \in 1 .. Len(entered[s]) : entered[s][n] # c
    BY <1>2, <2>1 DEF Enqueue, HInv, EnteredOnce
  <2>4. /\ Len(entered'[s]) = Len(entered[s]) + 1 /\ entered'[s][Len(entered[s]) + 1] = c
        /\ \A n \in 1 .. Len(entered[s]) : entered'[s][n] = entered[s][n]
        /\ Len(entered[s]) \in Nat
    BY <1>t, <2>1, <2>2
  <2>5. \A u \in Servers : u # s => entered'[u] = entered[u]
    BY <1>t, <2>2
  <2> SUFFICES ASSUME NEW u \in Servers, NEW m \in 1 .. Len(entered'[u])
               PROVE  LET d == entered'[u][m] IN
                      /\ caller'[d] \in {"waiting", "done"} /\ answer'[d] # "not_queued"
                      /\ request'[d].at = u
                      /\ \A n \in 1 .. Len(entered'[u]) : entered'[u][n] = d => n = m
    BY DEF EnteredOnce
  <2>6. CASE u # s
    BY <1>1, <2>5, <2>6
  <2>7. CASE u = s /\ m = Len(entered[s]) + 1
    BY <2>1, <2>2, <2>3, <2>4, <2>7
  <2>8. CASE u = s /\ m # Len(entered[s]) + 1
    <3>1. m \in 1 .. Len(entered[s])
      BY <2>4, <2>8
    <3>2. entered[s][m] # c
      BY <2>3, <3>1
    <3> QED
      BY <1>1, <2>1, <2>4, <2>8, <3>1, <3>2
  <2> QED
    BY <2>6, <2>7, <2>8
<1>3. CASE entered' = entered
  BY <1>1, <1>3 DEF EnteredOnce
<1>4. ASSUME NEW s \in Servers, Take(s) \/ Crash(s) PROVE entered' = entered
  BY <1>4 DEF Take, Crash
<1> QED
  BY <1>2, <1>3, <1>4, ChannelFrame DEF channelVars

\* The channel stays the tail of what entered.
LEMMA ChannelIsTailNext ==
  ASSUME HInv, [Next]_vars
  PROVE  ChannelIsTail'
<1> USE DEF Taken
<1>t. /\ entered \in [Servers -> Seq(Callers)] /\ requests \in [Servers -> Seq(Callers)]
      /\ worker \in [Servers -> WorkerStates] /\ job \in [Servers -> Callers \cup {NoOne}]
  BY DEF HInv, IInv, TypeOK, TypeChannels, TypeWorkers
<1> SUFFICES ASSUME NEW s \in Servers
             PROVE  /\ Taken(s)' \in Nat
                    /\ \A i \in 1 .. Len(requests'[s]) : requests'[s][i] = entered'[s][Taken(s)' + i]
                    /\ worker'[s] \in Busy => Taken(s)' >= 1 /\ job'[s] = entered'[s][Taken(s)']
  BY DEF ChannelIsTail
<1>s. /\ entered[s] \in Seq(Callers) /\ requests[s] \in Seq(Callers)
      /\ Len(entered[s]) \in Nat /\ Len(requests[s]) \in Nat
      /\ Taken(s) \in Nat /\ Taken(s) = Len(entered[s]) - Len(requests[s])
      /\ \A i \in 1 .. Len(requests[s]) : requests[s][i] = entered[s][Taken(s) + i]
      /\ worker[s] \in Busy => Taken(s) >= 1 /\ job[s] = entered[s][Taken(s)]
  BY <1>t DEF HInv, ChannelIsTail, Taken
<1>n. /\ Len(entered[s]) \in Nat /\ Len(requests[s]) \in Nat
      /\ Taken(s) \in Nat /\ Taken(s) = Len(entered[s]) - Len(requests[s])
  BY <1>s
<1>1. CASE Take(s)
  <2>1. /\ requests[s] # <<>> /\ requests'[s] = Tail(requests[s]) /\ entered'[s] = entered[s]
        /\ job'[s] = Head(requests[s])
    BY <1>1, <1>t DEF Take
  <2>2. /\ Len(requests'[s]) = Len(requests[s]) - 1 /\ Len(requests[s]) >= 1
        /\ job'[s] = requests[s][1]
        /\ \A i \in 1 .. Len(requests'[s]) : requests'[s][i] = requests[s][i + 1]
    BY <1>s, <2>1
  <2>3. Taken(s)' = Taken(s) + 1
    BY <1>t, <1>n, <2>1, <2>2 DEF Taken
  <2>4. 1 \in 1 .. Len(requests[s])
    BY <1>t, <1>n, <2>2
  <2>5. job'[s] = entered[s][Taken(s) + 1]
    BY <1>s, <2>2, <2>4
  <2>6. ASSUME NEW i \in 1 .. Len(requests'[s])
        PROVE  requests'[s][i] = entered'[s][(Taken(s) + 1) + i]
    <3>1. i + 1 \in 1 .. Len(requests[s]) /\ Taken(s) + (i + 1) = (Taken(s) + 1) + i
      BY <1>t, <1>n, <2>2
    <3>2. requests'[s][i] = entered[s][Taken(s) + (i + 1)]
      BY <1>s, <2>2, <3>1
    <3> QED
      BY <2>1, <3>1, <3>2
  <2> QED
    BY <1>t, <1>n, <2>1, <2>3, <2>5, <2>6
<1>2. CASE Crash(s)
  <2>1. requests'[s] = <<>> /\ entered'[s] = entered[s] /\ worker'[s] = "down"
    BY <1>2, <1>t DEF Crash
  <2> QED
    BY <1>s, <2>1 DEF Taken, Busy
<1>3. ASSUME NEW c \in Callers, Enqueue(c), request[c].at = s
      PROVE  /\ Taken(s)' \in Nat
             /\ \A i \in 1 .. Len(requests'[s]) : requests'[s][i] = entered'[s][Taken(s)' + i]
             /\ worker'[s] \in Busy => Taken(s)' >= 1 /\ job'[s] = entered'[s][Taken(s)']
  <2>1. /\ requests'[s] = Append(requests[s], c) /\ entered'[s] = Append(entered[s], c)
        /\ worker' = worker /\ job' = job
    BY <1>3, <1>t DEF Enqueue, workerVars
  <2>2. /\ Len(requests'[s]) = Len(requests[s]) + 1 /\ Len(entered'[s]) = Len(entered[s]) + 1
        /\ \A i \in 1 .. Len(requests[s]) : requests'[s][i] = requests[s][i]
        /\ \A i \in 1 .. Len(entered[s]) : entered'[s][i] = entered[s][i]
        /\ requests'[s][Len(requests[s]) + 1] = c /\ entered'[s][Len(entered[s]) + 1] = c
    BY <1>s, <2>1
  <2>3. Taken(s)' = Taken(s)
    BY <1>s, <2>2 DEF Taken
  <2>4. ASSUME NEW i \in 1 .. Len(requests'[s]) PROVE requests'[s][i] = entered'[s][Taken(s) + i]
    <3>1. CASE i = Len(requests[s]) + 1
      <4>1. Taken(s) + i = Len(entered[s]) + 1
        BY <1>t, <1>n, <3>1
      <4> QED
        BY <2>2, <3>1, <4>1
    <3>2. CASE i # Len(requests[s]) + 1
      <4>1. i \in 1 .. Len(requests[s]) /\ Taken(s) + i \in 1 .. Len(entered[s])
        BY <1>t, <1>n, <2>2, <3>2
      <4> QED
        BY <1>s, <2>2, <4>1
    <3> QED
      BY <3>1, <3>2
  <2>5. worker'[s] \in Busy => Taken(s) >= 1 /\ job'[s] = entered'[s][Taken(s)]
    <3>1. Taken(s) >= 1 => Taken(s) \in 1 .. Len(entered[s])
      BY <1>t, <1>n
    <3> QED
      BY <1>s, <2>1, <2>2, <3>1
  <2> QED
    BY <1>s, <2>3, <2>4, <2>5
<1>4. CASE /\ requests'[s] = requests[s] /\ entered'[s] = entered[s]
           /\ worker'[s] \in Busy => worker[s] \in Busy /\ job'[s] = job[s]
  <2>1. Taken(s)' = Taken(s)
    BY <1>4 DEF Taken
  <2> QED
    BY <1>4, <1>s, <2>1
<1>5. ASSUME ~Take(s), ~Crash(s), ~\E c \in Callers : Enqueue(c) /\ request[c].at = s
      PROVE  requests'[s] = requests[s] /\ entered'[s] = entered[s]
  <2>1. ASSUME NEW c \in Callers, Enqueue(c) PROVE requests'[s] = requests[s] /\ entered'[s] = entered[s]
    BY <1>5, <1>t, <2>1 DEF Enqueue
  <2>2. ASSUME NEW u \in Servers, Take(u) \/ Crash(u)
        PROVE  requests'[s] = requests[s] /\ entered'[s] = entered[s]
    BY <1>5, <1>t, <2>2 DEF Take, Crash
  <2> QED
    BY <2>1, <2>2, ChannelFrame DEF channelVars
<1>6. ASSUME ~Take(s)
      PROVE  worker'[s] \in Busy => worker[s] \in Busy /\ job'[s] = job[s]
  <2>1. ASSUME NEW u \in Servers, Work(u) \/ Crash(u) \/ Restart(u)
        PROVE  worker'[s] \in Busy => worker[s] \in Busy /\ job'[s] = job[s]
    BY <1>t, <1>6, <2>1 DEF Work, Take, LockRow, Insufficient, WriteRow, Commit, DbError,
                            Finish, Reply, Crash, Restart, Busy
  <2> QED
    BY <2>1, WorkerFrame DEF workerVars
<1> QED
  BY <1>1, <1>2, <1>3, <1>4, <1>5, <1>6

\* Who has passed the channel of its instance stays past it.
LEMMA PassedStays ==
  ASSUME HInv, [Next]_vars, NEW c \in Callers, Passed(c)
  PROVE  Passed(c)'
<1>t. /\ entered \in [Servers -> Seq(Callers)] /\ requests \in [Servers -> Seq(Callers)]
      /\ worker \in [Servers -> WorkerStates]
  BY DEF HInv, IInv, TypeOK, TypeChannels, TypeWorkers
<1>1. PICK s \in Servers :
        \E m \in 1 .. Taken(s) : entered[s][m] = c /\ (worker[s] \in InTransaction => m < Taken(s))
  BY DEF Passed
<1>2. PICK m \in 1 .. Taken(s) :
        entered[s][m] = c /\ (worker[s] \in InTransaction => m < Taken(s))
  BY <1>1
<1> SUFFICES /\ m \in 1 .. Taken(s)' /\ entered'[s][m] = c
             /\ worker'[s] \in InTransaction => m < Taken(s)'
  BY DEF Passed
<1>3. /\ Len(entered[s]) \in Nat /\ Len(requests[s]) \in Nat
      /\ m \in 1 .. Len(entered[s]) /\ m \in Nat
      /\ m >= 1 /\ m <= Len(entered[s]) - Len(requests[s])
      /\ worker[s] \in InTransaction => m < Len(entered[s]) - Len(requests[s])
  BY <1>t, <1>2 DEF Taken
<1>4. CASE Take(s)
  <2>1. /\ requests[s] # <<>> /\ requests'[s] = Tail(requests[s]) /\ entered'[s] = entered[s]
    BY <1>4, <1>t DEF Take
  <2>2. Len(requests'[s]) = Len(requests[s]) - 1
    BY <1>t, <2>1
  <2>3. Taken(s)' = (Len(entered[s]) - Len(requests[s])) + 1
    BY <1>t, <1>3, <2>1, <2>2 DEF Taken
  <2>4. /\ m \in 1 .. (Len(entered[s]) - Len(requests[s])) + 1
        /\ m < (Len(entered[s]) - Len(requests[s])) + 1
    BY <1>t, <1>3
  <2> QED
    BY <1>2, <2>1, <2>3, <2>4
<1>5. CASE Crash(s)
  <2>1. requests'[s] = <<>> /\ entered'[s] = entered[s] /\ worker'[s] = "down"
    BY <1>5, <1>t DEF Crash
  <2>2. Taken(s)' = Len(entered[s])
    BY <1>t, <1>3, <2>1 DEF Taken
  <2> QED
    BY <1>2, <1>3, <2>1, <2>2 DEF InTransaction
<1>6. CASE ~Take(s) /\ ~Crash(s)
  <2>1. worker'[s] \in InTransaction => worker[s] \in InTransaction
    <3>1. ASSUME NEW u \in Servers, Work(u) \/ Crash(u) \/ Restart(u)
          PROVE  worker'[s] \in InTransaction => worker[s] \in InTransaction
      BY <1>t, <1>6, <3>1 DEF Work, Take, LockRow, Insufficient, WriteRow, Commit, DbError,
                              Finish, Reply, Crash, Restart, InTransaction
    <3> QED
      BY <3>1, WorkerFrame DEF workerVars
  <2>2. entered'[s][m] = c /\ Taken(s)' = Len(entered[s]) - Len(requests[s])
    <3>1. ASSUME NEW d \in Callers, Enqueue(d), request[d].at = s
          PROVE  entered'[s][m] = c /\ Taken(s)' = Len(entered[s]) - Len(requests[s])
      <4>1. entered'[s] = Append(entered[s], d) /\ requests'[s] = Append(requests[s], d)
        BY <1>t, <3>1 DEF Enqueue
      <4>2. /\ Len(entered'[s]) = Len(entered[s]) + 1 /\ Len(requests'[s]) = Len(requests[s]) + 1
            /\ entered'[s][m] = entered[s][m]
        BY <1>t, <1>3, <4>1
      <4> QED
        BY <1>t, <1>2, <1>3, <4>2 DEF Taken
    <3>2. ASSUME entered'[s] = entered[s], requests'[s] = requests[s]
          PROVE  entered'[s][m] = c /\ Taken(s)' = Len(entered[s]) - Len(requests[s])
      BY <1>2, <3>2 DEF Taken
    <3>3. ASSUME NEW d \in Callers, Enqueue(d), request[d].at # s
          PROVE  entered'[s] = entered[s] /\ requests'[s] = requests[s]
      BY <1>t, <3>3 DEF Enqueue
    <3>4. ASSUME NEW u \in Servers, Take(u) \/ Crash(u)
          PROVE  entered'[s] = entered[s] /\ requests'[s] = requests[s]
      BY <1>t, <1>6, <3>4 DEF Take, Crash
    <3> QED
      BY <3>1, <3>2, <3>3, <3>4, ChannelFrame DEF channelVars
  <2>3. m \in 1 .. Len(entered[s]) - Len(requests[s])
    BY <1>t, <1>3
  <2> QED
    BY <1>3, <2>1, <2>2, <2>3
<1> QED
  BY <1>4, <1>5, <1>6

\* A request is decided only once it left the channel.
LEMMA DecidedPassedNext ==
  ASSUME HInv, [Next]_vars
  PROVE  DecidedPassed'
<1>t. /\ entered \in [Servers -> Seq(Callers)] /\ requests \in [Servers -> Seq(Callers)]
      /\ worker \in [Servers -> WorkerStates] /\ verdict \in [Callers -> inventory!Verdicts]
  BY DEF HInv, IInv, TypeOK, TypeChannels, TypeWorkers, TypeAnswers
<1> SUFFICES ASSUME NEW c \in Callers, verdict'[c] # "open" PROVE Passed(c)'
  BY DEF DecidedPassed
<1>1. CASE verdict[c] # "open"
  BY <1>1, PassedStays DEF HInv, DecidedPassed
<1>2. CASE verdict[c] = "open"
  <2>1. PICK s \in Servers : (Insufficient(s) \/ Commit(s)) /\ job[s] = c
    <3>1. ASSUME NEW s \in Servers, Insufficient(s) \/ Commit(s) PROVE job[s] = c
      BY <1>t, <1>2, <3>1 DEF Insufficient, Commit
    <3>2. ASSUME NEW s \in Servers, Reply(s) PROVE FALSE
      BY <1>2, <3>2 DEF Reply
    <3> QED
      BY <1>2, <3>1, <3>2, AnswerFrame
  <2>2. /\ worker[s] \in Busy /\ worker'[s] = "reply"
        /\ entered' = entered /\ requests' = requests
    BY <1>t, <2>1 DEF Insufficient, Commit, Finish, channelVars, Busy
  <2>3. Taken(s) \in Nat /\ Taken(s) >= 1 /\ entered[s][Taken(s)] = c
    BY <2>1, <2>2 DEF HInv, ChannelIsTail
  <2>4. Taken(s)' = Taken(s)
    BY <2>2 DEF Taken
  <2>5. Taken(s) \in 1 .. Taken(s)
    BY <1>t, <2>3 DEF Taken
  <2> QED
    BY <2>2, <2>3, <2>4, <2>5 DEF Passed, InTransaction
<1> QED
  BY <1>1, <1>2

\* The log gains a write exactly when a request is applied.
LEMMA LogAgreesNext ==
  ASSUME HInv, [Next]_vars
  PROVE  LogAgrees'
<1>t. /\ log \in [Products -> Seq(Write)] /\ verdict \in [Callers -> inventory!Verdicts]
  BY DEF HInv, IInv, TypeOK, TypeRows, TypeAnswers
<1>l. LogAgrees
  BY DEF HInv
<1>0. ASSUME NEW p \in Products, NEW e, log' = [log EXCEPT ![p] = Append(log[p], e)]
      PROVE  /\ Len(log[p]) \in Nat /\ Len(log'[p]) = Len(log[p]) + 1
             /\ log'[p][Len(log[p]) + 1] = e
             /\ \A i \in 1 .. Len(log[p]) : log'[p][i] = log[p][i]
             /\ \A q \in Products : q # p => log'[q] = log[q]
  BY <1>0, <1>t
<1>1. ASSUME NEW s \in Servers, Commit(s) PROVE LogAgrees'
  <2> DEFINE p == Target(s)
             e == [by |-> job[s], read |-> read[s], wrote |-> NewStock(s)]
             n == Len(log[p]) + 1
  <2>1. job[s] \in Callers /\ verdict[job[s]] = "open" /\ p \in Products /\ e.by = job[s]
    BY <1>1, JobOpen, NewStockType DEF Commit, InTransaction, Busy, HInv, IInv
  <2>2. /\ log' = [log EXCEPT ![p] = Append(log[p], e)]
        /\ verdict' = [verdict EXCEPT ![job[s]] = "applied"]
    BY <1>1 DEF Commit
  <2> HIDE DEF p, e
  <2>3. /\ Len(log[p]) \in Nat /\ Len(log'[p]) = n /\ log'[p][n] = e
        /\ \A i \in 1 .. Len(log[p]) : log'[p][i] = log[p][i]
        /\ \A q \in Products : q # p => log'[q] = log[q]
    BY <1>0, <2>1, <2>2
  <2>4. \A q \in Products : \A i \in 1 .. Len(log'[q]) :
          (q = p /\ i = n /\ log'[q][i].by = job[s])
          \/ (i \in 1 .. Len(log[q]) /\ log'[q][i] = log[q][i] /\ ~(q = p /\ i = n))
    BY <2>1, <2>3
  <2>5. \A q \in Products : \A i \in 1 .. Len(log[q]) :
          i \in 1 .. Len(log'[q]) /\ log'[q][i] = log[q][i] /\ log[q][i].by # job[s]
    BY <1>l, <2>1, <2>3 DEF LogAgrees
  <2>6. n \in 1 .. Len(log'[p])
    BY <2>3
  <2>7. \A c \in Callers : verdict'[c] = IF c = job[s] THEN "applied" ELSE verdict[c]
    BY <1>t, <2>1, <2>2
  <2> HIDE DEF n
  <2>8. \A q \in Products : \A i \in 1 .. Len(log'[q]) :
          log'[q][i].by \in Callers => verdict'[log'[q][i].by] = "applied"
    BY <1>l, <2>4, <2>7 DEF LogAgrees
  <2>9. \A q, r \in Products : \A i \in 1 .. Len(log'[q]), j \in 1 .. Len(log'[r]) :
          log'[q][i].by = log'[r][j].by /\ log'[q][i].by \in Callers => q = r /\ i = j
    <3> SUFFICES ASSUME NEW q \in Products, NEW r \in Products,
                        NEW i \in 1 .. Len(log'[q]), NEW j \in 1 .. Len(log'[r]),
                        log'[q][i].by = log'[r][j].by, log'[q][i].by \in Callers
                 PROVE  q = r /\ i = j
      OBVIOUS
    <3>1. CASE q = p /\ i = n
      BY <2>4, <2>5, <3>1
    <3>2. CASE r = p /\ j = n
      BY <2>4, <2>5, <3>2
    <3>3. CASE ~(q = p /\ i = n) /\ ~(r = p /\ j = n)
      <4>1. /\ i \in 1 .. Len(log[q]) /\ log'[q][i] = log[q][i]
            /\ j \in 1 .. Len(log[r]) /\ log'[r][j] = log[r][j]
        BY <2>4, <3>3
      <4> QED
        BY <1>l, <4>1 DEF LogAgrees
    <3> QED
      BY <3>1, <3>2, <3>3
  <2>10. \A c \in Callers : verdict'[c] = "applied" =>
           \E q \in Products : \E i \in 1 .. Len(log'[q]) : log'[q][i].by = c
    BY <1>l, <2>1, <2>3, <2>5, <2>6, <2>7 DEF LogAgrees
  <2> QED
    BY <2>8, <2>9, <2>10 DEF LogAgrees
<1>2. ASSUME NEW h \in Patchers, PatchWrite(h) PROVE LogAgrees'
  <2> DEFINE p == held[h].product
             e == [by |-> h, read |-> held[h].read, wrote |-> held[h].wrote]
             n == Len(log[p]) + 1
  <2>1. p \in Products /\ e.by = h /\ h \notin Callers
    BY <1>2, PatcherAssumption DEF PatchWrite, HInv, IInv, RequestsMade
  <2>2. log' = [log EXCEPT ![p] = Append(log[p], e)] /\ verdict' = verdict
    BY <1>2 DEF PatchWrite
  <2> HIDE DEF p, e
  <2>3. /\ Len(log[p]) \in Nat /\ Len(log'[p]) = n /\ log'[p][n] = e
        /\ \A i \in 1 .. Len(log[p]) : log'[p][i] = log[p][i]
        /\ \A q \in Products : q # p => log'[q] = log[q]
    BY <1>0, <2>1, <2>2
  <2>4. \A q \in Products : \A i \in 1 .. Len(log'[q]) :
          log'[q][i].by \notin Callers
          \/ (i \in 1 .. Len(log[q]) /\ log'[q][i] = log[q][i])
    BY <2>1, <2>3
  <2>5. \A q \in Products : \A i \in 1 .. Len(log[q]) :
          i \in 1 .. Len(log'[q]) /\ log'[q][i] = log[q][i]
    BY <2>1, <2>3
  <2>6. \A q \in Products : \A i \in 1 .. Len(log'[q]) :
          log'[q][i].by \in Callers => verdict'[log'[q][i].by] = "applied"
    BY <1>l, <2>2, <2>4 DEF LogAgrees
  <2>7. \A q, r \in Products : \A i \in 1 .. Len(log'[q]), j \in 1 .. Len(log'[r]) :
          log'[q][i].by = log'[r][j].by /\ log'[q][i].by \in Callers => q = r /\ i = j
    <3> SUFFICES ASSUME NEW q \in Products, NEW r \in Products,
                        NEW i \in 1 .. Len(log'[q]), NEW j \in 1 .. Len(log'[r]),
                        log'[q][i].by = log'[r][j].by, log'[q][i].by \in Callers
                 PROVE  q = r /\ i = j
      OBVIOUS
    <3>1. /\ i \in 1 .. Len(log[q]) /\ log'[q][i] = log[q][i]
          /\ j \in 1 .. Len(log[r]) /\ log'[r][j] = log[r][j]
      BY <2>4
    <3> QED
      BY <1>l, <3>1 DEF LogAgrees
  <2>8. \A c \in Callers : verdict'[c] = "applied" =>
           \E q \in Products : \E i \in 1 .. Len(log'[q]) : log'[q][i].by = c
    BY <1>l, <2>2, <2>5 DEF LogAgrees
  <2> QED
    BY <2>6, <2>7, <2>8 DEF LogAgrees
<1>3. ASSUME NEW s \in Servers, Insufficient(s) PROVE LogAgrees'
  <2>1. /\ log' = log /\ job[s] \in Callers /\ verdict[job[s]] = "open"
        /\ verdict' = [verdict EXCEPT ![job[s]] = "refused"]
    BY <1>3, JobOpen DEF Insufficient, InTransaction
  <2> QED
    BY <1>t, <1>l, <2>1 DEF LogAgrees
<1>4. CASE UNCHANGED <<log, verdict>>
  BY <1>l, <1>4 DEF LogAgrees
<1>5. ASSUME ~\E s \in Servers : Commit(s) \/ Insufficient(s), ~\E h \in Patchers : PatchWrite(h)
      PROVE  UNCHANGED <<log, verdict>>
  <2>1. log' = log
    BY <1>5, RowFrame DEF rowVars, LockRow, DbError, Crash
  <2>2. verdict' = verdict
    BY <1>5, AnswerFrame DEF Reply
  <2> QED
    BY <2>1, <2>2
<1> QED
  BY <1>1, <1>2, <1>3, <1>4, <1>5
\* Words and verdicts agree.
LEMMA AnswersAgreeNext ==
  ASSUME HInv, [Next]_vars
  PROVE  AnswersAgree'
<1>t. /\ verdict \in [Callers -> inventory!Verdicts] /\ response \in [Callers -> Outcomes]
      /\ answer \in [Callers -> inventory!Answers] /\ worker \in [Servers -> WorkerStates]
      /\ outcome \in [Servers -> Outcomes] /\ job \in [Servers -> Callers \cup {NoOne}]
  BY DEF HInv, IInv, TypeOK, TypeWorkers, TypeAnswers, TypeCallers
<1>a. AnswersAgree
  BY DEF HInv
<1>0. ASSUME NEW c \in Callers, NEW word, Says(word, verdict[c]) PROVE Says(word, verdict'[c])
  BY <1>0, VerdictStays DEF Says
<1>1. ASSUME NEW s \in Servers, worker'[s] = "reply" PROVE Says(outcome'[s], verdict'[job'[s]])
  <2>1. CASE Insufficient(s) \/ Commit(s)
    <3>1. job[s] \in Callers
      BY <2>1, JobOpen DEF Insufficient, Commit, InTransaction
    <3> QED
      BY <1>t, <2>1, <3>1 DEF Insufficient, Commit, Finish, Says
  <2>2. CASE DbError(s)
    BY <1>t, <2>2 DEF DbError, Finish, Says
  <2>3. CASE ~Insufficient(s) /\ ~Commit(s) /\ ~DbError(s)
    <3>1. worker[s] = "reply" /\ outcome'[s] = outcome[s] /\ job'[s] = job[s]
      <4>1. ASSUME NEW u \in Servers, Work(u) \/ Crash(u) \/ Restart(u)
            PROVE  worker[s] = "reply" /\ outcome'[s] = outcome[s] /\ job'[s] = job[s]
        BY <1>t, <1>1, <2>3, <4>1 DEF Work, Take, LockRow, Insufficient, WriteRow, Commit, DbError,
                                Finish, Reply, Crash, Restart
      <4> QED
        BY <1>1, <4>1, WorkerFrame DEF workerVars
    <3>2. job[s] \in Callers
      BY <3>1 DEF HInv, IInv, RequestsMade, Busy
    <3> QED
      BY <1>0, <1>a, <3>1, <3>2 DEF AnswersAgree
  <2> QED
    BY <2>1, <2>2, <2>3
<1>2. ASSUME NEW c \in Callers PROVE Says(response'[c], verdict'[c])
  <2>1. ASSUME NEW s \in Servers, Reply(s), job[s] = c PROVE Says(response'[c], verdict'[c])
    <3>1. response'[c] = outcome[s] /\ Says(outcome[s], verdict[c])
      BY <1>t, <1>a, <2>1 DEF Reply, AnswersAgree
    <3> QED
      BY <1>0, <3>1
  <2>2. CASE response'[c] = response[c]
    BY <1>0, <1>a, <2>2 DEF AnswersAgree
  <2>3. ASSUME NEW s \in Servers, Reply(s), job[s] # c PROVE response'[c] = response[c]
    BY <1>t, <2>3 DEF Reply
  <2>4. ASSUME NEW s \in Servers, Insufficient(s) \/ Commit(s) PROVE response'[c] = response[c]
    BY <2>4 DEF Insufficient, Commit, Finish
  <2> QED
    BY <2>1, <2>2, <2>3, <2>4, AnswerFrame
<1>3. ASSUME NEW c \in Callers PROVE Says(answer'[c], verdict'[c])
  <2>1. Says(answer'[c], verdict[c])
    <3>1. ASSUME NEW d \in Callers, UpdateStock(d) PROVE Says(answer'[c], verdict[c])
      BY <1>t, <1>a, <3>1 DEF AnswersAgree, Says, UpdateStock, Call, Enqueue, EndContext,
                              GiveUpEnqueue, GiveUpWait, Receive, Return
    <3>2. ASSUME NEW s \in Servers, Crash(s) PROVE Says(answer'[c], verdict[c])
      BY <1>t, <1>a, <3>2 DEF AnswersAgree, Says, Crash
    <3>3. CASE UNCHANGED callerVars
      BY <1>a, <3>3 DEF AnswersAgree, callerVars
    <3> QED
      BY <3>1, <3>2, <3>3, CallerFrame
  <2> QED
    BY <1>0, <2>1
<1> QED
  BY <1>1, <1>2, <1>3 DEF AnswersAgree

\* A caller is answered when it returns, not before.
LEMMA CallersOpenNext ==
  ASSUME HInv, [Next]_vars
  PROVE  CallersOpen'
<1>t. /\ caller \in [Callers -> CallerStates] /\ answer \in [Callers -> inventory!Answers]
      /\ request \in [Callers -> inventory!Request \cup {NoRequest}]
  BY DEF HInv, IInv, TypeOK, TypeCallers
<1>1. ASSUME NEW d \in Callers, UpdateStock(d) PROVE CallersOpen'
  BY <1>t, <1>1 DEF HInv, CallersOpen, UpdateStock, Call, Enqueue, EndContext, GiveUpEnqueue,
                    GiveUpWait, Receive, Return
<1>2. ASSUME NEW s \in Servers, Crash(s) PROVE CallersOpen'
  BY <1>t, <1>2 DEF HInv, CallersOpen, Crash, ServedBy
<1>3. CASE UNCHANGED callerVars
  BY <1>3 DEF HInv, CallersOpen, callerVars
<1> QED
  BY <1>1, <1>2, <1>3, CallerFrame

\* The invariant is inductive, and so it holds in every reachable state.
THEOREM HistoryInvariance == Spec => []HInv
<1>1. HInv /\ [Next]_vars => HInv'
  BY InductiveStep, EnteredOnceNext, ChannelIsTailNext, DecidedPassedNext, LogAgreesNext,
     AnswersAgreeNext, CallersOpenNext DEF HInv
<1> QED
  BY <1>1, InitHInv, PTL DEF Spec
-----------------------------------------------------------------------------
\* "ok" means one committed write, "insufficient" and "not queued" mean none,
\* now and for good, whoever gives up, fails or dies.
THEOREM AnswersAreTrue == Spec => []AnswersTrue
<1>1. HInv => AnswersTrue
  <2> SUFFICES ASSUME HInv, NEW c \in Callers
               PROVE  /\ answer[c] = "ok" => Writes(c) # {}
                      /\ answer[c] \in {"insufficient", "not_queued"} => Writes(c) = {}
                      /\ \A v, w \in Writes(c) : v = w
    BY DEF AnswersTrue
  <2>1. \A w : w \in Writes(c) <=>
          \E p \in Products : \E i \in 1 .. Len(log[p]) : w = <<p, i>> /\ log[p][i].by = c
    BY DEF Writes
  <2>2. verdict[c] = "applied" <=> Writes(c) # {}
    <3>1. ASSUME verdict[c] = "applied" PROVE Writes(c) # {}
      <4>1. PICK p \in Products : \E i \in 1 .. Len(log[p]) : log[p][i].by = c
        BY <3>1 DEF HInv, LogAgrees
      <4>2. PICK i \in 1 .. Len(log[p]) : log[p][i].by = c
        BY <4>1
      <4>3. <<p, i>> \in Writes(c)
        BY <2>1, <4>2
      <4> QED
        BY <4>3
    <3>2. ASSUME NEW w \in Writes(c) PROVE verdict[c] = "applied"
      BY <2>1 DEF HInv, LogAgrees
    <3> QED
      BY <3>1, <3>2
  <2>3. answer[c] = "not_queued" => verdict[c] = "open"
    <3> SUFFICES ASSUME verdict[c] # "open" PROVE answer[c] # "not_queued"
      OBVIOUS
    <3>1. PICK s \in Servers : \E m \in 1 .. Taken(s) : entered[s][m] = c
      BY DEF HInv, DecidedPassed, Passed
    <3>2. PICK m \in 1 .. Taken(s) : entered[s][m] = c
      BY <3>1
    <3>3. m \in 1 .. Len(entered[s])
      BY <3>2 DEF HInv, IInv, TypeOK, TypeChannels, Taken
    <3> QED
      BY <3>2, <3>3 DEF HInv, EnteredOnce
  <2>4. /\ answer[c] = "ok" => verdict[c] = "applied"
        /\ answer[c] = "insufficient" => verdict[c] = "refused"
    BY DEF HInv, AnswersAgree, Says
  <2>5. \A v, w \in Writes(c) : v = w
    BY <2>1 DEF HInv, LogAgrees
  <2> QED
    BY <2>2, <2>3, <2>4, <2>5
<1> QED
  BY <1>1, HistoryInvariance, PTL

\* A worker commits the request that entered last of those that have left its
\* channel, so its write comes after those of all that entered before.
LEMMA EntryOrderNext ==
  ASSUME HInv, CommitsInEntryOrder, [Next]_vars
  PROVE  CommitsInEntryOrder'
<1>t. /\ entered \in [Servers -> Seq(Callers)] /\ requests \in [Servers -> Seq(Callers)]
      /\ log \in [Products -> Seq(Write)] /\ verdict \in [Callers -> inventory!Verdicts]
  BY DEF HInv, IInv, TypeOK, TypeChannels, TypeRows, TypeAnswers
<1>o. \A p \in Products, s \in Servers :
        \A i, j \in 1 .. Len(log[p]) : \A m, n \in 1 .. Len(entered[s]) :
          (i < j /\ log[p][i].by = entered[s][m] /\ log[p][j].by = entered[s][n]) => m < n
  BY DEF CommitsInEntryOrder
<1>0. ASSUME NEW p \in Products, NEW e, log' = [log EXCEPT ![p] = Append(log[p], e)]
      PROVE  /\ Len(log[p]) \in Nat /\ Len(log'[p]) = Len(log[p]) + 1
             /\ log'[p][Len(log[p]) + 1] = e
             /\ \A i \in 1 .. Len(log[p]) : log'[p][i] = log[p][i]
             /\ \A q \in Products : q # p => log'[q] = log[q]
  BY <1>0, <1>t
<1>1. ASSUME NEW u \in Servers, Commit(u) PROVE CommitsInEntryOrder'
  <2> DEFINE p == Target(u)
             e == [by |-> job[u], read |-> read[u], wrote |-> NewStock(u)]
  <2>1. /\ job[u] \in Callers /\ verdict[job[u]] = "open" /\ p \in Products /\ e.by = job[u]
        /\ worker[u] \in Busy /\ worker[u] \in InTransaction
    BY <1>1, JobOpen, NewStockType DEF Commit, InTransaction, Busy, HInv, IInv
  <2>2. log' = [log EXCEPT ![p] = Append(log[p], e)] /\ entered' = entered
    BY <1>1 DEF Commit, Finish, channelVars
  <2> HIDE DEF p, e
  <2>3. /\ Len(log[p]) \in Nat /\ Len(log'[p]) = Len(log[p]) + 1
        /\ log'[p][Len(log[p]) + 1] = e
        /\ \A i \in 1 .. Len(log[p]) : log'[p][i] = log[p][i]
        /\ \A q \in Products : q # p => log'[q] = log[q]
    BY <1>0, <2>1, <2>2
  <2> SUFFICES ASSUME NEW q \in Products, NEW s \in Servers,
                      NEW i \in 1 .. Len(log'[q]), NEW j \in 1 .. Len(log'[q]),
                      NEW m \in 1 .. Len(entered[s]), NEW n \in 1 .. Len(entered[s]), i < j,
                      log'[q][i].by = entered[s][m], log'[q][j].by = entered[s][n]
               PROVE  m < n
    BY <2>2 DEF CommitsInEntryOrder
  <2>4. CASE q = p /\ j = Len(log[p]) + 1
    <3>1. i \in 1 .. Len(log[p])
      BY <2>3, <2>4
    <3>2. log[p][i].by = entered[s][m] /\ entered[s][n] = job[u]
      BY <2>1, <2>3, <2>4, <3>1
    <3>3. entered[s][m] \in Callers /\ entered[s][n] \in Callers
      BY <1>t
    <3>4. verdict[entered[s][m]] # "open"
      BY <3>1, <3>2, <3>3, <2>1 DEF HInv, LogAgrees
    <3>5. PICK v \in Servers : \E k \in 1 .. Taken(v) :
            entered[v][k] = entered[s][m] /\ (worker[v] \in InTransaction => k < Taken(v))
      BY <3>3, <3>4 DEF HInv, DecidedPassed, Passed
    <3>6. PICK k \in 1 .. Taken(v) :
            entered[v][k] = entered[s][m] /\ (worker[v] \in InTransaction => k < Taken(v))
      BY <3>5
    <3>7. k \in 1 .. Len(entered[v])
      BY <1>t, <3>6 DEF Taken
    <3>8. v = s /\ k = m
      BY <3>6, <3>7 DEF HInv, EnteredOnce
    <3>9. /\ Taken(u) \in 1 .. Len(entered[u]) /\ entered[u][Taken(u)] = job[u]
      <4>1. Taken(u) \in Nat /\ Taken(u) >= 1 /\ entered[u][Taken(u)] = job[u]
        BY <2>1 DEF HInv, ChannelIsTail
      <4> QED
        BY <1>t, <4>1 DEF Taken
    <3>10. u = s /\ n = Taken(s)
      BY <3>2, <3>9 DEF HInv, EnteredOnce
    <3> QED
      BY <2>1, <3>6, <3>8, <3>10
  <2>5. CASE ~(q = p /\ j = Len(log[p]) + 1)
    <3>1. /\ i \in 1 .. Len(log[q]) /\ log'[q][i] = log[q][i]
          /\ j \in 1 .. Len(log[q]) /\ log'[q][j] = log[q][j]
      <4>1. CASE q = p
        BY <2>3, <2>5, <4>1
      <4>2. CASE q # p
        BY <2>3, <4>2
      <4> QED
        BY <4>1, <4>2
    <3> QED
      BY <1>o, <3>1
  <2> QED
    BY <2>4, <2>5
<1>2. ASSUME NEW h \in Patchers, PatchWrite(h) PROVE CommitsInEntryOrder'
  <2> DEFINE p == held[h].product
             e == [by |-> h, read |-> held[h].read, wrote |-> held[h].wrote]
  <2>1. p \in Products /\ e.by \notin Callers
    BY <1>2, PatcherAssumption DEF PatchWrite, HInv, IInv, RequestsMade
  <2>2. log' = [log EXCEPT ![p] = Append(log[p], e)] /\ entered' = entered
    BY <1>2 DEF PatchWrite, channelVars
  <2> HIDE DEF p, e
  <2>3. /\ Len(log[p]) \in Nat /\ Len(log'[p]) = Len(log[p]) + 1
        /\ log'[p][Len(log[p]) + 1] = e
        /\ \A i \in 1 .. Len(log[p]) : log'[p][i] = log[p][i]
        /\ \A q \in Products : q # p => log'[q] = log[q]
    BY <1>0, <2>1, <2>2
  <2>4. \A q \in Products : \A i \in 1 .. Len(log'[q]) :
          log'[q][i].by \in Callers => i \in 1 .. Len(log[q]) /\ log'[q][i] = log[q][i]
    BY <2>1, <2>3
  <2>5. \A s \in Servers : \A m \in 1 .. Len(entered[s]) : entered[s][m] \in Callers
    BY <1>t
  <2> SUFFICES ASSUME NEW q \in Products, NEW s \in Servers,
                      NEW i \in 1 .. Len(log'[q]), NEW j \in 1 .. Len(log'[q]),
                      NEW m \in 1 .. Len(entered'[s]), NEW n \in 1 .. Len(entered'[s]), i < j,
                      log'[q][i].by = entered'[s][m], log'[q][j].by = entered'[s][n]
               PROVE  m < n
    BY DEF CommitsInEntryOrder
  <2>6. /\ m \in 1 .. Len(entered[s]) /\ n \in 1 .. Len(entered[s])
        /\ log'[q][i].by = entered[s][m] /\ log'[q][j].by = entered[s][n]
        /\ entered[s][m] \in Callers /\ entered[s][n] \in Callers
    BY <2>2, <2>5
  <2>7. /\ i \in 1 .. Len(log[q]) /\ log'[q][i] = log[q][i]
        /\ j \in 1 .. Len(log[q]) /\ log'[q][j] = log[q][j]
    BY <2>4, <2>6
  <2> QED
    BY <1>o, <2>6, <2>7
<1>3. ASSUME NEW c \in Callers, Enqueue(c) PROVE CommitsInEntryOrder'
  <2> DEFINE u == request[c].at
  <2>1. /\ u \in Servers /\ log' = log /\ verdict[c] = "open"
        /\ entered' = [entered EXCEPT ![u] = Append(entered[u], c)]
    <3>1. u \in Servers /\ log' = log /\ entered' = [entered EXCEPT ![u] = Append(entered[u], c)]
      BY <1>3 DEF Enqueue, rowVars, HInv, IInv, RequestsMade, inventory!Request
    <3>2. SUFFICES ASSUME verdict[c] # "open" PROVE FALSE
      BY <3>1
    <3>3. PICK s \in Servers : \E m \in 1 .. Taken(s) : entered[s][m] = c
      BY <3>2 DEF HInv, DecidedPassed, Passed
    <3>4. PICK m \in 1 .. Taken(s) : entered[s][m] = c
      BY <3>3
    <3>5. m \in 1 .. Len(entered[s])
      BY <1>t, <3>4 DEF Taken
    <3> QED
      BY <1>3, <3>4, <3>5 DEF Enqueue, HInv, EnteredOnce
  <2> HIDE DEF u
  <2>2. \A q \in Products : \A i \in 1 .. Len(log[q]) : log[q][i].by # c
    BY <2>1 DEF HInv, LogAgrees
  <2>3. \A s \in Servers : \A m \in 1 .. Len(entered'[s]) :
          entered'[s][m] = c \/ (m \in 1 .. Len(entered[s]) /\ entered'[s][m] = entered[s][m])
    <3> SUFFICES ASSUME NEW s \in Servers, NEW m \in 1 .. Len(entered'[s])
                 PROVE  entered'[s][m] = c
                        \/ (m \in 1 .. Len(entered[s]) /\ entered'[s][m] = entered[s][m])
      OBVIOUS
    <3>1. CASE s = u
      BY <1>t, <2>1, <3>1
    <3>2. CASE s # u
      BY <1>t, <2>1, <3>2
    <3> QED
      BY <3>1, <3>2
  <2> SUFFICES ASSUME NEW q \in Products, NEW s \in Servers,
                      NEW i \in 1 .. Len(log[q]), NEW j \in 1 .. Len(log[q]),
                      NEW m \in 1 .. Len(entered'[s]), NEW n \in 1 .. Len(entered'[s]), i < j,
                      log[q][i].by = entered'[s][m], log[q][j].by = entered'[s][n]
               PROVE  m < n
    BY <2>1 DEF CommitsInEntryOrder
  <2>4. /\ m \in 1 .. Len(entered[s]) /\ entered'[s][m] = entered[s][m]
        /\ n \in 1 .. Len(entered[s]) /\ entered'[s][n] = entered[s][n]
    BY <2>2, <2>3
  <2> QED
    BY <1>o, <2>4
<1>4. CASE log' = log /\ entered' = entered
  BY <1>o, <1>4 DEF CommitsInEntryOrder
<1>5. log' = log \/ (\E s \in Servers : Commit(s)) \/ (\E h \in Patchers : PatchWrite(h))
  BY RowFrame DEF rowVars, LockRow, Insufficient, DbError, Crash
<1>6. entered' = entered \/ \E c \in Callers : Enqueue(c)
  BY ChannelFrame DEF channelVars, Take, Crash
<1> QED
  BY <1>1, <1>2, <1>3, <1>4, <1>5, <1>6

\* First in, first out from the channel to the row, across timeouts, refusals,
\* faults and crashes, whatever other instances and HTTP handlers write.
THEOREM FifoToTheRow == Spec => []CommitsInEntryOrder
<1>1. Init => CommitsInEntryOrder
  BY DEF Init, CommitsInEntryOrder
<1>2. HInv /\ CommitsInEntryOrder /\ [Next]_vars => CommitsInEntryOrder'
  BY EntryOrderNext
<1> QED
  BY <1>1, <1>2, HistoryInvariance, PTL DEF Spec
-----------------------------------------------------------------------------
(***************************************************************************)
(* The queue implements Inventory: a call asks, a commit applies, a failed *)
(* check refuses, a return tells, a death tells "error" to all it serves;  *)
(* everything else is invisible.  An HTTP handler beside the queue writes  *)
(* what Inventory knows nothing of: there must be none.                    *)
(***************************************************************************)
QueueAlone == Patchers = {}

\* A caller that has called has a request.
LEMMA HasRequest ==
  ASSUME HInv, NEW c \in Callers, caller[c] # "new"
  PROVE  request[c] # NoRequest /\ request[c] \in inventory!Request
<1>1. request[c] \in inventory!Request
  BY DEF HInv, IInv, RequestsMade
<1> QED
  BY <1>1, NoRequestAssumption DEF inventory!Request, inventory!Int32

\* Each answer is an Inventory's Tell.
LEMMA ReturnTells ==
  ASSUME HInv, NEW c \in Callers, NEW a \in inventory!Answers \ {"none"}, Return(c, a),
         caller[c] \in {"enqueueing", "waiting"}, Says(a, verdict[c]),
         a = "not_queued" => verdict[c] = "open"
  PROVE  inventory!Tell(c, a)
<1>1. request[c] # NoRequest /\ answer[c] = "none"
  BY HasRequest DEF HInv, CallersOpen
<1>2. UNCHANGED <<stock, request, verdict>> /\ answer' = [answer EXCEPT ![c] = a]
  BY DEF Return, rowVars
<1> QED
  BY <1>1, <1>2 DEF Says, inventory!Tell

\* A caller's step is a call, a return, or nothing that shows.
LEMMA CallerRefines ==
  ASSUME HInv, NEW c \in Callers, UpdateStock(c)
  PROVE  [inventory!Next]_(inventory!vars)
<1>1. ASSUME NEW s \in Servers, NEW p \in Products, NEW d \in Deltas, Call(c, s, p, d)
      PROVE  inventory!Next
  <2> DEFINE r == [product |-> p, delta |-> d, at |-> s]
  <2>1. r \in inventory!Request
    BY DeltaAssumption DEF inventory!Request, inventory!Int32
  <2>2. inventory!Ask(c, r)
    BY <1>1 DEF Call, rowVars, inventory!Ask, HInv, CallersOpen
  <2> QED
    BY <2>1, <2>2 DEF inventory!Next
<1>2. CASE Enqueue(c) \/ EndContext(c)
  BY <1>2 DEF Enqueue, EndContext, rowVars, callerVars, inventory!vars
<1>3. CASE GiveUpEnqueue(c)
  <2>1. verdict[c] = "open"
    <3> SUFFICES ASSUME verdict[c] # "open" PROVE FALSE
      OBVIOUS
    <3>1. PICK s \in Servers : \E m \in 1 .. Taken(s) : entered[s][m] = c
      BY DEF HInv, DecidedPassed, Passed
    <3>2. PICK m \in 1 .. Taken(s) : entered[s][m] = c
      BY <3>1
    <3>3. m \in 1 .. Len(entered[s])
      BY <3>2 DEF HInv, IInv, TypeOK, TypeChannels, Taken
    <3> QED
      BY <1>3, <3>2, <3>3 DEF HInv, EnteredOnce, GiveUpEnqueue
  <2>2. inventory!Tell(c, "not_queued")
    BY <1>3, <2>1, ReturnTells DEF GiveUpEnqueue, Says, inventory!Answers
  <2> QED
    BY <2>2 DEF inventory!Next, inventory!Answers
<1>4. CASE GiveUpWait(c)
  <2>1. inventory!Tell(c, "cancelled")
    BY <1>4, ReturnTells DEF GiveUpWait, Says, inventory!Answers
  <2> QED
    BY <2>1 DEF inventory!Next, inventory!Answers
<1>5. CASE Receive(c)
  <2>1. response[c] \in {"ok", "insufficient", "error"} /\ Says(response[c], verdict[c])
    BY <1>5 DEF Receive, HInv, IInv, TypeOK, TypeAnswers, Outcomes, AnswersAgree
  <2>2. inventory!Tell(c, response[c])
    BY <1>5, <2>1, ReturnTells DEF Receive, inventory!Answers
  <2> QED
    BY <2>1, <2>2 DEF inventory!Next, inventory!Answers
<1> QED
  BY <1>1, <1>2, <1>3, <1>4, <1>5 DEF UpdateStock

\* What Inventory would compute is what the worker computed from what it read.
LEMMA SameResult ==
  ASSUME HInv, NEW s \in Servers, worker[s] \in {"locked", "written"}
  PROVE  /\ job[s] \in Callers /\ request[job[s]] # NoRequest
         /\ verdict[job[s]] = "open" /\ answer[job[s]] # "not_queued"
         /\ inventory!Result(job[s]) = NewStock(s)
<1>1. job[s] \in Callers /\ caller[job[s]] # "new" /\ verdict[job[s]] = "open"
  BY JobOpen DEF HInv, IInv, RequestsMade, InTransaction, Busy
<1>2. answer[job[s]] # "not_queued"
  <2>1. Taken(s) \in Nat /\ Taken(s) >= 1 /\ job[s] = entered[s][Taken(s)]
    BY DEF HInv, ChannelIsTail, Busy
  <2>2. Taken(s) \in 1 .. Len(entered[s])
    BY <2>1 DEF HInv, IInv, TypeOK, TypeChannels, Taken
  <2> QED
    BY <2>1, <2>2 DEF HInv, EnteredOnce
<1>3. read[s] = stock[request[job[s]].product]
  BY DEF HInv, IInv, ReadCurrent, Target
<1>4. inventory!Result(job[s]) = NewStock(s)
  BY <1>3 DEF inventory!Result, NewStock, Int32Add
<1> QED
  BY <1>1, <1>2, <1>4, HasRequest

\* A worker's step applies or refuses its request, or shows nothing.
LEMMA WorkerRefines ==
  ASSUME HInv, NEW s \in Servers, Work(s)
  PROVE  [inventory!Next]_(inventory!vars)
<1>1. CASE Commit(s)
  <2>1. /\ UNCHANGED <<request, answer>> /\ NewStock(s) >= 0 /\ worker[s] = "written"
        /\ stock' = [stock EXCEPT ![request[job[s]].product] = NewStock(s)]
        /\ verdict' = [verdict EXCEPT ![job[s]] = "applied"]
    BY <1>1 DEF Commit, Finish, callerVars, Target, HInv, IInv, ReadCurrent
  <2>2. inventory!Apply(job[s])
    BY <2>1, SameResult DEF inventory!Apply
  <2> QED
    BY <2>1, <2>2, SameResult DEF inventory!Next
<1>2. CASE Insufficient(s)
  <2>1. /\ UNCHANGED <<stock, request, answer>> /\ NewStock(s) < 0 /\ worker[s] = "locked"
        /\ verdict' = [verdict EXCEPT ![job[s]] = "refused"]
    BY <1>2 DEF Insufficient, Finish, callerVars, Short
  <2>2. inventory!Refuse(job[s])
    BY <2>1, SameResult DEF inventory!Refuse
  <2> QED
    BY <2>1, <2>2, SameResult DEF inventory!Next
<1>3. CASE Take(s) \/ LockRow(s) \/ WriteRow(s) \/ DbError(s) \/ Reply(s)
  BY <1>3 DEF Take, LockRow, WriteRow, DbError, Finish, Reply, rowVars, callerVars, inventory!vars
<1> QED
  BY <1>1, <1>2, <1>3 DEF Work

\* An instance that dies tells "error" to every caller it serves.
LEMMA CrashRefines ==
  ASSUME HInv, NEW s \in Servers, Crash(s)
  PROVE  inventory!Next
<1>1. ServedBy(s) \in SUBSET Callers
  BY DEF ServedBy
<1>2. \A c \in ServedBy(s) : request[c] # NoRequest /\ answer[c] = "none"
  BY HasRequest DEF ServedBy, HInv, CallersOpen
<1>3. inventory!TellError(ServedBy(s))
  BY <1>2 DEF Crash, inventory!TellError
<1> QED
  BY <1>1, <1>3 DEF inventory!Next

\* Every step is one of Inventory's, or shows nothing.
LEMMA StepRefines ==
  ASSUME QueueAlone, HInv, [Next]_vars
  PROVE  [inventory!Next]_(inventory!vars)
<1>1. ASSUME NEW s \in Servers, Restart(s) PROVE UNCHANGED inventory!vars
  BY <1>1 DEF Restart, rowVars, callerVars, inventory!vars
<1>2. CASE UNCHANGED vars
  BY <1>2 DEF vars, rowVars, callerVars, inventory!vars
<1> QED
  BY <1>1, <1>2, CallerRefines, WorkerRefines, CrashRefines DEF Next, QueueAlone

\* Through every timeout, refusal, fault and crash, on any number of instances,
\* the queue does what Inventory promises and nothing else.
THEOREM Implementation == ASSUME QueueAlone PROVE Spec => ImplementsInventory
<1>1. Init => inventory!Init
  BY DEF Init, inventory!Init
<1>2. HInv /\ [Next]_vars => [inventory!Next]_(inventory!vars)
  BY StepRefines
<1> QED
  BY <1>1, <1>2, HistoryInvariance, PTL DEF Spec, ImplementsInventory, inventory!Spec
-----------------------------------------------------------------------------
(***************************************************************************)
(* What the callers took and gave adds up.  Only an Apply moves units, and *)
(* the int32 sum it computes is the true one, since it is not negative.    *)
(***************************************************************************)

\* What is not decided is not counted, and a new request is not decided.
LEMMA NewIsOpen ==
  ASSUME HInv, NEW c \in Callers, request[c] = NoRequest
  PROVE  verdict[c] = "open"
<1> SUFFICES ASSUME verdict[c] # "open" PROVE FALSE
  OBVIOUS
<1>1. PICK s \in Servers : \E m \in 1 .. Taken(s) : entered[s][m] = c
  BY DEF HInv, DecidedPassed, Passed
<1>2. PICK m \in 1 .. Taken(s) : entered[s][m] = c
  BY <1>1
<1>3. m \in 1 .. Len(entered[s])
  BY <1>2 DEF HInv, IInv, TypeOK, TypeChannels, Taken
<1>4. caller[c] # "new"
  BY <1>2, <1>3 DEF HInv, EnteredOnce
<1> QED
  BY <1>4, HasRequest

\* The amounts of the requests applied to p are integers, finitely many.
LEMMA AmountType ==
  ASSUME HInv, NEW p
  PROVE  /\ IsFiniteSet(AppliedTo(p))
         /\ \A c \in AppliedTo(p) :
              /\ request[c] \in inventory!Request /\ request[c] # NoRequest
              /\ request[c].delta \in Int
<1>1. IsFiniteSet(AppliedTo(p))
  BY PatcherAssumption, FS_Subset DEF AppliedTo
<1>2. ASSUME NEW c \in AppliedTo(p)
      PROVE  /\ request[c] \in inventory!Request /\ request[c] # NoRequest
             /\ request[c].delta \in Int
  <2>1. c \in Callers /\ request[c] # NoRequest
    BY <1>2, NewIsOpen DEF AppliedTo
  <2>2. request[c] \in inventory!Request
    BY <2>1 DEF HInv, IInv, TypeOK, TypeCallers
  <2> QED
    BY <2>1, <2>2, MaxIntAssumption DEF inventory!Request, inventory!Int32
<1> QED
  BY <1>1, <1>2

\* A sum that did not wrap to a negative is the true sum.
LEMMA TrueSum ==
  ASSUME NEW a \in 0 .. MaxInt, NEW d \in inventory!Int32, inventory!Int32Add(a, d) >= 0
  PROVE  inventory!Int32Add(a, d) = a + d /\ d \in Int
BY MaxIntAssumption DEF inventory!Int32, inventory!Int32Add

\* An applied request is counted once, for its product.
LEMMA ApplyAddsUp ==
  ASSUME HInv, StockAddsUp, NEW c \in Callers, inventory!Apply(c)
  PROVE  StockAddsUp'
<1> SUFFICES ASSUME NEW p \in Products
             PROVE  stock'[p] = InitialStock[p]
                      + SumFunction([b \in AppliedTo(p)' |-> request'[b].delta])
  BY DEF StockAddsUp
<1> DEFINE S == AppliedTo(p)
           f == [b \in S |-> request[b].delta]
           g == [b \in S \cup {c} |-> request[b].delta]
<1>1. /\ request[c] # NoRequest /\ verdict[c] = "open" /\ request' = request
      /\ stock' = [stock EXCEPT ![request[c].product] = inventory!Result(c)]
      /\ verdict' = [verdict EXCEPT ![c] = "applied"] /\ inventory!Result(c) >= 0
  BY DEF inventory!Apply
<1>2. request[c] \in inventory!Request /\ request[c].delta \in Int
  <2>1. request[c] \in inventory!Request
    BY <1>1 DEF HInv, IInv, TypeOK, TypeCallers
  <2> QED
    BY <2>1, MaxIntAssumption DEF inventory!Request, inventory!Int32
<1>3. /\ stock \in [Products -> 0 .. MaxInt]
      /\ verdict \in [Callers -> inventory!Verdicts]
  BY DEF HInv, IInv, TypeOK, TypeRows, TypeAnswers
<1>4. /\ stock[p] = InitialStock[p] + SumFunctionOnSet(f, S)
      /\ IsFiniteSet(S) /\ \A b \in S : f[b] \in Int
      /\ InitialStock[p] \in Int
  BY AmountType, MaxIntAssumption, StockAssumption DEF StockAddsUp, SumFunction
<1>5. CASE request[c].product # p
  <2>1. AppliedTo(p)' = S
    BY <1>1, <1>3, <1>5 DEF AppliedTo
  <2>2. stock'[p] = stock[p]
    BY <1>1, <1>3, <1>5
  <2> QED
    BY <1>1, <1>4, <2>1, <2>2 DEF SumFunction
<1>6. CASE request[c].product = p
  <2>1. AppliedTo(p)' = S \cup {c} /\ c \notin S
    BY <1>1, <1>3, <1>6 DEF AppliedTo
  <2>2. stock'[p] = stock[p] + request[c].delta
    <3>1. inventory!Result(c) = inventory!Int32Add(stock[p], request[c].delta)
      BY <1>6 DEF inventory!Result
    <3>2. request[c].delta \in inventory!Int32 /\ stock[p] \in 0 .. MaxInt
      BY <1>2, <1>3 DEF inventory!Request
    <3> QED
      BY <1>1, <1>3, <1>6, <3>1, <3>2, TrueSum
  <2>3. /\ IsFiniteSet(S \cup {c}) /\ \A b \in S \cup {c} : g[b] \in Int
        /\ g[c] = request[c].delta
    BY <1>2, <1>4, FS_AddElement
  <2>4. (S \cup {c}) \ {c} = S
    BY <2>1
  <2>5. \A b \in S : g[b] = f[b]
    OBVIOUS
  <2>6. SumFunction([b \in AppliedTo(p)' |-> request'[b].delta]) = SumFunctionOnSet(g, S \cup {c})
    BY <1>1, <2>1 DEF SumFunction
  <2> HIDE DEF S, f, g
  <2>7. SumFunctionOnSet(g, S \cup {c}) = g[c] + SumFunctionOnSet(g, S)
    BY <2>3, <2>4, SumRemove
  <2>8. SumFunctionOnSet(g, S) = SumFunctionOnSet(f, S) /\ SumFunctionOnSet(f, S) \in Int
    BY <1>4, <2>5, SumAgree, SumType
  <2> QED
    BY <1>2, <1>4, <2>2, <2>3, <2>6, <2>7, <2>8
<1> QED
  BY <1>5, <1>6

\* Nothing else of what Inventory does changes a term of the sum.
LEMMA AddsUpNext ==
  ASSUME HInv, StockAddsUp, [inventory!Next]_(inventory!vars)
  PROVE  StockAddsUp'
<1>t. /\ request \in [Callers -> inventory!Request \cup {NoRequest}]
      /\ verdict \in [Callers -> inventory!Verdicts]
  BY DEF HInv, IInv, TypeOK, TypeCallers, TypeAnswers
<1>1. ASSUME NEW c \in Callers, NEW r \in inventory!Request, inventory!Ask(c, r)
      PROVE  StockAddsUp'
  <2>1. verdict[c] = "open" /\ UNCHANGED <<stock, verdict>>
    BY <1>1, NewIsOpen DEF inventory!Ask
  <2>2. ASSUME NEW p \in Products
        PROVE  /\ AppliedTo(p)' = AppliedTo(p)
               /\ \A b \in AppliedTo(p) : request'[b] = request[b]
    BY <1>t, <1>1, <2>1 DEF inventory!Ask, AppliedTo
  <2>3. ASSUME NEW p \in Products
        PROVE  [b \in AppliedTo(p)' |-> request'[b].delta] = [b \in AppliedTo(p) |-> request[b].delta]
    BY <2>2
  <2> QED
    BY <2>1, <2>3 DEF StockAddsUp
<1>2. ASSUME NEW c \in Callers, inventory!Refuse(c) PROVE StockAddsUp'
  <2>1. ASSUME NEW p \in Products PROVE AppliedTo(p)' = AppliedTo(p)
    BY <1>t, <1>2 DEF inventory!Refuse, AppliedTo
  <2> QED
    BY <1>2, <2>1 DEF StockAddsUp, inventory!Refuse
<1>3. CASE UNCHANGED <<stock, request, verdict>>
  BY <1>3 DEF StockAddsUp, AppliedTo
<1>4. ASSUME NEW c \in Callers, NEW a, inventory!Tell(c, a) PROVE StockAddsUp'
  BY <1>3, <1>4 DEF inventory!Tell
<1>5. ASSUME NEW S, inventory!TellError(S) PROVE StockAddsUp'
  BY <1>3, <1>5 DEF inventory!TellError
<1>6. CASE UNCHANGED inventory!vars
  BY <1>3, <1>6 DEF inventory!vars
<1> QED
  BY <1>1, <1>2, <1>4, <1>5, <1>6, ApplyAddsUp DEF inventory!Next

\* The column is what it was at first and the amounts of exactly the requests
\* that were applied, each once, though the sums are int32 and could wrap.
THEOREM AmountsAddUp == ASSUME QueueAlone PROVE Spec => []StockAddsUp
<1>1. Init => StockAddsUp
  <2> SUFFICES ASSUME Init, NEW p \in Products
               PROVE  stock[p] = InitialStock[p] + SumFunction([c \in AppliedTo(p) |-> request[c].delta])
    BY DEF StockAddsUp
  <2>1. AppliedTo(p) = {}
    BY DEF Init, AppliedTo
  <2>2. SumFunction([c \in AppliedTo(p) |-> request[c].delta]) = 0
    BY <2>1, SumEmpty DEF SumFunction
  <2> QED
    BY <2>2, StockAssumption, MaxIntAssumption DEF Init
<1>2. HInv /\ StockAddsUp /\ [Next]_vars => StockAddsUp'
  BY StepRefines, AddsUpNext
<1> QED
  BY <1>1, <1>2, HistoryInvariance, PTL DEF Spec

(***************************************************************************)
(* No oversell.  Every write of a row that only the queue writes starts    *)
(* from what the write before it left, so that the units that ever left    *)
(* the row are those that its stock went down by.                          *)
(***************************************************************************)
THEOREM NoOversellAlone == ASSUME QueueAlone PROVE Spec => []NoOversell
<1>1. IInv => NoOversell
  <2> SUFFICES ASSUME IInv, NEW p \in Products
               PROVE  InitialStock[p] + SumFunction([i \in 1 .. Len(log[p]) |->
                                                       log[p][i].wrote - log[p][i].read]) >= 0
    BY DEF NoOversell
  <2> DEFINE n == Len(log[p])
             b == [i \in 0 .. n |-> Before(p, i + 1)]
             f == [i \in 1 .. n |-> log[p][i].wrote - log[p][i].read]
  <2>1. log[p] \in Seq(Write) /\ n \in Nat /\ \A i \in 1 .. n : log[p][i] \in Write
    BY DEF IInv, TypeOK, TypeRows
  <2>2. InitialStock[p] \in Int /\ stock[p] \in Nat
    BY StockAssumption, MaxIntAssumption DEF IInv, TypeOK, TypeRows
  <2>3. \A i \in 1 .. n : log[p][i].wrote \in Int /\ log[p][i].by \in Callers
    BY <2>1, MaxIntAssumption DEF Write, QueueAlone
  <2>4. b \in [0 .. n -> Int] /\ b[0] = InitialStock[p] /\ b[n] = stock[p]
    <3>1. ASSUME NEW i \in 0 .. n PROVE Before(p, i + 1) \in Int
      <4>1. CASE i = 0
        BY <2>2, <4>1 DEF Before
      <4>2. CASE i # 0
        <5>1. i \in 1 .. n /\ i + 1 # 1 /\ (i + 1) - 1 = i
          BY <2>1, <4>2
        <5> QED
          BY <2>3, <5>1 DEF Before
      <4> QED
        BY <4>1, <4>2
    <3>2. stock[p] = Before(p, n + 1)
      BY DEF IInv, SerialUpdates
    <3>3. Before(p, 0 + 1) = InitialStock[p]
      BY DEF Before
    <3> HIDE DEF n
    <3> QED
      BY <2>1, <3>1, <3>2, <3>3
  <2>5. \A i \in 1 .. n : f[i] = b[i] - b[i - 1]
    <3> SUFFICES ASSUME NEW i \in 1 .. n PROVE f[i] = b[i] - b[i - 1]
      OBVIOUS
    <3>1. log[p][i].read = Before(p, i)
      BY <2>3 DEF IInv, SerialUpdates
    <3>2. log[p][i].wrote = Before(p, i + 1)
      <4>1. i + 1 # 1 /\ (i + 1) - 1 = i
        BY <2>1
      <4> QED
        BY <4>1 DEF Before
    <3>3. i \in 0 .. n /\ i - 1 \in 0 .. n /\ (i - 1) + 1 = i
      BY <2>1
    <3>4. b[i] = Before(p, i + 1) /\ b[i - 1] = Before(p, i)
      <4> HIDE DEF n
      <4> QED
        BY <3>3
    <3>5. f[i] = log[p][i].wrote - log[p][i].read
      OBVIOUS
    <3> HIDE DEF b, f, n
    <3> QED
      BY <3>1, <3>2, <3>4, <3>5
  <2>6. SumFunction(f) = SumFunctionOnSet(f, 1 .. n)
    BY DEF SumFunction
  <2>7. SumFunctionOnSet(f, 1 .. n) = b[n] - b[0]
    <3> HIDE DEF b, f, n
    <3> QED
      BY <2>1, <2>4, <2>5, SumTelescopes
  <2>8. InitialStock[p] + SumFunction(f) >= 0
    <3> HIDE DEF b, f, n
    <3> QED
      BY <2>2, <2>4, <2>6, <2>7
  <2> QED
    BY <2>8
<1> QED
  BY <1>1, Invariance, PTL
=============================================================================
