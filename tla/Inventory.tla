------------------------------ MODULE Inventory ------------------------------
(***************************************************************************)
(* What the stock path of the product service promises, whatever queue,    *)
(* worker, transaction or replica lies behind it: a request to move a      *)
(* product's stock by a signed amount is applied at most once, in one      *)
(* step, against the stock of that moment, or refused because the stock of *)
(* that moment is short of it; a caller who is told "ok" or "insufficient" *)
(* is told the truth, and one who is told "error" or "cancelled" is told   *)
(* nothing about the outcome.                                              *)
(***************************************************************************)
EXTENDS Integers

CONSTANTS Callers,        \* callers of ProductService.UpdateStock
          Products,       \* rows of product.products
          Servers,        \* instances of the product service
          MaxInt,         \* largest value of the Go int32 and of the column
          InitialStock,   \* [Products -> 0 .. MaxInt]
          NoRequest       \* a caller that has not called yet

(***************************************************************************)
(* Go's int32 addition (current.Stock + delta), which wraps.               *)
(***************************************************************************)
Int32Add(a, b) ==
  LET sum == a + b IN
  IF sum > MaxInt THEN sum - 2 * (MaxInt + 1)
  ELSE IF sum < -MaxInt - 1 THEN sum + 2 * (MaxInt + 1)
  ELSE sum

Int32 == -MaxInt - 1 .. MaxInt
Request == [product: Products, delta: Int32, at: Servers]
Verdicts == {"open", "applied", "refused"}
Answers == {"none", "ok", "insufficient", "error", "cancelled", "not_queued"}

VARIABLES stock,     \* the committed stock column
          request,   \* what each caller asked for
          verdict,   \* what became of each request
          answer     \* what each caller was told
vars == <<stock, request, verdict, answer>>

Init ==
  /\ stock = InitialStock
  /\ request = [c \in Callers |-> NoRequest]
  /\ verdict = [c \in Callers |-> "open"]
  /\ answer = [c \in Callers |-> "none"]

Ask(c, r) ==
  /\ request[c] = NoRequest
  /\ request' = [request EXCEPT ![c] = r]
  /\ UNCHANGED <<stock, verdict, answer>>

Result(c) == Int32Add(stock[request[c].product], request[c].delta)

Apply(c) ==
  /\ request[c] # NoRequest
  /\ verdict[c] = "open"
  /\ answer[c] # "not_queued"
  /\ Result(c) >= 0
  /\ stock' = [stock EXCEPT ![request[c].product] = Result(c)]
  /\ verdict' = [verdict EXCEPT ![c] = "applied"]
  /\ UNCHANGED <<request, answer>>

Refuse(c) ==
  /\ request[c] # NoRequest
  /\ verdict[c] = "open"
  /\ answer[c] # "not_queued"
  /\ Result(c) < 0
  /\ verdict' = [verdict EXCEPT ![c] = "refused"]
  /\ UNCHANGED <<stock, request, answer>>

(***************************************************************************)
(* An answer is given once.  "not_queued" promises that the request was    *)
(* never applied and never will be.                                        *)
(***************************************************************************)
Tell(c, a) ==
  /\ request[c] # NoRequest
  /\ answer[c] = "none"
  /\ a = "ok" => verdict[c] = "applied"
  /\ a = "insufficient" => verdict[c] = "refused"
  /\ a = "not_queued" => verdict[c] = "open"
  /\ answer' = [answer EXCEPT ![c] = a]
  /\ UNCHANGED <<stock, request, verdict>>

(***************************************************************************)
(* An instance that dies fails, in one step, every call it was serving.    *)
(***************************************************************************)
TellError(S) ==
  /\ \A c \in S : request[c] # NoRequest /\ answer[c] = "none"
  /\ answer' = [c \in Callers |-> IF c \in S THEN "error" ELSE answer[c]]
  /\ UNCHANGED <<stock, request, verdict>>

Next ==
  \/ \E c \in Callers :
       \/ \E r \in Request : Ask(c, r)
       \/ Apply(c)
       \/ Refuse(c)
       \/ \E a \in Answers \ {"none"} : Tell(c, a)
  \/ \E S \in SUBSET Callers : TellError(S)

Spec == Init /\ [][Next]_vars
=============================================================================
