------------------------------- MODULE Accounts -------------------------------
(***************************************************************************)
(* Registration, login and token renewal                                   *)
(*   src/services/auth/python/src/service.py, security.py, main.py         *)
(*   src/services/auth/python/src/generated/query.py, database.py          *)
(*                                                                         *)
(* A request takes a connection from the pool, whose first statement       *)
(* begins a transaction, and gives it back when it returns.  Registration  *)
(* looks for the e-mail, then inserts the user, then commits: what others  *)
(* do in between is kept out by the column's UNIQUE only, on which an      *)
(* INSERT waits for the transaction that inserted the same e-mail.  A      *)
(* person stands for the password he or she registers and logs in with.    *)
(* Clients use the tokens they were given; an account's id is the number   *)
(* of the request that made it.                                            *)
(***************************************************************************)
EXTENDS Integers, FiniteSets

CONSTANTS Emails,
          People,
          PoolSize,       \* connections of the pool, overflow included
          AccessLife,     \* jwt_access_token_expire_minutes
          RefreshLife,    \* jwt_refresh_token_expire_days
          MaxTime,        \* bound: the last instant
          MaxRequests,    \* bound: requests in a behaviour
          MaxCrashes,     \* bound: crashes of the service
          Faults,         \* may a statement or a commit fail, or the pool time out?
          None            \* nothing asked for

ASSUME PoolAssumption == PoolSize \in Nat \ {0}
ASSUME TimeAssumption == {AccessLife, RefreshLife, MaxTime} \subseteq Nat
ASSUME BoundAssumption ==
  MaxRequests \in Nat /\ MaxCrashes \in Nat /\ Faults \in BOOLEAN

VARIABLES
  now,        \* the clock
  users,      \* the committed rows of auth.users
  phase,      \* [Requests -> Phases], what each request does next
  op,         \* [Requests -> Ops]
  asked,      \* the form or the token of each request
  answer,     \* what the request returned
  issued,     \* the responses with tokens
  crashes

requestVars == <<op, asked>>
vars == <<now, users, phase, requestVars, answer, issued, crashes>>

Requests == 1 .. MaxRequests
\* A request in one of these phases has a connection.
Connected == {"exists", "insert", "commit", "select"}
UnderWay == Connected \cup {"connect"}
Phases == UnderWay \cup {"new", "done", "dead"}
Ops == {"none", "register", "login", "refresh", "verify", "me"}
Answers == {"none", "created", "exists", "tokens", "valid", "denied", "error"}
Form == [email: Emails, person: People]
User == [id: Requests, email: Emails, person: People]
Token == [id: Requests, type: {"access", "refresh"}, expires: Nat]
Response == [access: Token, refresh: Token, at: Nat]

Init ==
  /\ now = 0
  /\ users = {}
  /\ phase = [r \in Requests |-> "new"]
  /\ op = [r \in Requests |-> "none"]
  /\ asked = [r \in Requests |-> None]
  /\ answer = [r \in Requests |-> "none"]
  /\ issued = {}
  /\ crashes = 0

-----------------------------------------------------------------------------
Go(r, next) == phase' = [phase EXCEPT ![r] = next]
Return(r, a) == Go(r, "done") /\ answer' = [answer EXCEPT ![r] = a]

\* Requests are interchangeable: they begin in the order of their numbers.
Begin(r, o, what) ==
  /\ phase[r] = "new"
  /\ \A q \in Requests : q < r => phase[q] # "new"
  /\ op' = [op EXCEPT ![r] = o]
  /\ asked' = [asked EXCEPT ![r] = what]
  /\ UNCHANGED <<now, users, issued, crashes>>

register(r, form) == Begin(r, "register", form) /\ Go(r, "connect") /\ UNCHANGED answer
login(r, form) == Begin(r, "login", form) /\ Go(r, "connect") /\ UNCHANGED answer

\* Slip: both tokens are made by create_access_token.
TwoAccessTokens(id) ==
  [access |-> [id |-> id, type |-> "access", expires |-> now + AccessLife],
   refresh |-> [id |-> id, type |-> "access", expires |-> now + RefreshLife],
   at |-> now]
\* create_access_token and create_refresh_token
TokenResponse(id) ==
  [access |-> [id |-> id, type |-> "access", expires |-> now + AccessLife],
   refresh |-> [id |-> id, type |-> "refresh", expires |-> now + RefreshLife],
   at |-> now]

\* decode_token, which refuses an expired one, and the check of its type.
Accepted(t, type) == t.type = type /\ now <= t.expires

\* A request that carries a token: refused at once, or on to the database, or,
\* if the token is all there is to check, answered.
Present(r, o, type, t) ==
  /\ Begin(r, o, [token |-> t, at |-> now])
  /\ CASE ~Accepted(t, type) -> Return(r, "denied")
       [] Accepted(t, type) /\ o = "verify" -> Return(r, "valid")
       [] OTHER -> Go(r, "connect") /\ UNCHANGED answer

refresh(r, t) == Present(r, "refresh", "refresh", t)
verify(r, t) == Present(r, "verify", "access", t)
get_me(r, t) == Present(r, "me", "access", t)

-----------------------------------------------------------------------------
(* Serving a request *)

InPool == {r \in Requests : phase[r] \in Connected}

\* Slip: one connection too many.
RoomForOneMore == Cardinality(InPool) <= PoolSize
Room == Cardinality(InPool) < PoolSize

\* A connection is waited for.
Connect(r) ==
  /\ phase[r] = "connect"
  /\ Room
  /\ Go(r, IF op[r] = "register" THEN "exists" ELSE "select")
  /\ UNCHANGED <<now, users, requestVars, answer, issued, crashes>>

HasEmail(e) == \E u \in users : u.email = e

exists_user_by_email(r) ==
  /\ phase[r] = "exists"
  /\ IF HasEmail(asked[r].email) THEN Return(r, "exists") ELSE Go(r, "insert") /\ UNCHANGED answer
  /\ UNCHANGED <<now, users, requestVars, issued, crashes>>

\* Slips: a query for what is committed, in place of the index; the INSERT
\* takes a second connection of the pool.
NobodyInserts(r) == TRUE
SecondConnection(r) ==
  /\ Room
  /\ \A q \in Requests \ {r} : ~(phase[q] = "commit" /\ asked[q].email = asked[r].email)
\* The unique index makes an INSERT wait for another, uncommitted one.
IndexFree(r) ==
  \A q \in Requests \ {r} : ~(phase[q] = "commit" /\ asked[q].email = asked[r].email)

\* Against a committed row the INSERT fails, and nothing catches the error.
create_user(r) ==
  /\ phase[r] = "insert"
  /\ IndexFree(r)
  /\ IF HasEmail(asked[r].email) THEN Return(r, "error") ELSE Go(r, "commit") /\ UNCHANGED answer
  /\ UNCHANGED <<now, users, requestVars, issued, crashes>>

NewUser(r) == [id |-> r, email |-> asked[r].email, person |-> asked[r].person]

\* The commit may report an error and yet have taken place.
Commit(r) ==
  /\ phase[r] = "commit"
  /\ users' = users \cup {NewUser(r)}
  /\ Return(r, "created") \/ (Faults /\ Return(r, "error"))
  /\ UNCHANGED <<now, requestVars, issued, crashes>>

\* A statement, or the commit, fails without effect; the transaction is rolled
\* back with the connection's return to the pool.  The wait for a connection
\* ends like this, too, with the pool's timeout.
StatementFails(r) ==
  /\ Faults
  /\ phase[r] \in UnderWay
  /\ Return(r, "error")
  /\ UNCHANGED <<now, users, requestVars, issued, crashes>>

\* get_user_by_email or get_user_by_id
Found(r) ==
  IF op[r] = "login" THEN {u \in users : u.email = asked[r].email}
                     ELSE {u \in users : u.id = asked[r].token.id}

\* verify_password
PasswordFits(r, u) == op[r] = "login" => u.person = asked[r].person

select_user(r) ==
  /\ phase[r] = "select"
  /\ \/ /\ Found(r) = {} \/ \E u \in Found(r) : ~PasswordFits(r, u)
        /\ Return(r, "denied")
        /\ UNCHANGED issued
     \/ \E u \in Found(r) :
        /\ PasswordFits(r, u)
        /\ IF op[r] = "me" THEN Return(r, "valid") /\ UNCHANGED issued
           ELSE Return(r, "tokens") /\ issued' = issued \cup {TokenResponse(u.id)}
  /\ UNCHANGED <<now, users, requestVars, crashes>>

-----------------------------------------------------------------------------
Tick ==
  /\ now < MaxTime
  /\ now' = now + 1
  /\ UNCHANGED <<users, phase, requestVars, answer, issued, crashes>>

\* The service dies: open transactions are rolled back, tokens live on.
Crash ==
  /\ crashes < MaxCrashes
  /\ crashes' = crashes + 1
  /\ phase' = [r \in Requests |-> IF phase[r] \in UnderWay THEN "dead" ELSE phase[r]]
  /\ UNCHANGED <<now, users, requestVars, answer, issued>>

Ask(r) ==
  \/ \E form \in Form : register(r, form) \/ login(r, form)
  \/ \E s \in issued, kind \in {"access", "refresh"} :
       refresh(r, s[kind]) \/ verify(r, s[kind]) \/ get_me(r, s[kind])

Serve(r) ==
  \/ Connect(r)
  \/ exists_user_by_email(r)
  \/ create_user(r)
  \/ Commit(r)
  \/ select_user(r)

Next ==
  \/ \E r \in Requests : Ask(r) \/ Serve(r) \/ StatementFails(r)
  \/ Tick
  \/ Crash

Spec == Init /\ [][Next]_vars

\* The event loop and the database go on with every request; nobody must ask,
\* and no failure or timeout is counted on.
FairSpec == Spec /\ \A r \in Requests : WF_vars(Serve(r))

-----------------------------------------------------------------------------
(* Properties *)

\* Every variable keeps to its type, and no e-mail has two rows.
TypeOK ==
  /\ now \in 0 .. MaxTime
  /\ users \subseteq User
  /\ \A u, v \in users : u.email = v.email => u = v
  /\ phase \in [Requests -> Phases]
  /\ Cardinality(InPool) <= PoolSize
  /\ op \in [Requests -> Ops]
  /\ asked \in [Requests -> Form \cup [token: Token, at: Nat] \cup {None}]
  /\ answer \in [Requests -> Answers]
  /\ issued \subseteq Response
  /\ crashes \in 0 .. MaxCrashes

\* Who was told that the account was made has it for good, under the password
\* it was made with, however many registrations of the e-mail race and
\* whatever fails or dies: no one else was told the same.  Who was told that
\* the e-mail is taken was told so of an account that is there to stay, not of
\* a transaction that may yet be rolled back.
RegistrationStands ==
  /\ \A r \in Requests : answer[r] = "created" =>
       {u \in users : u.email = asked[r].email} = {NewUser(r)}
  /\ \A r \in Requests : answer[r] = "exists" => HasEmail(asked[r].email)

\* A token is good for as long as its response promised: expires_in for the
\* access token, the days of the configuration for the refresh token, across
\* renewals and restarts, even if it expires while its request is served.
TokensLast ==
  \A r \in Requests, s \in issued :
    /\ (op[r] \in {"verify", "me"} /\ asked[r].token = s.access /\ asked[r].at <= s.at + AccessLife)
         => answer[r] # "denied"
    /\ (op[r] = "refresh" /\ asked[r].token = s.refresh /\ asked[r].at <= s.at + RefreshLife)
         => answer[r] # "denied"

\* Every request is answered unless the service dies: those that wait for the
\* index hold connections that those who wait for the pool need, and still no
\* circle closes.
EveryRequestAnswered ==
  \A r \in Requests : phase[r] = "connect" ~> phase[r] \in {"done", "dead"}
=============================================================================
