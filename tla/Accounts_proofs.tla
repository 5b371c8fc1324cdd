--------------------------- MODULE Accounts_proofs ---------------------------
(***************************************************************************)
(* Theorems about Accounts, for every set of e-mails and people, every     *)
(* size of the pool and life of the tokens, with faults and crashes.       *)
(***************************************************************************)
EXTENDS Accounts, TLAPS, FiniteSetTheorems

(***************************************************************************)
(* The invariant.  A row is the work of a registration that is over; the   *)
(* requests that are about to commit one have e-mails of their own; every  *)
(* token names an account that has a row.                                  *)
(***************************************************************************)
Types ==
  /\ now \in 0 .. MaxTime
  /\ users \subseteq User
  /\ phase \in [Requests -> Phases]
  /\ op \in [Requests -> Ops]
  /\ asked \in [Requests -> Form \cup [token: Token, at: Nat] \cup {None}]
  /\ answer \in [Requests -> Answers]
  /\ issued \subseteq Response
  /\ crashes \in 0 .. MaxCrashes

PoolKept == Cardinality(InPool) <= PoolSize

OneRowEach == \A u, v \in users : u.email = v.email => u = v

RowsRegistered ==
  \A u \in users : u = NewUser(u.id) /\ op[u.id] = "register" /\ phase[u.id] = "done"

CommitsApart ==
  \A r \in Requests : phase[r] = "commit" =>
    /\ ~HasEmail(asked[r].email)
    /\ \A q \in Requests : phase[q] = "commit" /\ q # r => asked[q].email # asked[r].email

TokensFit ==
  \A s \in issued :
    /\ s.access.type = "access" /\ s.access.expires = s.at + AccessLife
    /\ s.refresh.type = "refresh" /\ s.refresh.expires = s.at + RefreshLife
    /\ \E u \in users : u.id = s.access.id /\ u.id = s.refresh.id

\* What a request carries fits what it asks for, and where it is.
AskedFits(r) ==
  /\ phase[r] = "new" => answer[r] = "none"
  /\ op[r] \in {"register", "login"} => asked[r] \in Form
  /\ op[r] \in {"refresh", "verify", "me"} =>
       /\ asked[r] \in [token: Token, at: Nat]
       /\ \E u \in users : u.id = asked[r].token.id
  /\ phase[r] = "connect" => op[r] \in {"register", "login", "refresh", "me"}
  /\ phase[r] \in {"exists", "insert", "commit"} => op[r] = "register"
  /\ phase[r] = "select" => op[r] \in {"login", "refresh", "me"}

\* An answer is a last word, and it is true.
AnswerFits(r) ==
  /\ answer[r] # "none" => phase[r] = "done"
  /\ answer[r] = "created" => op[r] = "register" /\ NewUser(r) \in users
  /\ answer[r] = "exists" => op[r] = "register" /\ HasEmail(asked[r].email)
  /\ answer[r] = "denied" /\ op[r] \in {"verify", "me"} =>
       asked[r].token.type # "access" \/ asked[r].token.expires < asked[r].at
  /\ answer[r] = "denied" /\ op[r] = "refresh" =>
       asked[r].token.type # "refresh" \/ asked[r].token.expires < asked[r].at

IInv ==
  /\ Types
  /\ PoolKept
  /\ OneRowEach
  /\ RowsRegistered
  /\ CommitsApart
  /\ TokensFit
  /\ \A r \in Requests : AskedFits(r) /\ AnswerFits(r)

-----------------------------------------------------------------------------
\* The pool is a finite set of requests.
LEMMA PoolFinite == IsFiniteSet(InPool)
<1>1. IsFiniteSet(Requests)
  BY FS_Interval, BoundAssumption DEF Requests
<1> QED
  BY <1>1, FS_Subset DEF InPool

\* The pool's next contents are finite too.
LEMMA PoolFiniteNext == IsFiniteSet(InPool')
<1>1. IsFiniteSet(Requests)
  BY FS_Interval, BoundAssumption DEF Requests
<1> QED
  BY <1>1, FS_Subset DEF InPool

\* A step that gives nobody a connection keeps within the pool.
LEMMA PoolShrinks ==
  ASSUME PoolKept, InPool' \subseteq InPool
  PROVE  PoolKept'
<1>1. Cardinality(InPool') <= Cardinality(InPool)
  BY PoolFinite, FS_Subset
<1>2. Cardinality(InPool) \in Nat /\ Cardinality(InPool') \in Nat
  BY PoolFinite, PoolFiniteNext, FS_CardinalityType
<1> QED
  BY <1>1, <1>2, PoolAssumption DEF PoolKept

\* A step that takes a free connection for one request does, too.
LEMMA PoolGrows ==
  ASSUME Room, NEW r, InPool' \subseteq InPool \cup {r}
  PROVE  PoolKept'
<1>1. /\ IsFiniteSet(InPool \cup {r})
      /\ \/ Cardinality(InPool \cup {r}) = Cardinality(InPool)
         \/ Cardinality(InPool \cup {r}) = Cardinality(InPool) + 1
  BY PoolFinite, FS_AddElement
<1>2. Cardinality(InPool') <= Cardinality(InPool \cup {r})
  BY <1>1, FS_Subset
<1>3. Cardinality(InPool) \in Nat /\ Cardinality(InPool') \in Nat
  BY PoolFinite, PoolFiniteNext, FS_CardinalityType
<1> QED
  BY <1>1, <1>2, <1>3, PoolAssumption DEF PoolKept, Room

\* The invariant holds before the first request.
LEMMA InitIInv == Init => IInv
<1> SUFFICES ASSUME Init PROVE IInv
  OBVIOUS
<1>1. Types
  BY TimeAssumption, BoundAssumption DEF Init, Types, Phases, Ops, Answers, User, Response
<1>2. PoolKept
  <2>1. InPool = {}
    BY DEF Init, InPool, Connected
  <2> QED
    BY <2>1, FS_EmptySet, PoolAssumption DEF PoolKept
<1>3. OneRowEach /\ RowsRegistered /\ TokensFit
  BY DEF Init, OneRowEach, RowsRegistered, TokensFit
<1>4. CommitsApart /\ \A r \in Requests : AskedFits(r) /\ AnswerFits(r)
  BY DEF Init, CommitsApart, AskedFits, AnswerFits
<1> QED
  BY <1>1, <1>2, <1>3, <1>4 DEF IInv

\* A request that a step leaves alone keeps fitting: rows are never deleted.
LEMMA Untouched ==
  ASSUME NEW q \in Requests, AskedFits(q), AnswerFits(q), users \subseteq users',
         phase'[q] = phase[q], op'[q] = op[q], asked'[q] = asked[q], answer'[q] = answer[q]
  PROVE  AskedFits(q)' /\ AnswerFits(q)'
BY DEF AskedFits, AnswerFits, HasEmail, NewUser

\* A step that adds no row, changes what no registration asked and puts nobody
\* in "commit" keeps the rows in order.
LEMMA RowsKept ==
  ASSUME OneRowEach, RowsRegistered, CommitsApart, Types, users' = users,
         \A q \in Requests : phase[q] # "new" => op'[q] = op[q] /\ asked'[q] = asked[q],
         \A q \in Requests : phase[q] = "done" => phase'[q] = "done",
         \A q \in Requests : phase'[q] = "commit" => phase[q] = "commit"
  PROVE  OneRowEach' /\ RowsRegistered' /\ CommitsApart'
<1>1. OneRowEach'
  BY DEF OneRowEach
<1>2. RowsRegistered'
  BY DEF RowsRegistered, NewUser, Types, User
<1>3. CommitsApart'
  BY DEF CommitsApart, HasEmail
<1> QED
  BY <1>1, <1>2, <1>3

-----------------------------------------------------------------------------
\* Request r begins to ask o, carrying what, and comes to phase p and answer a.
Asks(r, o, what, p, a) ==
  /\ Begin(r, o, what)
  /\ phase' = [phase EXCEPT ![r] = p]
  /\ answer' = [answer EXCEPT ![r] = a]
  /\ \/ o \in {"register", "login"} /\ what \in Form /\ p = "connect" /\ a = "none"
     \/ /\ o \in {"refresh", "verify", "me"}
        /\ what \in [token: Token, at: Nat] /\ \E u \in users : u.id = what.token.id
        /\ \/ p = "connect" /\ a = "none" /\ o # "verify"
           \/ p = "done" /\ a = "valid"
           \/ /\ p = "done" /\ a = "denied"
              /\ ~Accepted(what.token, IF o = "refresh" THEN "refresh" ELSE "access")
              /\ what.at = now

\* A request begins: with a form, or with a token that was issued.
LEMMA AskNext ==
  ASSUME IInv, NEW r \in Requests, Ask(r)
  PROVE  IInv'
<1> USE DEF IInv
<1>1. PICK o \in Ops, what \in Form \cup [token: Token, at: Nat], p \in {"connect", "done"},
           a \in Answers : Asks(r, o, what, p, a)
  <2>0. /\ phase[r] = "new" /\ answer[r] = "none" /\ now \in Nat
        /\ answer = [answer EXCEPT ![r] = "none"]
    BY TimeAssumption DEF Ask, register, login, refresh, verify, get_me, Present, Begin,
                          AskedFits, Types
  <2>1. ASSUME NEW form \in Form, register(r, form) \/ login(r, form)
        PROVE  \E o \in {"register", "login"} : Asks(r, o, form, "connect", "none")
    BY <2>0, <2>1 DEF register, login, Go, Asks
  <2>2. ASSUME NEW s \in issued, NEW kind \in {"access", "refresh"},
               refresh(r, s[kind]) \/ verify(r, s[kind]) \/ get_me(r, s[kind])
        PROVE  \E o \in {"refresh", "verify", "me"}, p \in {"connect", "done"}, a \in Answers :
                 Asks(r, o, [token |-> s[kind], at |-> now], p, a)
    <3>1. s[kind] \in Token /\ \E u \in users : u.id = s[kind].id
      <4>1. s.access \in Token /\ s.refresh \in Token
        BY DEF Types, Response
      <4>2. \E u \in users : u.id = s.access.id /\ u.id = s.refresh.id
        BY DEF TokensFit
      <4> QED
        BY <4>1, <4>2
    <3> DEFINE t == s[kind]
               what == [token |-> t, at |-> now]
    <3>2. what \in [token: Token, at: Nat] /\ what.token = t /\ what.at = now
      BY <2>0, <3>1
    <3>3. PICK o \in {"refresh", "verify", "me"} :
            Present(r, o, IF o = "refresh" THEN "refresh" ELSE "access", t)
      BY <2>2 DEF refresh, verify, get_me
    <3> HIDE DEF t, what
    <3>4. Begin(r, o, what)
      BY <3>3 DEF Present, what
    <3>5. \/ /\ ~Accepted(t, IF o = "refresh" THEN "refresh" ELSE "access")
             /\ Return(r, "denied")
          \/ Return(r, "valid")
          \/ o # "verify" /\ Go(r, "connect") /\ answer' = answer
      BY <3>3 DEF Present
    <3>6. \E u \in users : u.id = t.id
      BY <3>1 DEF t
    <3>7. \/ Asks(r, o, what, "done", "denied")
          \/ Asks(r, o, what, "done", "valid")
          \/ Asks(r, o, what, "connect", "none")
      BY <2>0, <3>2, <3>4, <3>5, <3>6 DEF Asks, Return, Go
    <3> QED
      BY <3>7 DEF what, t, Answers
  <2>3. {"register", "login", "refresh", "verify", "me"} \subseteq Ops /\ "none" \in Answers
    BY DEF Ops, Answers
  <2>4. ASSUME NEW s \in issued, NEW kind \in {"access", "refresh"}
        PROVE  [token |-> s[kind], at |-> now] \in [token: Token, at: Nat]
    <3>1. s.access \in Token /\ s.refresh \in Token
      BY DEF Types, Response
    <3> QED
      BY <2>0, <3>1
  <2>5. \/ \E form \in Form : register(r, form) \/ login(r, form)
        \/ \E s \in issued, kind \in {"access", "refresh"} :
             refresh(r, s[kind]) \/ verify(r, s[kind]) \/ get_me(r, s[kind])
    BY DEF Ask
  <2>6. CASE \E form \in Form : register(r, form) \/ login(r, form)
    BY <2>1, <2>3, <2>6
  <2>7. CASE \E s \in issued, kind \in {"access", "refresh"} :
               refresh(r, s[kind]) \/ verify(r, s[kind]) \/ get_me(r, s[kind])
    <3>1. PICK s \in issued, kind \in {"access", "refresh"} :
            refresh(r, s[kind]) \/ verify(r, s[kind]) \/ get_me(r, s[kind])
      BY <2>7
    <3>2. \E o \in {"refresh", "verify", "me"}, p \in {"connect", "done"}, a \in Answers :
            Asks(r, o, [token |-> s[kind], at |-> now], p, a)
      BY <2>2, <3>1
    <3> QED
      BY <2>3, <2>4, <3>2
  <2> QED
    BY <2>5, <2>6, <2>7
<1>2. /\ phase[r] = "new" /\ op' = [op EXCEPT ![r] = o] /\ asked' = [asked EXCEPT ![r] = what]
      /\ UNCHANGED <<now, users, issued, crashes>>
  BY <1>1 DEF Asks, Begin
<1>3. Types'
  BY <1>1, <1>2 DEF Asks, Types, Phases, UnderWay
<1>4. PoolKept'
  <2>1. InPool' \subseteq InPool
    BY <1>1, <1>2 DEF Asks, InPool, Connected, Types
  <2> QED
    BY <2>1, PoolShrinks
<1>5. OneRowEach' /\ RowsRegistered' /\ CommitsApart'
  BY <1>1, <1>2, RowsKept DEF Asks, Types
<1>6. TokensFit'
  BY <1>2 DEF TokensFit
<1>7. \A q \in Requests : AskedFits(q)' /\ AnswerFits(q)'
  <2>1. ASSUME NEW q \in Requests, q # r PROVE AskedFits(q)' /\ AnswerFits(q)'
    BY <1>1, <1>2, <2>1, Untouched DEF Asks, Types
  <2>2. /\ op'[r] = o /\ asked'[r] = what /\ phase'[r] = p /\ answer'[r] = a
    BY <1>1, <1>2 DEF Asks, Types
  <2>3. AskedFits(r)'
    BY <1>1, <1>2, <2>2 DEF Asks, AskedFits
  <2>4. AnswerFits(r)'
    <3>1. now \in Nat
      BY TimeAssumption DEF Types
    <3>2. a = "denied" => what \in [token: Token, at: Nat] /\ what.token.expires \in Nat
      BY <1>1 DEF Asks, Token
    <3> QED
      BY <1>1, <1>2, <2>2, <3>1, <3>2 DEF Asks, AnswerFits, Accepted
  <2> QED
    BY <2>1, <2>3, <2>4
<1> QED
  BY <1>3, <1>4, <1>5, <1>6, <1>7

\* A step that moves one request without a word to the tables keeps the rest.
LEMMA MoveNext ==
  ASSUME IInv, NEW r \in Requests, NEW p \in Phases, NEW a \in Answers,
         phase[r] \in UnderWay, p # "commit",
         phase' = [phase EXCEPT ![r] = p], answer' = [answer EXCEPT ![r] = a],
         UNCHANGED <<now, users, op, asked, issued, crashes>>,
         p \in Connected => Room \/ phase[r] \in Connected,
         AskedFits(r)', AnswerFits(r)'
  PROVE  IInv'
<1> USE DEF IInv
<1>1. Types'
  BY DEF Types
<1>2. PoolKept'
  <2>1. CASE p \in Connected /\ phase[r] \notin Connected
    <3>1. InPool' \subseteq InPool \cup {r}
      BY DEF InPool, Types
    <3> QED
      BY <2>1, <3>1, PoolGrows
  <2>2. CASE p \notin Connected \/ phase[r] \in Connected
    <3>1. InPool' \subseteq InPool
      BY <2>2 DEF InPool, Types
    <3> QED
      BY <3>1, PoolShrinks
  <2> QED
    BY <2>1, <2>2
<1>3. OneRowEach' /\ RowsRegistered' /\ CommitsApart'
  BY RowsKept DEF Types, UnderWay, Connected
<1>4. TokensFit'
  BY DEF TokensFit
<1>5. ASSUME NEW q \in Requests, q # r PROVE AskedFits(q)' /\ AnswerFits(q)'
  BY <1>5, Untouched DEF Types
<1> QED
  BY <1>1, <1>2, <1>3, <1>4, <1>5

\* A request waits for the pool, looks for the e-mail or fails.
LEMMA ServeNext ==
  ASSUME IInv, NEW r \in Requests,
         Connect(r) \/ exists_user_by_email(r) \/ StatementFails(r)
  PROVE  IInv'
<1>1. PICK p \in Phases, a \in Answers :
        /\ phase[r] \in UnderWay /\ p # "commit"
        /\ phase' = [phase EXCEPT ![r] = p] /\ answer' = [answer EXCEPT ![r] = a]
        /\ UNCHANGED <<now, users, op, asked, issued, crashes>>
        /\ p \in Connected => Room \/ phase[r] \in Connected
        /\ \/ phase[r] = "connect" /\ a = "none"
              /\ p = IF op[r] = "register" THEN "exists" ELSE "select"
           \/ phase[r] = "exists" /\ p = "insert" /\ a = "none"
           \/ /\ phase[r] = "exists" /\ p = "done" /\ a = "exists"
              /\ HasEmail(asked[r].email)
           \/ p = "done" /\ a = "error"
  <2>1. phase[r] \in UnderWay => answer[r] = "none"
    BY DEF IInv, AnswerFits, UnderWay, Connected
  <2>2. answer = [answer EXCEPT ![r] = answer[r]]
    BY DEF IInv, Types
  <2>3. CASE Connect(r)
    BY <2>1, <2>2, <2>3 DEF Connect, Return, Go, requestVars, UnderWay, Connected, Phases, Answers
  <2>4. CASE exists_user_by_email(r)
    BY <2>1, <2>2, <2>4 DEF exists_user_by_email, Return, Go, requestVars, UnderWay, Connected,
                            Phases, Answers
  <2>5. CASE StatementFails(r)
    BY <2>1, <2>2, <2>5 DEF StatementFails, Return, Go, requestVars, UnderWay, Connected,
                            Phases, Answers
  <2> QED
    BY <2>3, <2>4, <2>5
<1>2. AskedFits(r)' /\ AnswerFits(r)'
  <2>1. phase'[r] = p /\ answer'[r] = a /\ AskedFits(r) /\ AnswerFits(r)
    BY <1>1 DEF IInv, Types
  <2> QED
    BY <1>1, <2>1 DEF AskedFits, AnswerFits, HasEmail, NewUser
<1> QED
  BY <1>1, <1>2, MoveNext

\* An INSERT: against a committed row it fails; the index makes it wait for an
\* uncommitted one, so that the e-mails about to be committed stay apart.
LEMMA InsertNext ==
  ASSUME IInv, NEW r \in Requests, create_user(r)
  PROVE  IInv'
<1> USE DEF IInv
<1>1. phase[r] = "insert" /\ answer[r] = "none" /\ op[r] = "register"
  BY DEF create_user, AskedFits, AnswerFits
<1>2. CASE HasEmail(asked[r].email)
  <2>1. /\ phase' = [phase EXCEPT ![r] = "done"] /\ answer' = [answer EXCEPT ![r] = "error"]
        /\ UNCHANGED <<now, users, op, asked, issued, crashes>>
    BY <1>2 DEF create_user, Return, Go, requestVars
  <2>2. AskedFits(r)' /\ AnswerFits(r)'
    <3>1. phase'[r] = "done" /\ answer'[r] = "error" /\ AskedFits(r)
      BY <2>1 DEF Types
    <3> QED
      BY <2>1, <3>1 DEF AskedFits, AnswerFits
  <2> QED
    BY <1>1, <2>1, <2>2, MoveNext DEF Phases, UnderWay, Connected, Answers
<1>3. CASE ~HasEmail(asked[r].email)
  <2>1. /\ phase' = [phase EXCEPT ![r] = "commit"]
        /\ UNCHANGED <<now, users, op, asked, answer, issued, crashes>>
    BY <1>3 DEF create_user, Go, requestVars
  <2>2. Types'
    BY <2>1 DEF Types, Phases, UnderWay, Connected
  <2>3. PoolKept'
    <3>1. InPool' \subseteq InPool
      BY <1>1, <2>1 DEF InPool, Connected, Types
    <3> QED
      BY <3>1, PoolShrinks
  <2>4. OneRowEach' /\ TokensFit'
    BY <2>1 DEF OneRowEach, TokensFit
  <2>5. RowsRegistered'
    BY <1>1, <2>1 DEF RowsRegistered, NewUser, Types, User
  <2>6. CommitsApart'
    <3>1. \A q \in Requests : phase'[q] = "commit" <=> q = r \/ phase[q] = "commit"
      BY <2>1 DEF Types
    <3>2. \A q \in Requests \ {r} : phase[q] = "commit" => asked[q].email # asked[r].email
      BY DEF create_user, IndexFree
    <3> QED
      BY <1>3, <2>1, <3>1, <3>2 DEF CommitsApart, HasEmail
  <2>7. \A q \in Requests : AskedFits(q)' /\ AnswerFits(q)'
    <3>1. ASSUME NEW q \in Requests, q # r PROVE AskedFits(q)' /\ AnswerFits(q)'
      BY <2>1, <3>1, Untouched DEF Types
    <3>2. AskedFits(r)' /\ AnswerFits(r)'
      <4>1. phase'[r] = "commit" /\ AskedFits(r)
        BY <2>1 DEF Types
      <4> QED
        BY <1>1, <2>1, <4>1 DEF AskedFits, AnswerFits
    <3> QED
      BY <3>1, <3>2
  <2> QED
    BY <2>2, <2>3, <2>4, <2>5, <2>6, <2>7
<1> QED
  BY <1>2, <1>3

\* A commit adds the only row of its e-mail.
LEMMA CommitNext ==
  ASSUME IInv, NEW r \in Requests, Commit(r)
  PROVE  IInv'
<1> USE DEF IInv
<1>1. PICK a \in {"created", "error"} :
        /\ phase' = [phase EXCEPT ![r] = "done"] /\ answer' = [answer EXCEPT ![r] = a]
        /\ users' = users \cup {NewUser(r)}
        /\ UNCHANGED <<now, op, asked, issued, crashes>>
  BY DEF Commit, Return, Go, requestVars
<1>2. /\ phase[r] = "commit" /\ op[r] = "register" /\ asked[r] \in Form /\ NewUser(r)' = NewUser(r)
      /\ phase'[r] = "done" /\ answer'[r] = a /\ AskedFits(r)
  BY <1>1 DEF Commit, AskedFits, NewUser, Types
<1>3. NewUser(r) \in User /\ NewUser(r).email = asked[r].email /\ NewUser(r).id = r
  BY <1>2 DEF NewUser, User, Form
<1>4. Types'
  BY <1>1, <1>3 DEF Types, Phases, Answers
<1>5. PoolKept'
  <2>1. InPool' \subseteq InPool
    BY <1>1 DEF InPool, Connected, Types
  <2> QED
    BY <2>1, PoolShrinks
<1>6. OneRowEach'
  <2>1. \A u \in users : u.email # asked[r].email
    BY <1>2 DEF CommitsApart, HasEmail
  <2> QED
    BY <1>1, <1>3, <2>1 DEF OneRowEach
<1>7. RowsRegistered'
  <2>1. ASSUME NEW u \in users
        PROVE  (u = NewUser(u.id) /\ op[u.id] = "register" /\ phase[u.id] = "done")'
    <3>1. u.id \in Requests /\ u = NewUser(u.id) /\ op[u.id] = "register" /\ phase[u.id] = "done"
      BY DEF RowsRegistered, Types, User
    <3> QED
      BY <1>1, <3>1 DEF Types, NewUser
  <2> QED
    BY <1>1, <1>2, <1>3, <2>1 DEF RowsRegistered
<1>8. CommitsApart'
  <2>1. ASSUME NEW q \in Requests, phase'[q] = "commit"
        PROVE  phase[q] = "commit" /\ q # r /\ asked[q].email # asked[r].email
    BY <1>1, <1>2, <2>1 DEF Types, CommitsApart
  <2> QED
    BY <1>1, <1>3, <2>1 DEF CommitsApart, HasEmail
<1>9. TokensFit'
  BY <1>1 DEF TokensFit
<1>10. ASSUME NEW q \in Requests, q # r PROVE AskedFits(q)' /\ AnswerFits(q)'
  BY <1>1, <1>10, Untouched DEF Types
<1>11. AskedFits(r)' /\ AnswerFits(r)'
  BY <1>1, <1>2 DEF AskedFits, AnswerFits
<1> QED
  BY <1>4, <1>5, <1>6, <1>7, <1>8, <1>9, <1>10, <1>11

\* A query for the user: an account with a token is found, and new tokens name
\* the account that was found.
LEMMA SelectNext ==
  ASSUME IInv, NEW r \in Requests, select_user(r)
  PROVE  IInv'
<1> USE DEF IInv
<1>1. phase[r] = "select" /\ answer[r] = "none" /\ op[r] \in {"login", "refresh", "me"} /\ AskedFits(r)
  BY DEF select_user, AskedFits, AnswerFits
<1>2. PICK a \in {"denied", "valid", "tokens"} :
        phase' = [phase EXCEPT ![r] = "done"] /\ answer' = [answer EXCEPT ![r] = a]
  BY DEF select_user, Return, Go
<1>3. a = "denied" => op[r] = "login"
  <2>1. SUFFICES ASSUME a = "denied", op[r] # "login" PROVE FALSE
    OBVIOUS
  <2>2. Found(r) # {} /\ \A u \in Found(r) : PasswordFits(r, u)
    BY <1>1, <2>1 DEF AskedFits, Found, PasswordFits
  <2>3. answer'[r] = "denied"
    BY <1>2, <2>1 DEF Types
  <2> QED
    BY <2>2, <2>3 DEF select_user, Return, Types
<1>4. /\ UNCHANGED <<now, users, op, asked, crashes>>
      /\ issued' = issued \/ \E u \in users : issued' = issued \cup {TokenResponse(u.id)}
  BY DEF select_user, requestVars, Found
<1>5. Types'
  <2>1. ASSUME NEW u \in users PROVE TokenResponse(u.id) \in Response
    BY TimeAssumption DEF TokenResponse, Response, Token, User, Types
  <2> QED
    BY <1>2, <1>4, <2>1 DEF Types, Phases, Answers
<1>6. PoolKept'
  <2>1. InPool' \subseteq InPool
    BY <1>2 DEF InPool, Connected, Types
  <2> QED
    BY <2>1, PoolShrinks
<1>7. OneRowEach' /\ RowsRegistered' /\ CommitsApart'
  BY <1>2, <1>4, RowsKept DEF Types
<1>8. TokensFit'
  BY <1>4 DEF TokensFit, TokenResponse
<1>9. ASSUME NEW q \in Requests, q # r PROVE AskedFits(q)' /\ AnswerFits(q)'
  BY <1>2, <1>4, <1>9, Untouched DEF Types
<1>10. AskedFits(r)' /\ AnswerFits(r)'
  <2>1. phase'[r] = "done" /\ answer'[r] = a
    BY <1>2 DEF Types
  <2> QED
    BY <1>1, <1>3, <1>4, <2>1 DEF AskedFits, AnswerFits
<1> QED
  BY <1>5, <1>6, <1>7, <1>8, <1>9, <1>10

\* Time passes, or the service dies and its requests with it.
LEMMA WorldNext ==
  ASSUME IInv, Tick \/ Crash \/ UNCHANGED vars
  PROVE  IInv'
<1> USE DEF IInv
<1>1. /\ UNCHANGED <<users, op, asked, answer, issued>>
      /\ \/ phase' = phase
         \/ phase' = [q \in Requests |-> IF phase[q] \in UnderWay THEN "dead" ELSE phase[q]]
  BY DEF Tick, Crash, vars, requestVars
<1>2. Types'
  <2>1. now' \in 0 .. MaxTime /\ crashes' \in 0 .. MaxCrashes
    BY TimeAssumption, BoundAssumption DEF Types, Tick, Crash, vars
  <2> QED
    BY <1>1, <2>1 DEF Types, Phases
<1>3. PoolKept'
  <2>1. InPool' \subseteq InPool
    BY <1>1 DEF InPool, UnderWay, Connected, Types
  <2> QED
    BY <2>1, PoolShrinks
<1>4. OneRowEach' /\ RowsRegistered' /\ CommitsApart'
  BY <1>1, RowsKept DEF Types, UnderWay, Connected
<1>5. TokensFit'
  BY <1>1 DEF TokensFit
<1>6. ASSUME NEW q \in Requests PROVE AskedFits(q)' /\ AnswerFits(q)'
  <2>1. AskedFits(q) /\ AnswerFits(q) /\ (phase'[q] = phase[q] \/ (phase[q] \in UnderWay /\ phase'[q] = "dead"))
    BY <1>1 DEF Types
  <2>2. CASE phase'[q] = phase[q]
    BY <1>1, <2>2, Untouched
  <2>3. CASE phase[q] \in UnderWay /\ phase'[q] = "dead"
    BY <1>1, <2>1, <2>3 DEF AskedFits, AnswerFits, UnderWay, Connected, HasEmail, NewUser
  <2> QED
    BY <2>1, <2>2, <2>3
<1> QED
  BY <1>2, <1>3, <1>4, <1>5, <1>6

-----------------------------------------------------------------------------
\* The inductive invariant holds in every reachable state.
THEOREM Invariance == Spec => []IInv
<1>1. IInv /\ [Next]_vars => IInv'
  BY AskNext, ServeNext, InsertNext, CommitNext, SelectNext, WorldNext DEF Next, Serve
<1> QED
  BY <1>1, InitIInv, PTL DEF Spec

\* Every variable keeps to its type, the pool lends no more connections than it
\* has, and no two rows have the same e-mail, though registrations look for the
\* e-mail, insert the row and commit it in separate steps.
THEOREM TypeCorrect == Spec => []TypeOK
<1>1. IInv => TypeOK
  BY DEF IInv, Types, PoolKept, OneRowEach, TypeOK
<1> QED
  BY <1>1, Invariance, PTL

\* An account that was reported made is there for good, under its maker's
\* password, and "exists" was said of a committed one only.
THEOREM AccountsStand == Spec => []RegistrationStands
<1>1. IInv => RegistrationStands
  <2> SUFFICES ASSUME IInv, NEW r \in Requests
               PROVE  /\ answer[r] = "created" =>
                           {u \in users : u.email = asked[r].email} = {NewUser(r)}
                      /\ answer[r] = "exists" => HasEmail(asked[r].email)
    BY DEF RegistrationStands
  <2>1. AnswerFits(r) /\ OneRowEach /\ NewUser(r).email = asked[r].email
    BY DEF IInv, NewUser
  <2> QED
    BY <2>1 DEF AnswerFits, OneRowEach
<1> QED
  BY <1>1, Invariance, PTL

\* No token is refused before the end of the life its response gave it.
THEOREM TokensKeepTheirLife == Spec => []TokensLast
<1>1. IInv => TokensLast
  <2> SUFFICES ASSUME IInv, NEW r \in Requests, NEW s \in issued
               PROVE  /\ (/\ op[r] \in {"verify", "me"} /\ asked[r].token = s.access
                          /\ asked[r].at <= s.at + AccessLife) => answer[r] # "denied"
                      /\ (/\ op[r] = "refresh" /\ asked[r].token = s.refresh
                          /\ asked[r].at <= s.at + RefreshLife) => answer[r] # "denied"
    BY DEF TokensLast
  <2>1. AnswerFits(r) /\ AskedFits(r)
    BY DEF IInv
  <2>2. /\ s.access.type = "access" /\ s.access.expires = s.at + AccessLife
        /\ s.refresh.type = "refresh" /\ s.refresh.expires = s.at + RefreshLife
        /\ s.at \in Nat
    BY DEF IInv, TokensFit, Types, Response
  <2>3. op[r] \in {"refresh", "verify", "me"} => asked[r].at \in Nat
    BY <2>1 DEF AskedFits
  <2> QED
    BY <2>1, <2>2, <2>3, TimeAssumption DEF AnswerFits
<1> QED
  BY <1>1, Invariance, PTL
=============================================================================
