------------------------------- MODULE Catalogue ------------------------------
(***************************************************************************)
(* Products, product pages and their cache                                 *)
(*   src/services/product/go/internal/handler/product.go                   *)
(*   src/services/product/go/internal/repository/cached_repository.go      *)
(*   src/services/product/go/internal/repository/db_repository.go          *)
(*   src/services/product/go/internal/db/query.sql.go                      *)
(*                                                                         *)
(* Redis keeps product:{id} and products:list:{limit}:{offset} for a time  *)
(* to live.  A reader looks a key up, asks the database if it is not       *)
(* there, and stores what it got; a writer commits and then deletes the    *)
(* product's key, and, except after a change of stock, every page's, which *)
(* it finds with SCAN.  Each Redis command and SQL statement is one step.  *)
(* A row is known by the number of its changes: info counts what           *)
(* CreateProduct and UpdateProduct wrote, units the changes of its stock.  *)
(***************************************************************************)
EXTENDS Integers, Sequences, FiniteSetsExt

CONSTANTS Products,       \* products that exist or may be created
          Existing,       \* those that exist at first, oldest first
          Categories,
          Pages,          \* what lists are asked for: category, limit, skip
          MaxRequests,    \* bound: requests in a behaviour
          Faults,         \* may a command or statement fail, an instance die?
          Absent          \* no row, no key, no category (NULL)

CategoryOrNull == Categories \cup {Absent}

ASSUME ProductsAssumption == IsFiniteSet(Products) /\ Products \cap Pages = {}
ASSUME ExistingAssumption == Existing \in Seq(Products) /\ IsInjective(Existing)
ASSUME PageAssumption ==
  Pages \subseteq [category: CategoryOrNull, limit: Nat \ {0}, skip: Nat]
ASSUME BoundAssumption == MaxRequests \in Nat /\ Faults \in BOOLEAN
VARIABLES
  created,    \* the products by created_at, oldest first
  row,        \* [Products -> row or Absent], the committed rows
  cache,      \* [Keys -> Seq(Copy) or Absent], Redis
  phase,      \* [Requests -> Phases], what each request does next
  op,         \* [Requests -> Ops]
  about,      \* the product or the page a request is about
  seen,       \* the rows a reader holds
  total,      \* the total a list is answered with
  found,      \* the pages a SCAN has yet to return
  answer,     \* what the request returned
  late        \* history: the keys only their time to live will mend

requestVars == <<op, about>>
vars == <<created, row, cache, phase, requestVars, seen, total, found, answer, late>>

Requests == 1 .. MaxRequests
Copy == [product: Products, info: Nat, units: Nat]
Row == [info: Nat, units: Nat, category: CategoryOrNull]
\* A list by category is not cached.
Lists == {p \in Pages : p.category = Absent}
Keys == Products \cup Lists
Resting == {"new", "done", "dead"}
Phases == Resting \cup {"commit", "invalidate", "scan", "delete", "lookup", "fetch", "fill", "count"}
Ops == {"none", "create", "update", "stock", "get", "list"}

ASSUME AbsentAssumption ==
  Absent \notin Products \cup Categories \cup Pages \cup Row \cup Seq(Copy)

Init ==
  /\ created = Existing
  /\ row = [p \in Products |->
       IF p \in Range(Existing) THEN [info |-> 1, units |-> 0, category |-> Absent] ELSE Absent]
  /\ cache = [k \in Keys |-> Absent]
  /\ phase = [r \in Requests |-> "new"]
  /\ op = [r \in Requests |-> "none"]
  /\ about = [r \in Requests |-> Absent]
  /\ seen = [r \in Requests |-> <<>>]
  /\ total = [r \in Requests |-> 0]
  /\ found = [r \in Requests |-> {}]
  /\ answer = [r \in Requests |-> "none"]
  /\ late = {}

-----------------------------------------------------------------------------
(* The queries *)

CopyOf(p) == [product |-> p, info |-> row[p].info, units |-> row[p].units]

\* created_at is later.
Newer(p, q) == \E i, j \in DOMAIN created : j < i /\ created[i] = p /\ created[j] = q

\* WHERE ...
Matching(c) == {p \in Products : row[p] # Absent /\ (c = Absent \/ row[p].category = c)}

\* ORDER BY created_at DESC
Orders(c) ==
  {s \in [1 .. Cardinality(Matching(c)) -> Matching(c)] :
     \A i, j \in DOMAIN s : i < j => Newer(s[i], s[j])}
Listed(c) == CHOOSE s \in Orders(c) : TRUE

\* Slip: one row too many.
LimitAndOne(s, page) == SubSeq(s, page.skip + 1, Min({Len(s), page.skip + page.limit + 1}))
\* LIMIT ... OFFSET ...
Slice(s, page) == SubSeq(s, page.skip + 1, Min({Len(s), page.skip + page.limit}))

ListProducts(page) ==
  LET ids == Slice(Listed(page.category), page) IN [i \in 1 .. Len(ids) |-> CopyOf(ids[i])]

Select(k) == IF k \in Products THEN <<CopyOf(k)>> ELSE ListProducts(k)

\* Slip: the total is the length of the page.
LengthOfPage(r) == Len(seen[r])
CountProducts(r) == Cardinality(Matching(about[r].category))

-----------------------------------------------------------------------------
Go(r, next) == phase' = [phase EXCEPT ![r] = next]
Return(r, a) == Go(r, "done") /\ answer' = [answer EXCEPT ![r] = a]

Present(ks) == {k \in ks : cache[k] # Absent}

\* The keys a writer has committed a change to and not yet deleted.
Pending(r) ==
  CASE phase[r] = "invalidate" -> {about[r]} \cup (IF op[r] = "stock" THEN {} ELSE Lists)
    [] phase[r] = "scan" -> Lists
    [] phase[r] = "delete" -> found[r]
    [] OTHER -> {}

\* DEL, or the end of the time to live: a SCAN need not return the key again.
Drop(k) ==
  /\ cache' = [cache EXCEPT ![k] = Absent]
  /\ late' = late \ {k}
  /\ found' = [r \in Requests |-> found[r] \ {k}]

\* Requests are interchangeable: they begin in the order of their numbers.
Begin(r, o, what) ==
  /\ phase[r] = "new"
  /\ \A q \in Requests : q < r => phase[q] # "new"
  /\ op' = [op EXCEPT ![r] = o]
  /\ about' = [about EXCEPT ![r] = what]
  /\ UNCHANGED <<row, cache, seen, total, found, answer, late>>

-----------------------------------------------------------------------------
(***************************************************************************)
(* CreateProduct, UpdateProduct, and the stock writers' UpdateStock: one   *)
(* statement, then the invalidations.  created_at is the time the INSERT   *)
(* began, which need not be the order of the commits.                      *)
(***************************************************************************)
CreateProduct(r, p) ==
  /\ p \notin Range(created)
  /\ Begin(r, "create", p)
  /\ created' = Append(created, p)
  /\ Go(r, "commit")

UpdateProduct(r, p) ==
  /\ Begin(r, "update", p)
  /\ Go(r, "commit")
  /\ UNCHANGED created

UpdateStock(r, p) ==
  /\ Begin(r, "stock", p)
  /\ Go(r, "commit")
  /\ UNCHANGED created

Inserted(c) == [info |-> 1, units |-> 0, category |-> c]

\* A PATCH that omits the category keeps it.
Updated(old, c) ==
  [old EXCEPT !.info = @ + 1, !.category = IF c = Absent THEN @ ELSE c]

Restocked(old) == [old EXCEPT !.units = @ + 1]

Written(r, c) ==
  CASE op[r] = "create" -> Inserted(c)
    [] op[r] = "update" -> Updated(row[about[r]], c)
    [] OTHER -> Restocked(row[about[r]])

AfterCommit(r) == IF op[r] = "create" THEN "scan" ELSE "invalidate"

Commit(r, c) ==
  LET p == about[r] IN
  /\ phase[r] = "commit"
  /\ op[r] = "create" \/ row[p] # Absent
  /\ row' = [row EXCEPT ![p] = Written(r, c)]
  /\ \/ Go(r, AfterCommit(r)) /\ UNCHANGED <<answer, late>>
     \* The answer of the database is lost: nothing is invalidated.
     \/ /\ Faults
        /\ Return(r, "error")
        /\ late' = late \cup Present(Lists \cup {p})
  /\ UNCHANGED <<created, cache, requestVars, seen, total, found>>

\* Slip: the cache is written before the commit.
WrittenThrough(r) ==
  /\ phase[r] = "commit"
  /\ Faults
  /\ op[r] = "update" /\ row[about[r]] # Absent
  /\ cache' = [cache EXCEPT ![about[r]] =
       <<[product |-> about[r], info |-> Written(r, Absent).info, units |-> Written(r, Absent).units]>>]
  /\ Return(r, "error")
  /\ UNCHANGED <<created, row, requestVars, seen, total, found, late>>

\* No such row, or a statement that fails without effect.
WriteFails(r) ==
  /\ phase[r] = "commit"
  /\ Faults \/ (op[r] # "create" /\ row[about[r]] = Absent)
  /\ Return(r, "error")
  /\ UNCHANGED <<created, row, cache, requestVars, seen, total, found, late>>

\* Slip: an update of a product leaves the pages alone.
PagesKept(r) == Return(r, "ok")
AfterDelete(r) ==
  IF op[r] = "update" THEN Go(r, "scan") /\ UNCHANGED answer ELSE Return(r, "ok")

\* The error of a DEL is ignored.
InvalidateProduct(r) ==
  /\ phase[r] = "invalidate"
  /\ \/ Drop(about[r])
     \/ Faults /\ late' = late \cup Present({about[r]}) /\ UNCHANGED <<cache, found>>
  /\ AfterDelete(r)
  /\ UNCHANGED <<created, row, requestVars, seen, total>>

\* SCAN returns every key that is there from its start to its end.
StartScan(r) ==
  /\ phase[r] = "scan"
  /\ found' = [found EXCEPT ![r] = Present(Lists)]
  /\ Go(r, "delete")
  /\ UNCHANGED <<created, row, cache, requestVars, seen, total, answer, late>>

\* It may return a key that came later, too.  A DEL fails, or the SCAN itself
\* and with it all that is left: both are ignored.
DeletePage(r, k) ==
  /\ phase[r] = "delete"
  /\ cache[k] # Absent
  /\ \/ Drop(k)
     \/ /\ Faults /\ k \in found[r]
        /\ found' = [found EXCEPT ![r] = @ \ {k}]
        /\ late' = late \cup {k}
        /\ UNCHANGED cache
  /\ UNCHANGED <<created, row, phase, requestVars, seen, total, answer>>

EndScan(r) ==
  /\ phase[r] = "delete"
  /\ found[r] = {}
  /\ Return(r, "ok")
  /\ UNCHANGED <<created, row, cache, requestVars, seen, total, found, late>>

-----------------------------------------------------------------------------
(***************************************************************************)
(* GetProduct, GetStock, the gRPC GetProduct, and ListProducts.            *)
(***************************************************************************)
Get(r, p) ==
  /\ Begin(r, "get", p)
  /\ Go(r, "lookup")
  /\ UNCHANGED created

List(r, page) ==
  /\ Begin(r, "list", page)
  /\ Go(r, IF page \in Lists THEN "lookup" ELSE "fetch")
  /\ UNCHANGED created

\* A list goes on to count.
Hold(r, rows) ==
  /\ seen' = [seen EXCEPT ![r] = rows]
  /\ IF op[r] = "list" THEN Go(r, "count") /\ UNCHANGED answer ELSE Return(r, "ok")

Lookup(r) ==
  /\ phase[r] = "lookup"
  /\ \/ cache[about[r]] # Absent /\ Hold(r, cache[about[r]])
     \/ /\ cache[about[r]] = Absent \/ Faults
        /\ Go(r, "fetch")
        /\ UNCHANGED <<seen, answer>>
  /\ UNCHANGED <<created, row, cache, requestVars, total, found, late>>

Fetch(r) ==
  /\ phase[r] = "fetch"
  /\ \/ /\ about[r] \in Products => row[about[r]] # Absent
        /\ IF about[r] \in Keys
           THEN /\ seen' = [seen EXCEPT ![r] = Select(about[r])]
                /\ Go(r, "fill")
                /\ UNCHANGED answer
           ELSE Hold(r, Select(about[r]))
     \/ /\ Faults \/ (about[r] \in Products /\ row[about[r]] = Absent)
        /\ Return(r, "error")
        /\ UNCHANGED seen
  /\ UNCHANGED <<created, row, cache, requestVars, total, found, late>>

\* The stocks on a page are not a writer's concern, those of a product are.
Concern(k, rows) ==
  IF k \in Products THEN rows ELSE [i \in DOMAIN rows |-> [rows[i] EXCEPT !.units = 0]]
UpToDate(k, rows) ==
  /\ k \in Products => row[k] # Absent
  /\ Concern(k, rows) = Concern(k, Select(k))

\* SET replaces the key; its error is ignored.  If its reply is lost go-redis
\* sends it again, a few times that are not counted here.
Fill(r) ==
  LET k == about[r] IN
  /\ phase[r] = "fill"
  /\ \/ /\ cache' = [cache EXCEPT ![k] = seen[r]]
        /\ late' = IF UpToDate(k, seen[r]) THEN late \ {k} ELSE late \cup {k}
        /\ Hold(r, seen[r]) \/ (Faults /\ UNCHANGED <<phase, seen, answer>>)
     \/ Faults /\ UNCHANGED <<cache, late>> /\ Hold(r, seen[r])
  /\ UNCHANGED <<created, row, requestVars, total, found>>

\* The error of the count is ignored and the total is 0.
Count(r) ==
  /\ phase[r] = "count"
  /\ \/ total' = [total EXCEPT ![r] = CountProducts(r)]
     \/ Faults /\ UNCHANGED total
  /\ Return(r, "ok")
  /\ UNCHANGED <<created, row, cache, requestVars, seen, found, late>>

-----------------------------------------------------------------------------
Expire(k) ==
  /\ cache[k] # Absent
  /\ Drop(k)
  /\ UNCHANGED <<created, row, phase, requestVars, seen, total, answer>>

\* The instance that serves r dies: what r had still to delete stays.
Die(r) ==
  /\ Faults
  /\ phase[r] \notin Resting
  /\ Go(r, "dead")
  /\ found' = [found EXCEPT ![r] = {}]
  /\ late' = late \cup Present(Pending(r))
  /\ UNCHANGED <<created, row, cache, requestVars, seen, total, answer>>

Ask(r) ==
  \/ \E p \in Products :
       \/ CreateProduct(r, p)
       \/ UpdateProduct(r, p)
       \/ UpdateStock(r, p)
       \/ Get(r, p)
  \/ \E page \in Pages : List(r, page)

Serve(r) ==
  \/ \E c \in CategoryOrNull : Commit(r, c)
  \/ WriteFails(r)
  \/ InvalidateProduct(r)
  \/ StartScan(r)
  \/ \E k \in Lists : DeletePage(r, k)
  \/ EndScan(r)
  \/ Lookup(r)
  \/ Fetch(r)
  \/ Fill(r)
  \/ Count(r)

Next ==
  \/ \E r \in Requests : Ask(r) \/ Serve(r) \/ Die(r)
  \/ \E k \in Keys : Expire(k)

Spec == Init /\ [][Next]_vars

-----------------------------------------------------------------------------
(* Properties *)

WithinLimit(k, rows) == Len(rows) <= IF k \in Products THEN 1 ELSE k.limit

\* Every variable keeps to its type: a key holds copies of its own product or
\* no more rows than its page's limit.
TypeOK ==
  /\ created \in Seq(Products)
  /\ row \in [Products -> Row \cup {Absent}]
  /\ cache \in [Keys -> Seq(Copy) \cup {Absent}]
  /\ \A k \in Present(Keys) : WithinLimit(k, cache[k])
  /\ phase \in [Requests -> Phases]
  /\ op \in [Requests -> Ops]
  /\ about \in [Requests -> Products \cup Pages \cup {Absent}]
  /\ seen \in [Requests -> Seq(Copy)]
  /\ total \in [Requests -> Nat]
  /\ found \in [Requests -> SUBSET Lists]
  /\ answer \in [Requests -> {"none", "ok", "error"}]
  /\ late \subseteq Present(Keys)

\* The page may come from the cache and the total from the database, at two
\* moments; still the total of a list of all products covers its page, unless
\* the count failed (total 0), because the page is read first and products are
\* never deleted.
TotalCoversPage ==
  \A r \in Requests :
    (op[r] = "list" /\ answer[r] = "ok" /\ about[r] \in Lists /\ total[r] # 0 /\ seen[r] # <<>>)
      => about[r].skip + Len(seen[r]) <= total[r]

\* A key is out of date only while the writer that outdated it has yet to
\* delete it, or until its time to live when it was out of date already when
\* it was stored, or when the deletion failed.  Neither commits that overlap
\* nor a SCAN among new pages leave another stale key.  Pages are out of date
\* in what they say of products and their order; their stocks always may be.
StaleOnlyIfLate ==
  \A k \in Present(Keys) :
    UpToDate(k, cache[k]) \/ k \in late \/ \E r \in Requests : k \in Pending(r)

\* The cache as ProductReads sees it: the newest version of a product is its
\* row's, the oldest any copy of it anywhere.
Copies ==
  UNION ({Range(cache[k]) : k \in Present(Keys)}
         \cup {Range(seen[r]) : r \in {q \in Requests : phase[q] \in {"fill", "count"}}})
Latest == [p \in Products |-> IF row[p] = Absent THEN 0 ELSE row[p].info]
Oldest == [p \in Products |-> Min({Latest[p]} \cup {c.info : c \in {d \in Copies : d.product = p}})]
Shown == [r \in Requests |->
  IF answer[r] = "ok" THEN {[product |-> c.product, version |-> c.info] : c \in Range(seen[r])} ELSE {}]

reads == INSTANCE ProductReads
  WITH Products <- Products, Readers <- Requests,
       latest <- Latest, oldest <- Oldest, shown <- Shown

\* Whatever fails, dies or comes late, readers are shown committed versions
\* only, and a version that has died out does not come back.
ImplementsProductReads == reads!Spec
=============================================================================
