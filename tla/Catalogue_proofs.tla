---------------------------- MODULE Catalogue_proofs ---------------------------
(***************************************************************************)
(* Theorems about Catalogue, for any products, categories and pages, any   *)
(* number of requests, with or without faults: what is cached, what is     *)
(* counted and what is shown, and that readers see what ProductReads       *)
(* promises.                                                               *)
(***************************************************************************)
EXTENDS Catalogue, Sums_proofs, SequenceTheorems

-----------------------------------------------------------------------------
(***************************************************************************)
(* The inductive invariant, by parts.                                      *)
(***************************************************************************)
\* What each request may be doing, about what, and what it has in hand.
Placed(r) ==
  /\ phase[r] # "done" => answer[r] = "none"
  /\ phase[r] = "commit" => op[r] \in {"create", "update", "stock"} /\ about[r] \in Products
  /\ phase[r] = "invalidate" => op[r] \in {"update", "stock"} /\ about[r] \in Products
  /\ phase[r] \in {"scan", "delete"} => op[r] \in {"create", "update"}
  /\ phase[r] \in {"lookup", "fill"} => about[r] \in Keys
  /\ phase[r] \in {"lookup", "fetch", "fill"} =>
       \/ op[r] = "get" /\ about[r] \in Products
       \/ op[r] = "list" /\ about[r] \in Pages
  /\ phase[r] = "count" => op[r] = "list" /\ about[r] \in Pages
  /\ phase[r] = "fill" => WithinLimit(about[r], seen[r])
  /\ phase[r] \notin {"fill", "count", "done", "dead"} => seen[r] = <<>>
  /\ phase[r] \notin {"done", "dead"} => total[r] = 0

\* A row is one of the products created, which are created once each, and a
\* product that is being inserted has none yet.
RowsCreated ==
  /\ IsInjective(created)
  /\ \A p \in Products : row[p] # Absent => p \in Range(created)
  /\ \A r \in Requests : phase[r] = "commit" /\ op[r] = "create" =>
       /\ row[about[r]] = Absent /\ about[r] \in Range(created)
       /\ \A q \in Requests :
            phase[q] = "commit" /\ op[q] = "create" /\ about[q] = about[r] => q = r

\* What is cached of a product, or about to be, is of one that has a row.
KeysHaveRows ==
  /\ \A p \in Products : cache[p] # Absent => row[p] # Absent
  /\ \A r \in Requests : phase[r] = "fill" /\ about[r] \in Products => row[about[r]] # Absent

\* No copy is ahead of the row.
Behind(rows) ==
  \A i \in DOMAIN rows : row[rows[i].product] # Absent /\ rows[i].info <= row[rows[i].product].info
CopiesBehind ==
  /\ \A k \in Keys : cache[k] # Absent => Behind(cache[k])
  /\ \A r \in Requests : Behind(seen[r])

\* A page of all products shows no more than there are.
Covers(k, rows) ==
  k \in Lists /\ rows # <<>> => k.skip + Len(rows) <= Cardinality(Matching(Absent))
PagesCovered ==
  /\ \A k \in Keys : cache[k] # Absent => Covers(k, cache[k])
  /\ \A r \in Requests : phase[r] \in {"fill", "count"} => Covers(about[r], seen[r])

IInv ==
  /\ TypeOK
  /\ \A r \in Requests : Placed(r)
  /\ RowsCreated
  /\ KeysHaveRows
  /\ CopiesBehind
  /\ PagesCovered
  /\ TotalCoversPage
  /\ StaleOnlyIfLate

-----------------------------------------------------------------------------
(* The queries *)

\* Any products created can be put into the order of their creation.
LEMMA OrdersExist ==
  ASSUME created \in Seq(Products), RowsCreated, NEW c
  PROVE  /\ IsFiniteSet(Matching(c)) /\ Cardinality(Matching(c)) \in Nat
         /\ Orders(c) # {}
<1> DEFINE Sorted(T, t) == \A i, j \in 1 .. Cardinality(T) : i < j => Newer(t[i], t[j])
           Good(T) == \E t \in [1 .. Cardinality(T) -> T] : Sorted(T, t)
           S == Matching(c)
           Bad == {T \in SUBSET S : ~ Good(T)}
<1>1. IsFiniteSet(S) /\ \A T \in SUBSET S : IsFiniteSet(T) /\ Cardinality(T) \in Nat
  BY ProductsAssumption, FS_Subset, FS_CardinalityType DEF Matching
<1>2. Bad = {}
  <2> SUFFICES ASSUME Bad # {} PROVE FALSE
    OBVIOUS
  <2>1. PICK T \in Bad : \A U \in Bad : U \subseteq T => U = T
    <3>1. Bad \in SUBSET (SUBSET S)
      OBVIOUS
    <3> HIDE DEF Bad, S
    <3> QED
      BY <1>1, <3>1, Smallest
  <2>2. T # {}
    <3> SUFFICES ASSUME T = {} PROVE FALSE
      OBVIOUS
    <3>1. 1 .. Cardinality(T) = {}
      BY FS_EmptySet
    <3>2. [i \in {} |-> i] \in [{} -> {}] /\ Sorted(T, [i \in {} |-> i])
      BY <3>1
    <3> QED
      BY <2>1, <3>1, <3>2
  <2>3. PICK m \in DOMAIN created :
          created[m] \in T /\ \A n \in DOMAIN created : created[n] \in T => m <= n
    <3> DEFINE I == {i \in DOMAIN created : created[i] \in T}
    <3>1. DOMAIN created \subseteq Nat
      OBVIOUS
    <3>2. I # {}
      <4>1. PICK x \in T : TRUE
        BY <2>2
      <4>2. x \in Range(created)
        BY <2>1, <4>1 DEF RowsCreated, Matching
      <4> QED
        BY <4>1, <4>2 DEF Range
    <3>3. I \in SUBSET Nat
      BY <3>1
    <3>4. PICK m \in I : \A n \in I : m <= n
      <4> HIDE DEF I
      <4> QED
        BY <3>2, <3>3, Least
    <3> QED
      BY <3>4
  <2> DEFINE x == created[m]
             U == T \ {x}
             k == Cardinality(T)
  <2>4. k \in Nat /\ k # 0 /\ Cardinality(U) = k - 1
    BY <1>1, <2>2, <2>3, FS_EmptySet, FS_RemoveElement
  <2>5. PICK u \in [1 .. k - 1 -> U] : \A i, j \in 1 .. k - 1 : i < j => Newer(u[i], u[j])
    <3>1. U \in SUBSET S /\ U \notin Bad
      BY <2>1, <2>3
    <3> QED
      BY <2>4, <3>1
  <2> DEFINE t == [i \in 1 .. k |-> IF i = k THEN x ELSE u[i]]
  <2>6. ASSUME NEW i \in 1 .. k PROVE t[i] \in T /\ (i # k => t[i] = u[i] /\ i \in 1 .. k - 1 /\ u[i] \in U)
    <3>1. CASE i = k
      BY <2>3, <3>1
    <3>2. CASE i # k
      <4>1. i \in 1 .. k - 1
        BY <2>4, <3>2
      <4> QED
        BY <2>5, <3>2, <4>1
    <3> QED
      BY <3>1, <3>2
  <2>7. ASSUME NEW y \in U PROVE Newer(y, x)
    <3>1. PICK a \in DOMAIN created : created[a] = y
      BY <2>1, <2>7 DEF RowsCreated, Matching, Range
    <3>2. m <= a /\ a # m
      BY <2>3, <2>7, <3>1
    <3> QED
      BY <3>1, <3>2 DEF Newer
  <2>8. ASSUME NEW i \in 1 .. k, NEW j \in 1 .. k, i < j PROVE Newer(t[i], t[j])
    <3>1. i # k /\ t[i] = u[i] /\ i \in 1 .. k - 1 /\ u[i] \in U
      BY <2>4, <2>6, <2>8
    <3>2. CASE j = k
      BY <2>7, <3>1, <3>2
    <3>3. CASE j # k
      <4>1. t[j] = u[j] /\ j \in 1 .. k - 1
        BY <2>6, <3>3
      <4> HIDE DEF t
      <4> QED
        BY <2>5, <2>8, <3>1, <4>1
    <3> QED
      BY <3>2, <3>3
  <2>9. t \in [1 .. k -> T]
    BY <2>6
  <2> HIDE DEF t
  <2> QED
    BY <2>1, <2>8, <2>9
<1>3. Good(S)
  <2> HIDE DEF Good
  <2> QED
    BY <1>2
<1>4. PICK s \in [1 .. Cardinality(S) -> S] : Sorted(S, s)
  BY <1>3
<1>5. s \in Orders(c)
  BY <1>4 DEF Orders
<1> QED
  BY <1>1, <1>5

LEMMA ListedType ==
  ASSUME created \in Seq(Products), RowsCreated, NEW c
  PROVE  /\ Listed(c) \in Seq(Matching(c))
         /\ Len(Listed(c)) = Cardinality(Matching(c)) /\ Cardinality(Matching(c)) \in Nat
<1>1. Listed(c) \in Orders(c) /\ Cardinality(Matching(c)) \in Nat
  BY OrdersExist DEF Listed
<1>2. Listed(c) \in [1 .. Cardinality(Matching(c)) -> Matching(c)]
  BY <1>1 DEF Orders
<1> QED
  BY <1>1, <1>2

\* The smaller of two naturals.
LEMMA MinOfTwo ==
  ASSUME NEW a \in Int, NEW b \in Int
  PROVE  Min({a, b}) = IF a <= b THEN a ELSE b
BY DEF Min

\* A copy of a row is one of its product as it is.
LEMMA CopyType ==
  ASSUME row \in [Products -> Row \cup {Absent}], NEW p \in Products, row[p] # Absent
  PROVE  /\ CopyOf(p) \in Copy /\ row[p] \in Row
         /\ CopyOf(p).product = p /\ CopyOf(p).info = row[p].info
BY DEF CopyOf, Copy, Row

\* What LIMIT and OFFSET leave of a list: at most the limit, and no more than
\* there are after those they skip.
LEMMA SliceType ==
  ASSUME created \in Seq(Products), RowsCreated, NEW k \in Pages
  PROVE  LET ids == Slice(Listed(k.category), k) IN
           /\ ids \in Seq(Matching(k.category)) /\ Len(ids) \in Nat /\ Len(ids) <= k.limit
           /\ Len(ids) # 0 => k.skip + Len(ids) <= Cardinality(Matching(k.category))
<1> DEFINE l == Listed(k.category)
           n == Cardinality(Matching(k.category))
           last == IF n <= k.skip + k.limit THEN n ELSE k.skip + k.limit
           ids == Slice(l, k)
<1>1. k.limit \in Nat \ {0} /\ k.skip \in Nat
  BY PageAssumption
<1>2. l \in Seq(Matching(k.category)) /\ Len(l) = n /\ n \in Nat
  BY ListedType
<1>3. ids = SubSeq(l, k.skip + 1, last) /\ last \in Nat /\ last <= n /\ last <= k.skip + k.limit
  <2>1. Min({Len(l), k.skip + k.limit}) = last
    <3> HIDE DEF l, n
    <3> QED
      BY <1>1, <1>2, MinOfTwo
  <2>2. ids = SubSeq(l, k.skip + 1, Min({Len(l), k.skip + k.limit}))
    BY DEF Slice
  <2> HIDE DEF l, n, ids
  <2>3. last \in Nat /\ last <= n /\ last <= k.skip + k.limit
    BY <1>1, <1>2
  <2> HIDE DEF last
  <2> QED
    BY <2>1, <2>2, <2>3
<1> HIDE DEF l, n, last
<1>4. /\ ids \in Seq(Matching(k.category))
      /\ Len(ids) = IF k.skip + 1 <= last THEN last - k.skip ELSE 0
  <2>1. \A i \in k.skip + 1 .. last : i \in 1 .. Len(l)
    BY <1>1, <1>2, <1>3
  <2>2. l \in Seq(Matching(k.category)) /\ k.skip + 1 \in Int /\ last \in Int
    BY <1>1, <1>2, <1>3
  <2>3. /\ SubSeq(l, k.skip + 1, last) \in Seq(Matching(k.category))
        /\ Len(SubSeq(l, k.skip + 1, last)) = IF k.skip + 1 <= last THEN last - (k.skip + 1) + 1 ELSE 0
    BY <2>1, <2>2, SubSeqProperties
  <2> QED
    BY <1>1, <1>3, <2>3
<1> HIDE DEF ids
<1>5. Len(ids) \in Nat /\ Len(ids) <= k.limit /\ (Len(ids) # 0 => k.skip + Len(ids) <= n)
  <2> DEFINE len == Len(ids)
             skip == k.skip
             limit == k.limit
  <2>1. /\ limit \in Nat /\ skip \in Nat /\ n \in Nat /\ last \in Nat
        /\ last <= n /\ last <= skip + limit
        /\ len = IF skip + 1 <= last THEN last - skip ELSE 0
    BY <1>1, <1>2, <1>3, <1>4
  <2> HIDE DEF len, skip, limit
  <2>2. len \in Nat /\ len <= limit /\ (len # 0 => skip + len <= n)
    BY <2>1
  <2> QED
    BY <2>2 DEF len, skip, limit
<1> QED
  BY <1>4, <1>5 DEF ids, l, n

\* A page is made of copies of the rows that match.
LEMMA PageType ==
  ASSUME created \in Seq(Products), row \in [Products -> Row \cup {Absent}], RowsCreated,
         NEW k \in Pages
  PROVE  /\ ListProducts(k) \in Seq(Copy) /\ Len(ListProducts(k)) <= k.limit
         /\ \A i \in DOMAIN ListProducts(k) : \E p \in Matching(k.category) : ListProducts(k)[i] = CopyOf(p)
         /\ ListProducts(k) # <<>> => k.skip + Len(ListProducts(k)) <= Cardinality(Matching(k.category))
<1> DEFINE ids == Slice(Listed(k.category), k)
           n == Cardinality(Matching(k.category))
<1>1. /\ ids \in Seq(Matching(k.category)) /\ Len(ids) \in Nat /\ Len(ids) <= k.limit
      /\ Len(ids) # 0 => k.skip + Len(ids) <= n
  BY SliceType
<1>2. ListProducts(k) = [i \in 1 .. Len(ids) |-> CopyOf(ids[i])]
  BY DEF ListProducts
<1> HIDE DEF ids, n
<1>3. \A i \in 1 .. Len(ids) : ids[i] \in Matching(k.category) /\ CopyOf(ids[i]) \in Copy
  <2> SUFFICES ASSUME NEW i \in 1 .. Len(ids)
               PROVE  ids[i] \in Matching(k.category) /\ CopyOf(ids[i]) \in Copy
    OBVIOUS
  <2>1. ids[i] \in Matching(k.category)
    BY <1>1
  <2>2. ids[i] \in Products /\ row[ids[i]] # Absent
    BY <2>1 DEF Matching
  <2> QED
    BY <2>1, <2>2, CopyType
<1>4. ListProducts(k) \in Seq(Copy) /\ Len(ListProducts(k)) = Len(ids)
  BY <1>1, <1>2, <1>3
<1>5. ListProducts(k) # <<>> => Len(ids) # 0
  BY <1>4
<1>6. \A i \in DOMAIN ListProducts(k) : \E p \in Matching(k.category) : ListProducts(k)[i] = CopyOf(p)
  BY <1>2, <1>3
<1> QED
  BY <1>1, <1>4, <1>5, <1>6 DEF n

\* What the database answers: rows as they are, within the limit, and not
\* more than there are.
LEMMA SelectType ==
  ASSUME TypeOK, RowsCreated, NEW k \in Products \cup Pages, k \in Products => row[k] # Absent
  PROVE  /\ Select(k) \in Seq(Copy) /\ WithinLimit(k, Select(k)) /\ Covers(k, Select(k))
         /\ \A i \in DOMAIN Select(k) :
              \E p \in Products : row[p] \in Row /\ row[p] # Absent /\ Select(k)[i] = CopyOf(p)
<1>1. created \in Seq(Products) /\ row \in [Products -> Row \cup {Absent}]
  BY DEF TypeOK
<1>2. CASE k \in Products
  <2>1. CopyOf(k) \in Copy /\ row[k] \in Row
    BY <1>1, <1>2, CopyType
  <2>2. Select(k) = <<CopyOf(k)>>
    BY <1>2 DEF Select
  <2>3. k \notin Lists
    BY <1>2, ProductsAssumption DEF Lists
  <2>4. Select(k) \in Seq(Copy) /\ Len(Select(k)) = 1 /\ Select(k)[1] = CopyOf(k)
        /\ DOMAIN Select(k) = {1}
    BY <2>1, <2>2
  <2> QED
    BY <1>2, <2>1, <2>3, <2>4 DEF WithinLimit, Covers
<1>3. CASE k \notin Products
  <2>1. k \in Pages /\ Select(k) = ListProducts(k)
    BY <1>3 DEF Select
  <2>2. \A q \in Matching(k.category) : q \in Products /\ row[q] # Absent /\ row[q] \in Row
    BY <1>1 DEF Matching
  <2>3. /\ ListProducts(k) \in Seq(Copy) /\ Len(ListProducts(k)) <= k.limit
        /\ \A i \in DOMAIN ListProducts(k) :
             \E p \in Matching(k.category) : ListProducts(k)[i] = CopyOf(p)
        /\ ListProducts(k) # <<>>
             => k.skip + Len(ListProducts(k)) <= Cardinality(Matching(k.category))
    BY <1>1, <2>1, PageType
  <2>4. k \in Lists => k.category = Absent
    BY DEF Lists
  <2>5. Covers(k, Select(k))
    BY <2>1, <2>3, <2>4 DEF Covers
  <2>6. WithinLimit(k, Select(k))
    BY <1>3, <2>1, <2>3 DEF WithinLimit
  <2> QED
    BY <2>1, <2>2, <2>3, <2>5, <2>6
<1> QED
  BY <1>2, <1>3

\* What a statement writes: a row of the product, never an older one.
LEMMA WrittenRow ==
  ASSUME TypeOK, RowsCreated, NEW r \in Requests, Placed(r), phase[r] = "commit",
         NEW c \in CategoryOrNull, op[r] = "create" \/ row[about[r]] # Absent
  PROVE  LET p == about[r]
             new == Written(r, c)
         IN  /\ p \in Products /\ op[r] \in {"create", "update", "stock"}
             /\ new \in Row /\ new # Absent
             /\ op[r] = "create" => row[p] = Absent /\ new.info = 1
             /\ row[p] # Absent => op[r] # "create" /\ row[p] \in Row
             /\ op[r] = "update" => new.info = row[p].info + 1
             /\ op[r] = "stock" => new.info = row[p].info /\ new.category = row[p].category
<1>1. about[r] \in Products /\ op[r] \in {"create", "update", "stock"}
  BY DEF Placed
<1>2. row[about[r]] \in Row \cup {Absent}
  BY <1>1 DEF TypeOK
<1>3. Written(r, c) \in Row /\ (op[r] = "create" => Written(r, c).info = 1)
      /\ (op[r] = "update" => Written(r, c).info = row[about[r]].info + 1)
      /\ (op[r] = "stock" => /\ Written(r, c).info = row[about[r]].info
                             /\ Written(r, c).category = row[about[r]].category)
  <2>1. CASE op[r] = "create"
    <3>1. Written(r, c) = [info |-> 1, units |-> 0, category |-> c]
      BY <2>1 DEF Written, Inserted
    <3> QED
      BY <2>1, <3>1 DEF Row
  <2>2. CASE op[r] = "update"
    <3>1. row[about[r]] \in Row
      BY <1>2, <2>2
    <3>2. Written(r, c) = [row[about[r]] EXCEPT
             !.info = row[about[r]].info + 1,
             !.category = IF c = Absent THEN row[about[r]].category ELSE c]
      BY <2>2 DEF Written, Updated
    <3>3. /\ row[about[r]].info \in Nat /\ row[about[r]].info + 1 \in Nat
          /\ row[about[r]].category \in CategoryOrNull
      BY <3>1 DEF Row
    <3>4. Written(r, c) \in Row /\ Written(r, c).info = row[about[r]].info + 1
      BY <3>1, <3>2, <3>3 DEF Row
    <3> QED
      BY <2>2, <3>4
  <2>3. CASE op[r] = "stock"
    <3>1. row[about[r]] \in Row
      BY <1>2, <2>3
    <3>2. Written(r, c) = [row[about[r]] EXCEPT !.units = row[about[r]].units + 1]
      BY <2>3 DEF Written, Restocked
    <3> QED
      BY <2>3, <3>1, <3>2 DEF Row
  <2> QED
    BY <1>1, <2>1, <2>2, <2>3
<1>4. Written(r, c) # Absent
  BY <1>3, AbsentAssumption
<1> QED
  BY <1>1, <1>2, <1>3, <1>4 DEF RowsCreated

-----------------------------------------------------------------------------
(* Types *)

\* A key that is dropped is gone, for a scan and for the history, too.
LEMMA DropFacts ==
  ASSUME TypeOK, NEW k \in Keys, Drop(k)
  PROVE  /\ cache' \in [Keys -> Seq(Copy) \cup {Absent}] /\ cache'[k] = Absent
         /\ \A j \in Keys : j # k => cache'[j] = cache[j]
         /\ Present(Keys)' = Present(Keys) \ {k}
         /\ \A j \in Present(Keys)' : WithinLimit(j, cache'[j])
         /\ late' \subseteq Present(Keys)'
         /\ found' \in [Requests -> SUBSET Lists]
<1>1. /\ cache' = [cache EXCEPT ![k] = Absent] /\ late' = late \ {k}
      /\ found' = [r \in Requests |-> found[r] \ {k}]
      /\ cache \in [Keys -> Seq(Copy) \cup {Absent}]
      /\ late \subseteq Present(Keys) /\ found \in [Requests -> SUBSET Lists]
      /\ \A j \in Present(Keys) : WithinLimit(j, cache[j])
  BY DEF Drop, TypeOK
<1>2. cache' \in [Keys -> Seq(Copy) \cup {Absent}] /\ cache'[k] = Absent
      /\ \A j \in Keys : j # k => cache'[j] = cache[j]
  BY <1>1
<1>3. Present(Keys)' = Present(Keys) \ {k}
  BY <1>2 DEF Present, Keys, Lists
<1> QED
  BY <1>1, <1>2, <1>3 DEF Present

\* A request begins with one of five operations, on a product or a page.
LEMMA AskIs ==
  ASSUME NEW r \in Requests, Ask(r)
  PROVE  \E what \in Products \cup Pages, o \in Ops, next \in Phases :
           /\ Begin(r, o, what) /\ Go(r, next)
           /\ \/ o = "create" /\ next = "commit" /\ what \in Products
                 /\ what \notin Range(created) /\ created' = Append(created, what)
              \/ o \in {"update", "stock"} /\ next = "commit" /\ what \in Products /\ created' = created
              \/ o = "get" /\ next = "lookup" /\ what \in Products /\ created' = created
              \/ o = "list" /\ next = "lookup" /\ what \in Lists /\ created' = created
              \/ o = "list" /\ next = "fetch" /\ what \in Pages /\ created' = created
<1> USE DEF Ops, Phases
<1>1. ASSUME NEW p \in Products, CreateProduct(r, p)
      PROVE  /\ Begin(r, "create", p) /\ Go(r, "commit")
             /\ p \notin Range(created) /\ created' = Append(created, p)
  BY <1>1 DEF CreateProduct
<1>2. ASSUME NEW p \in Products, UpdateProduct(r, p) \/ UpdateStock(r, p)
      PROVE  \E o \in {"update", "stock"} : Begin(r, o, p) /\ Go(r, "commit") /\ created' = created
  BY <1>2 DEF UpdateProduct, UpdateStock
<1>3. ASSUME NEW p \in Products, Get(r, p)
      PROVE  Begin(r, "get", p) /\ Go(r, "lookup") /\ created' = created
  BY <1>3 DEF Get
<1>4. ASSUME NEW page \in Pages, List(r, page)
      PROVE  /\ Begin(r, "list", page) /\ created' = created
             /\ Go(r, "fetch") \/ (page \in Lists /\ Go(r, "lookup"))
  <2>1. Begin(r, "list", page) /\ created' = created /\ Go(r, IF page \in Lists THEN "lookup" ELSE "fetch")
    BY <1>4 DEF List
  <2>2. CASE page \in Lists
    BY <2>1, <2>2
  <2>3. CASE page \notin Lists
    BY <2>1, <2>3
  <2> QED
    BY <2>1, <2>2, <2>3
<1>5. CASE \E p \in Products : CreateProduct(r, p)
  <2>1. PICK p \in Products : CreateProduct(r, p)
    BY <1>5
  <2> QED
    BY <1>1, <2>1
<1>6. CASE \E p \in Products : UpdateProduct(r, p) \/ UpdateStock(r, p)
  <2>1. PICK p \in Products, o \in {"update", "stock"} : Begin(r, o, p) /\ Go(r, "commit") /\ created' = created
    BY <1>2, <1>6
  <2> QED
    BY <2>1
<1>7. CASE \E p \in Products : Get(r, p)
  <2>1. PICK p \in Products : Get(r, p)
    BY <1>7
  <2> QED
    BY <1>3, <2>1
<1>8. CASE \E page \in Pages : List(r, page)
  <2>1. PICK page \in Pages : List(r, page)
    BY <1>8
  <2>2. page \in Lists => page \in Products \cup Pages
    OBVIOUS
  <2> QED
    BY <1>4, <2>1
<1> QED
  BY <1>5, <1>6, <1>7, <1>8 DEF Ask

\* Every step keeps the types; a request holds no more rows than it asked for.
LEMMA TypeNext ==
  ASSUME IInv, [Next]_vars
  PROVE  TypeOK'
<1>0. /\ TypeOK /\ RowsCreated /\ \A r \in Requests : Placed(r)
      /\ Lists \subseteq Pages /\ Keys = Products \cup Lists
  BY DEF IInv, Lists, Keys
<1>t. /\ created \in Seq(Products)
      /\ row \in [Products -> Row \cup {Absent}]
      /\ cache \in [Keys -> Seq(Copy) \cup {Absent}]
      /\ \A k \in Present(Keys) : WithinLimit(k, cache[k])
      /\ phase \in [Requests -> Phases]
      /\ op \in [Requests -> Ops]
      /\ about \in [Requests -> Products \cup Pages \cup {Absent}]
      /\ seen \in [Requests -> Seq(Copy)]
      /\ total \in [Requests -> Nat]
      /\ found \in [Requests -> SUBSET Lists]
      /\ answer \in [Requests -> {"none", "ok", "error"}]
      /\ late \subseteq Present(Keys)
  BY <1>0 DEF TypeOK
<1>p. cache' = cache => Present(Keys)' = Present(Keys)
  BY DEF Present, Keys, Lists
<1> DEFINE Shell == phase' \in [Requests -> Phases] /\ answer' \in [Requests -> {"none", "ok", "error"}]
<1>1. ASSUME NEW r \in Requests, Ask(r) PROVE TypeOK'
  <2>1. PICK what \in Products \cup Pages, o \in Ops, next \in Phases :
          /\ Begin(r, o, what) /\ Go(r, next)
          /\ created' = created \/ (what \in Products /\ created' = Append(created, what))
    BY <1>1, AskIs
  <2>2. created' \in Seq(Products)
    <3>1. \A p \in Products : Append(created, p) \in Seq(Products)
      BY <1>t, AppendProperties
    <3> QED
      BY <1>t, <2>1, <3>1
  <2>3. phase' \in [Requests -> Phases]
    BY <1>t, <2>1 DEF Go
  <2>4. /\ op' \in [Requests -> Ops] /\ about' \in [Requests -> Products \cup Pages \cup {Absent}]
        /\ UNCHANGED <<row, cache, seen, total, found, answer, late>>
    BY <1>t, <2>1 DEF Begin
  <2> QED
    BY <1>p, <1>t, <2>2, <2>3, <2>4 DEF TypeOK
<1>2. ASSUME NEW r \in Requests, NEW c \in CategoryOrNull, Commit(r, c) PROVE TypeOK'
  <2>1. row' \in [Products -> Row \cup {Absent}]
    <3>1. about[r] \in Products /\ Written(r, c) \in Row /\ row' = [row EXCEPT ![about[r]] = Written(r, c)]
      BY <1>0, <1>2, WrittenRow DEF Commit
    <3> QED
      BY <1>t, <3>1
  <2>2. Shell /\ UNCHANGED <<created, cache, requestVars, seen, total, found>>
    BY <1>2, <1>t DEF Commit, AfterCommit, Return, Go, Phases, Resting
  <2>3. late' \subseteq Present(Keys)
    <3>1. about[r] \in Products
      BY <1>0, <1>2 DEF Commit, Placed
    <3>2. Present(Lists \cup {about[r]}) \subseteq Present(Keys)
      BY <1>0, <3>1 DEF Present
    <3> QED
      BY <1>2, <1>t, <3>2 DEF Commit
  <2> QED
    BY <1>p, <1>t, <2>1, <2>2, <2>3 DEF TypeOK, requestVars
<1>3. ASSUME NEW r \in Requests, WriteFails(r) \/ EndScan(r) PROVE TypeOK'
  <2>1. Shell /\ UNCHANGED <<created, row, cache, requestVars, seen, total, found, late>>
    BY <1>3, <1>t DEF WriteFails, EndScan, Return, Go, Phases, Resting
  <2> QED
    BY <1>p, <1>t, <2>1 DEF TypeOK, requestVars
<1>4. ASSUME NEW r \in Requests, InvalidateProduct(r) PROVE TypeOK'
  <2>1. Shell /\ UNCHANGED <<created, row, requestVars, seen, total>>
    BY <1>4, <1>t DEF InvalidateProduct, AfterDelete, Return, Go, Phases, Resting
  <2>2. about[r] \in Keys
    BY <1>0, <1>4 DEF InvalidateProduct, Placed
  <2>3. CASE Drop(about[r])
    BY <1>0, <1>t, <2>1, <2>2, <2>3, DropFacts DEF TypeOK, requestVars
  <2>4. CASE late' = late \cup Present({about[r]}) /\ UNCHANGED <<cache, found>>
    <3>1. Present({about[r]}) \subseteq Present(Keys)
      BY <2>2 DEF Present
    <3> QED
      BY <1>p, <1>t, <2>1, <2>4, <3>1 DEF TypeOK, requestVars
  <2> QED
    BY <1>4, <2>3, <2>4 DEF InvalidateProduct
<1>5. ASSUME NEW r \in Requests, StartScan(r) PROVE TypeOK'
  <2>1. Shell /\ UNCHANGED <<created, row, cache, requestVars, seen, total, late>>
    BY <1>5, <1>t DEF StartScan, Go, Phases
  <2>2. found' \in [Requests -> SUBSET Lists]
    BY <1>5, <1>t DEF StartScan, Present
  <2> QED
    BY <1>p, <1>t, <2>1, <2>2 DEF TypeOK, requestVars
<1>6. ASSUME NEW r \in Requests, NEW k \in Lists, DeletePage(r, k) PROVE TypeOK'
  <2>1. UNCHANGED <<created, row, phase, requestVars, seen, total, answer>> /\ k \in Keys
    BY <1>0, <1>6 DEF DeletePage
  <2>2. CASE Drop(k)
    BY <1>0, <1>t, <2>1, <2>2, DropFacts DEF TypeOK, requestVars
  <2>3. CASE /\ found' = [found EXCEPT ![r] = @ \ {k}]
             /\ late' = late \cup {k} /\ UNCHANGED cache
    <3>1. k \in Present(Keys)
      BY <1>6, <2>1 DEF DeletePage, Present
    <3>2. found' \in [Requests -> SUBSET Lists]
      BY <1>t, <2>3
    <3> QED
      BY <1>p, <1>t, <2>1, <2>3, <3>1, <3>2 DEF TypeOK, requestVars
  <2> QED
    BY <1>6, <2>2, <2>3 DEF DeletePage
<1>7. ASSUME NEW r \in Requests, Lookup(r) PROVE TypeOK'
  <2>1. Shell /\ UNCHANGED <<created, row, cache, requestVars, total, found, late>>
    BY <1>7, <1>t DEF Lookup, Hold, Return, Go, Phases, Resting
  <2>2. seen' \in [Requests -> Seq(Copy)]
    <3>1. about[r] \in Keys
      BY <1>0, <1>7 DEF Lookup, Placed
    <3>2. cache[about[r]] # Absent => cache[about[r]] \in Seq(Copy)
      BY <1>t, <3>1
    <3> QED
      BY <1>7, <1>t, <3>2 DEF Lookup, Hold
  <2> QED
    BY <1>p, <1>t, <2>1, <2>2 DEF TypeOK, requestVars
<1>8. ASSUME NEW r \in Requests, Fetch(r) PROVE TypeOK'
  <2>1. Shell /\ UNCHANGED <<created, row, cache, requestVars, total, found, late>>
    BY <1>8, <1>t DEF Fetch, Hold, Return, Go, Phases, Resting
  <2>2. seen' \in [Requests -> Seq(Copy)]
    <3>1. about[r] \in Products \cup Pages
      BY <1>0, <1>8 DEF Fetch, Placed
    <3>2. (about[r] \in Products => row[about[r]] # Absent) => Select(about[r]) \in Seq(Copy)
      BY <1>0, <3>1, SelectType
    <3> QED
      BY <1>8, <1>t, <3>2 DEF Fetch, Hold
  <2> QED
    BY <1>p, <1>t, <2>1, <2>2 DEF TypeOK, requestVars
<1>9. ASSUME NEW r \in Requests, Fill(r) PROVE TypeOK'
  <2>1. Shell /\ UNCHANGED <<created, row, requestVars, total, found>> /\ seen' \in [Requests -> Seq(Copy)]
    BY <1>9, <1>t DEF Fill, Hold, Return, Go, Phases, Resting
  <2>2. about[r] \in Keys /\ WithinLimit(about[r], seen[r]) /\ seen[r] \in Seq(Copy)
    BY <1>0, <1>9, <1>t DEF Fill, Placed
  <2>3. CASE UNCHANGED <<cache, late>>
    BY <1>p, <1>t, <2>1, <2>3 DEF TypeOK, requestVars
  <2>4. CASE /\ cache' = [cache EXCEPT ![about[r]] = seen[r]]
             /\ late' = IF UpToDate(about[r], seen[r]) THEN late \ {about[r]} ELSE late \cup {about[r]}
    <3>1. seen[r] # Absent
      BY <2>2, AbsentAssumption
    <3>2. cache' \in [Keys -> Seq(Copy) \cup {Absent}] /\ cache'[about[r]] = seen[r]
          /\ \A j \in Keys : j # about[r] => cache'[j] = cache[j]
      BY <1>t, <2>2, <2>4
    <3>3. Present(Keys)' = Present(Keys) \cup {about[r]}
      BY <2>2, <3>1, <3>2 DEF Present, Keys, Lists
    <3>4. \A j \in Present(Keys)' : WithinLimit(j, cache'[j])
      BY <1>t, <2>2, <3>2, <3>3 DEF Present
    <3>5. late' \subseteq Present(Keys)'
      BY <1>t, <2>4, <3>3
    <3> QED
      BY <1>t, <2>1, <3>2, <3>4, <3>5 DEF TypeOK, requestVars
  <2> QED
    BY <1>9, <2>3, <2>4 DEF Fill
<1>10. ASSUME NEW r \in Requests, Count(r) PROVE TypeOK'
  <2>1. Shell /\ UNCHANGED <<created, row, cache, requestVars, seen, found, late>>
    BY <1>10, <1>t DEF Count, Return, Go, Phases, Resting
  <2>2. total' \in [Requests -> Nat]
    <3>1. CountProducts(r) \in Nat
      BY <1>0, <1>t, OrdersExist DEF CountProducts
    <3> QED
      BY <1>10, <1>t, <3>1 DEF Count
  <2> QED
    BY <1>p, <1>t, <2>1, <2>2 DEF TypeOK, requestVars
<1>11. ASSUME NEW k \in Keys, Expire(k) PROVE TypeOK'
  <2>1. UNCHANGED <<created, row, phase, requestVars, seen, total, answer>> /\ Drop(k)
    BY <1>11 DEF Expire
  <2> QED
    BY <1>0, <1>t, <2>1, DropFacts DEF TypeOK, requestVars
<1>12. ASSUME NEW r \in Requests, Die(r) PROVE TypeOK'
  <2>1. Shell /\ UNCHANGED <<created, row, cache, requestVars, seen, total, answer>>
    BY <1>12, <1>t DEF Die, Go, Phases, Resting
  <2>2. found' \in [Requests -> SUBSET Lists]
    BY <1>12, <1>t DEF Die
  <2>3. Pending(r) \subseteq Keys
    BY <1>0, <1>t DEF Pending, Placed
  <2>4. late' \subseteq Present(Keys)
    BY <1>12, <1>t, <2>3 DEF Die, Present
  <2> QED
    BY <1>p, <1>t, <2>1, <2>2, <2>4 DEF TypeOK, requestVars
<1>13. CASE UNCHANGED vars
  BY <1>p, <1>13, <1>t DEF vars, requestVars, TypeOK
<1> QED
  BY <1>1, <1>2, <1>3, <1>4, <1>5, <1>6, <1>7, <1>8, <1>9, <1>10, <1>11, <1>12, <1>13 DEF Next, Serve

-----------------------------------------------------------------------------
(* Requests *)

\* A step of one request leaves the others where they are.
LEMMA OneMoves ==
  ASSUME TypeOK, NEW r \in Requests, Ask(r) \/ Serve(r) \/ Die(r), NEW q \in Requests, q # r
  PROVE  /\ phase'[q] = phase[q] /\ op'[q] = op[q] /\ about'[q] = about[q]
         /\ seen'[q] = seen[q] /\ total'[q] = total[q] /\ answer'[q] = answer[q]
<1>1. /\ phase \in [Requests -> Phases] /\ op \in [Requests -> Ops]
      /\ about \in [Requests -> Products \cup Pages \cup {Absent}]
      /\ seen \in [Requests -> Seq(Copy)] /\ total \in [Requests -> Nat]
      /\ answer \in [Requests -> {"none", "ok", "error"}]
  BY DEF TypeOK
<1>2. CASE Ask(r)
  <2>1. PICK what \in Products \cup Pages, o \in Ops, next \in Phases : Begin(r, o, what) /\ Go(r, next)
    BY <1>2, AskIs
  <2> QED
    BY <1>1, <2>1 DEF Begin, Go
<1>3. ASSUME NEW c \in CategoryOrNull, Commit(r, c)
      PROVE  phase'[q] = phase[q] /\ answer'[q] = answer[q] /\ UNCHANGED <<op, about, seen, total>>
  BY <1>1, <1>3 DEF Commit, Return, Go, requestVars
<1>4. CASE WriteFails(r) \/ EndScan(r)
  BY <1>1, <1>4 DEF WriteFails, EndScan, Return, Go, requestVars
<1>5. CASE InvalidateProduct(r)
  BY <1>1, <1>5 DEF InvalidateProduct, AfterDelete, Return, Go, requestVars
<1>6. CASE StartScan(r) \/ Die(r)
  BY <1>1, <1>6 DEF StartScan, Die, Go, requestVars
<1>7. CASE \E k \in Lists : DeletePage(r, k)
  BY <1>7 DEF DeletePage, requestVars
<1>8. CASE Lookup(r)
  BY <1>1, <1>8 DEF Lookup, Hold, Return, Go, requestVars
<1>9. CASE Fetch(r)
  BY <1>1, <1>9 DEF Fetch, Hold, Return, Go, requestVars
<1>10. CASE Fill(r)
  BY <1>1, <1>10 DEF Fill, Hold, Return, Go, requestVars
<1>11. CASE Count(r)
  BY <1>1, <1>11 DEF Count, Return, Go, requestVars
<1>12. CASE \E c \in CategoryOrNull : Commit(r, c)
  BY <1>3, <1>12
<1> QED
  BY <1>2, <1>4, <1>5, <1>6, <1>7, <1>8, <1>9, <1>10, <1>11, <1>12 DEF Serve

AllPlaced == \A r \in Requests : Placed(r)

\* Each step leaves the request that takes it in its place.
LEMMA PlacedNext ==
  ASSUME IInv, [Next]_vars
  PROVE  AllPlaced'
<1>0. TypeOK /\ RowsCreated /\ \A r \in Requests : Placed(r)
  BY DEF IInv
<1>t. /\ phase \in [Requests -> Phases] /\ op \in [Requests -> Ops]
      /\ about \in [Requests -> Products \cup Pages \cup {Absent}]
      /\ seen \in [Requests -> Seq(Copy)] /\ total \in [Requests -> Nat]
      /\ answer \in [Requests -> {"none", "ok", "error"}]
      /\ cache \in [Keys -> Seq(Copy) \cup {Absent}]
      /\ Lists \subseteq Pages /\ Keys = Products \cup Lists
  BY <1>0 DEF TypeOK, Lists, Keys
<1> DEFINE Same(q) == /\ phase'[q] = phase[q] /\ op'[q] = op[q] /\ about'[q] = about[q]
                      /\ seen'[q] = seen[q] /\ total'[q] = total[q] /\ answer'[q] = answer[q]
<1>1. ASSUME NEW q \in Requests, Same(q) PROVE Placed(q)'
  <2>1. Placed(q)
    BY <1>0
  <2> QED
    BY <1>1, <2>1 DEF Placed, WithinLimit, Keys, Lists
<1>2. CASE UNCHANGED vars
  BY <1>1, <1>2 DEF vars, requestVars, AllPlaced
<1>3. CASE \E k \in Keys : Expire(k)
  BY <1>1, <1>3 DEF Expire, requestVars, AllPlaced
<1>4. ASSUME NEW r \in Requests, Ask(r) \/ Serve(r) \/ Die(r) PROVE Placed(r)'
  <2>0. Placed(r)
    BY <1>0
  <2>1. CASE Ask(r)
    <3>1. PICK what \in Products \cup Pages, o \in Ops, next \in Phases :
           /\ Begin(r, o, what) /\ Go(r, next)
           /\ \/ o = "create" /\ next = "commit" /\ what \in Products
                 /\ what \notin Range(created) /\ created' = Append(created, what)
              \/ o \in {"update", "stock"} /\ next = "commit" /\ what \in Products /\ created' = created
              \/ o = "get" /\ next = "lookup" /\ what \in Products /\ created' = created
              \/ o = "list" /\ next = "lookup" /\ what \in Lists /\ created' = created
              \/ o = "list" /\ next = "fetch" /\ what \in Pages /\ created' = created
      BY <2>1, AskIs
    <3>2. /\ phase[r] = "new" /\ phase'[r] = next /\ op'[r] = o /\ about'[r] = what
          /\ seen'[r] = seen[r] /\ total'[r] = total[r] /\ answer'[r] = answer[r]
      BY <1>t, <3>1 DEF Begin, Go
    <3>3. answer[r] = "none" /\ seen[r] = <<>> /\ total[r] = 0
      BY <2>0, <3>2 DEF Placed
    <3> QED
      BY <1>t, <3>1, <3>2, <3>3 DEF Placed, Keys, Lists
  <2>2. ASSUME NEW c \in CategoryOrNull, Commit(r, c) PROVE Placed(r)'
    <3>1. /\ phase[r] = "commit" /\ seen'[r] = seen[r] /\ total'[r] = total[r]
          /\ op'[r] = op[r] /\ about'[r] = about[r]
          /\ \/ phase'[r] = AfterCommit(r) /\ answer'[r] = answer[r]
             \/ phase'[r] = "done"
      BY <1>t, <2>2 DEF Commit, Return, Go, requestVars
    <3> QED
      BY <2>0, <3>1 DEF Placed, AfterCommit
  <2>3. CASE WriteFails(r) \/ EndScan(r)
    BY <1>t, <2>0, <2>3 DEF WriteFails, EndScan, Return, Go, requestVars, Placed
  <2>4. CASE InvalidateProduct(r)
    <3>1. /\ phase[r] = "invalidate" /\ UNCHANGED <<seen, total, op, about>>
          /\ \/ op[r] = "update" /\ phase'[r] = "scan" /\ answer'[r] = answer[r]
             \/ phase'[r] = "done"
      BY <1>t, <2>4 DEF InvalidateProduct, AfterDelete, Return, Go, requestVars
    <3> QED
      BY <2>0, <3>1 DEF Placed
  <2>5. CASE StartScan(r)
    BY <1>t, <2>0, <2>5 DEF StartScan, Go, requestVars, Placed
  <2>6. CASE \E k \in Lists : DeletePage(r, k)
    BY <1>1, <2>6 DEF DeletePage, requestVars
  <2>7. CASE Lookup(r)
    <3>1. /\ phase[r] = "lookup" /\ UNCHANGED <<total, op, about>>
          /\ \/ phase'[r] = "fetch" /\ seen' = seen /\ answer' = answer
             \/ op[r] = "list" /\ phase'[r] = "count" /\ answer' = answer
             \/ phase'[r] = "done"
      BY <1>t, <2>7 DEF Lookup, Hold, Return, Go, requestVars
    <3> QED
      BY <2>0, <3>1 DEF Placed
  <2>8. CASE Fetch(r)
    <3>1. /\ phase[r] = "fetch" /\ UNCHANGED <<total, op, about>>
          /\ \/ /\ about[r] \in Products => row[about[r]] # Absent
                /\ about[r] \in Keys /\ phase'[r] = "fill" /\ answer' = answer
                /\ seen'[r] = Select(about[r])
             \/ op[r] = "list" /\ phase'[r] = "count" /\ answer' = answer
             \/ phase'[r] = "done"
      BY <1>t, <2>8 DEF Fetch, Hold, Return, Go, requestVars
    <3>2. about[r] \in Products \cup Pages
      BY <2>0, <3>1 DEF Placed
    <3>3. (about[r] \in Products => row[about[r]] # Absent) => WithinLimit(about[r], Select(about[r]))
      BY <1>0, <3>2, SelectType
    <3> QED
      BY <2>0, <3>1, <3>3 DEF Placed, WithinLimit, Keys, Lists
  <2>9. CASE Fill(r)
    <3>1. /\ phase[r] = "fill" /\ UNCHANGED <<total, op, about>> /\ seen'[r] = seen[r]
          /\ \/ op[r] = "list" /\ phase'[r] = "count" /\ answer' = answer
             \/ phase'[r] = "done"
             \/ phase' = phase /\ answer' = answer
      BY <1>t, <2>9 DEF Fill, Hold, Return, Go, requestVars
    <3> QED
      BY <2>0, <3>1 DEF Placed
  <2>10. CASE Count(r)
    BY <1>t, <2>10 DEF Count, Return, Go, Placed
  <2>11. CASE Die(r)
    BY <1>t, <2>0, <2>11 DEF Die, Go, Resting, Placed
  <2> QED
    BY <1>4, <2>1, <2>2, <2>3, <2>4, <2>5, <2>6, <2>7, <2>8, <2>9, <2>10, <2>11 DEF Serve
<1>5. ASSUME NEW r \in Requests, Ask(r) \/ Serve(r) \/ Die(r) PROVE AllPlaced'
  BY <1>0, <1>1, <1>4, <1>5, OneMoves DEF AllPlaced
<1> QED
  BY <1>2, <1>3, <1>5 DEF Next

-----------------------------------------------------------------------------
(* Rows *)

\* The only statements that change rows are those of Commit, and only
\* CreateProduct adds a product.
LEMMA OnlyCommitWrites ==
  ASSUME [Next]_vars
  PROVE  /\ row' = row \/ \E r \in Requests, c \in CategoryOrNull : Commit(r, c)
         /\ created' = created \/ \E r \in Requests : Ask(r)
<1>1. ASSUME NEW r \in Requests, Ask(r) PROVE row' = row
  <2>1. PICK what \in Products \cup Pages, o \in Ops, next \in Phases : Begin(r, o, what)
    BY <1>1, AskIs
  <2> QED
    BY <2>1 DEF Begin
<1>2. ASSUME NEW r \in Requests, NEW c \in CategoryOrNull, Commit(r, c) PROVE created' = created
  BY <1>2 DEF Commit
<1>3. ASSUME NEW r \in Requests, Serve(r) \/ Die(r)
      PROVE  (row' = row /\ created' = created) \/ \E c \in CategoryOrNull : Commit(r, c)
  BY <1>3 DEF Serve, Die, WriteFails, InvalidateProduct, StartScan, DeletePage, EndScan, Lookup, Fetch,
     Fill, Count
<1>4. CASE \E k \in Keys : Expire(k)
  BY <1>4 DEF Expire
<1>5. CASE UNCHANGED vars
  BY <1>5 DEF vars
<1>6. ASSUME NEW r \in Requests, Ask(r) \/ Serve(r) \/ Die(r)
      PROVE  /\ row' = row \/ \E q \in Requests, c \in CategoryOrNull : Commit(q, c)
             /\ created' = created \/ \E q \in Requests : Ask(q)
  <2>1. CASE Ask(r)
    BY <1>1, <2>1
  <2>2. CASE \E c \in CategoryOrNull : Commit(r, c)
    BY <1>2, <2>2
  <2>3. CASE row' = row /\ created' = created
    BY <2>3
  <2> QED
    BY <1>3, <1>6, <2>1, <2>2, <2>3
<1> QED
  BY <1>4, <1>5, <1>6 DEF Next

\* What a Commit does to the rows.
LEMMA CommitWrites ==
  ASSUME IInv, NEW r \in Requests, NEW c \in CategoryOrNull, Commit(r, c)
  PROVE  /\ phase[r] = "commit" /\ op[r] \in {"create", "update", "stock"} /\ about[r] \in Products
         /\ row'[about[r]] = Written(r, c) /\ row'[about[r]] \in Row /\ row'[about[r]] # Absent
         /\ \A p \in Products : p # about[r] => row'[p] = row[p]
         /\ op[r] = "create" => row[about[r]] = Absent /\ Written(r, c).info = 1
         /\ row[about[r]] # Absent => op[r] # "create" /\ row[about[r]] \in Row
         /\ op[r] = "update" => Written(r, c).info = row[about[r]].info + 1
         /\ op[r] = "stock" => /\ Written(r, c).info = row[about[r]].info
                               /\ Written(r, c).category = row[about[r]].category
         /\ about[r] \in Range(created)
<1>1. TypeOK /\ RowsCreated /\ Placed(r)
  BY DEF IInv
<1>2. phase[r] = "commit" /\ row' = [row EXCEPT ![about[r]] = Written(r, c)]
      /\ (op[r] = "create" \/ row[about[r]] # Absent)
  BY DEF Commit
<1>3. row \in [Products -> Row \cup {Absent}]
  BY <1>1 DEF TypeOK
<1>4. /\ about[r] \in Products /\ op[r] \in {"create", "update", "stock"}
      /\ Written(r, c) \in Row /\ Written(r, c) # Absent
      /\ op[r] = "create" => row[about[r]] = Absent /\ Written(r, c).info = 1
      /\ row[about[r]] # Absent => op[r] # "create" /\ row[about[r]] \in Row
      /\ op[r] = "update" => Written(r, c).info = row[about[r]].info + 1
      /\ op[r] = "stock" => /\ Written(r, c).info = row[about[r]].info
                            /\ Written(r, c).category = row[about[r]].category
  BY <1>1, <1>2, WrittenRow
<1>5. about[r] \in Range(created)
  BY <1>1, <1>2, <1>4 DEF RowsCreated
<1> QED
  BY <1>2, <1>3, <1>4, <1>5

\* Rows stay, and their versions do not go back.
Advanced ==
  \A p \in Products : row[p] # Absent =>
    row[p] \in Row /\ row'[p] \in Row /\ row'[p] # Absent /\ row[p].info <= row'[p].info

LEMMA RowsAdvance ==
  ASSUME IInv, [Next]_vars
  PROVE  /\ Advanced
         /\ Cardinality(Matching(Absent)) <= Cardinality(Matching(Absent)')
         /\ Cardinality(Matching(Absent)') \in Nat
<1>1. row \in [Products -> Row \cup {Absent}]
  BY DEF IInv, TypeOK
<1>2. Advanced
  <2>1. CASE row' = row
    BY <1>1, <2>1 DEF Advanced, Row
  <2>2. ASSUME NEW r \in Requests, NEW c \in CategoryOrNull, Commit(r, c) PROVE Advanced
    <3> SUFFICES ASSUME NEW p \in Products, row[p] # Absent
                 PROVE  row[p] \in Row /\ row'[p] \in Row /\ row'[p] # Absent /\ row[p].info <= row'[p].info
      BY DEF Advanced
    <3>1. row[p] \in Row /\ row[p].info \in Nat
      BY <1>1 DEF Row
    <3>2. CASE p = about[r]
      <4>1. /\ row'[p] = Written(r, c) /\ row'[p] \in Row /\ row'[p] # Absent
            /\ row'[p].info \in {row[p].info, row[p].info + 1}
        BY <2>2, <3>2, CommitWrites
      <4> QED
        BY <3>1, <4>1
    <3>3. CASE p # about[r]
      <4>1. row'[p] = row[p]
        BY <2>2, <3>3, CommitWrites
      <4> QED
        BY <3>1, <4>1
    <3> QED
      BY <3>2, <3>3
  <2> QED
    BY <2>1, <2>2, OnlyCommitWrites
<1>3. /\ Matching(Absent) \subseteq Matching(Absent)'
      /\ Matching(Absent)' \subseteq Products
  BY <1>2 DEF Advanced, Matching
<1>4. IsFiniteSet(Matching(Absent)')
  BY <1>3, ProductsAssumption, FS_Subset
<1> QED
  BY <1>2, <1>3, <1>4, FS_Subset, FS_CardinalityType

\* Products are created once each, and a row belongs to one of them.
LEMMA RowsCreatedNext ==
  ASSUME IInv, [Next]_vars
  PROVE  RowsCreated'
<1>0. TypeOK /\ RowsCreated /\ AllPlaced
  BY DEF IInv, AllPlaced
<1>t. /\ created \in Seq(Products) /\ row \in [Products -> Row \cup {Absent}]
      /\ phase \in [Requests -> Phases] /\ op \in [Requests -> Ops]
      /\ about \in [Requests -> Products \cup Pages \cup {Absent}]
  BY <1>0 DEF TypeOK
<1> DEFINE Creating(q) == phase[q] = "commit" /\ op[q] = "create"
<1>r. /\ IsInjective(created)
      /\ \A p \in Products : row[p] # Absent => p \in Range(created)
      /\ \A r \in Requests : Creating(r) =>
           /\ row[about[r]] = Absent /\ about[r] \in Range(created)
           /\ \A q \in Requests : Creating(q) /\ about[q] = about[r] => q = r
  BY <1>0 DEF RowsCreated
\* A step that starts no insertion and adds no row.
<1>1. ASSUME UNCHANGED <<created, row>>,
             \A q \in Requests : Creating(q)' => Creating(q) /\ about'[q] = about[q]
      PROVE  RowsCreated'
  BY <1>1, <1>r DEF RowsCreated
<1>2. CASE UNCHANGED vars
  BY <1>1, <1>2 DEF vars, requestVars
<1>3. CASE \E k \in Keys : Expire(k)
  BY <1>1, <1>3 DEF Expire, requestVars
<1>4. ASSUME NEW r \in Requests, Ask(r) PROVE RowsCreated'
  <2>1. PICK what \in Products \cup Pages, o \in Ops, next \in Phases :
         /\ Begin(r, o, what) /\ Go(r, next)
         /\ \/ /\ o = "create" /\ next = "commit" /\ what \in Products
               /\ what \notin Range(created) /\ created' = Append(created, what)
            \/ o # "create" /\ created' = created
    <3>1. PICK what \in Products \cup Pages, o \in Ops, next \in Phases :
           /\ Begin(r, o, what) /\ Go(r, next)
           /\ \/ o = "create" /\ next = "commit" /\ what \in Products
                 /\ what \notin Range(created) /\ created' = Append(created, what)
              \/ o \in {"update", "stock"} /\ next = "commit" /\ what \in Products /\ created' = created
              \/ o = "get" /\ next = "lookup" /\ what \in Products /\ created' = created
              \/ o = "list" /\ next = "lookup" /\ what \in Lists /\ created' = created
              \/ o = "list" /\ next = "fetch" /\ what \in Pages /\ created' = created
      BY <1>4, AskIs
    <3>2. CASE o = "create"
      BY <3>1, <3>2
    <3>3. CASE o # "create" /\ created' = created
      BY <3>1, <3>3
    <3> QED
      BY <3>1, <3>2, <3>3
  <2>2. /\ phase' = [phase EXCEPT ![r] = next] /\ op' = [op EXCEPT ![r] = o]
        /\ about' = [about EXCEPT ![r] = what] /\ row' = row
    BY <2>1 DEF Begin, Go
  <2>3. CASE o # "create" /\ created' = created
    <3>1. \A q \in Requests : Creating(q)' => Creating(q) /\ about'[q] = about[q]
      BY <1>t, <2>2, <2>3
    <3> QED
      BY <1>1, <2>2, <2>3, <3>1
  <2>4. CASE /\ o = "create" /\ what \in Products
             /\ what \notin Range(created) /\ created' = Append(created, what)
    <3>1. /\ Len(created') = Len(created) + 1 /\ Len(created) \in Nat
          /\ DOMAIN created' = 1 .. Len(created) + 1 /\ DOMAIN created = 1 .. Len(created)
          /\ \A i \in 1 .. Len(created) : created'[i] = created[i]
          /\ created'[Len(created) + 1] = what
      BY <1>t, <2>4, AppendProperties
    <3>2. Range(created') = Range(created) \cup {what}
      BY <3>1 DEF Range
    <3>3. IsInjective(created')
      <4> SUFFICES ASSUME NEW i \in DOMAIN created', NEW j \in DOMAIN created', created'[i] = created'[j]
                   PROVE  i = j
        BY DEF IsInjective
      <4>1. \A m \in 1 .. Len(created) : created[m] # what
        BY <2>4, <3>1 DEF Range
      <4>2. CASE i = Len(created) + 1 \/ j = Len(created) + 1
        BY <3>1, <4>1, <4>2
      <4>3. CASE i \in DOMAIN created /\ j \in DOMAIN created
        BY <1>r, <3>1, <4>3 DEF IsInjective
      <4> QED
        BY <3>1, <4>2, <4>3
    <3>4. \A q \in Requests : Creating(q)' => q = r \/ (q # r /\ Creating(q) /\ about'[q] = about[q])
      BY <1>t, <2>2
    <3>5. row[what] = Absent /\ about'[r] = what
      BY <1>r, <1>t, <2>2, <2>4
    <3>6. \A q \in Requests : Creating(q) => about[q] # what
      BY <1>r, <2>4
    <3>7. \A q \in Requests : Creating(q)' =>
            /\ row'[about'[q]] = Absent /\ about'[q] \in Range(created')
            /\ \A u \in Requests : Creating(u)' /\ about'[u] = about'[q] => u = q
      <4> SUFFICES ASSUME NEW q \in Requests, Creating(q)'
                   PROVE  /\ row'[about'[q]] = Absent /\ about'[q] \in Range(created')
                          /\ \A u \in Requests : Creating(u)' /\ about'[u] = about'[q] => u = q
        OBVIOUS
      <4>1. CASE q = r
        BY <2>2, <3>2, <3>4, <3>5, <3>6, <4>1
      <4>2. CASE q # r
        <5>1. Creating(q) /\ about'[q] = about[q]
          BY <3>4, <4>2
        <5> HIDE DEF Creating
        <5> QED
          BY <1>r, <2>2, <3>2, <3>4, <3>5, <3>6, <5>1
      <4> QED
        BY <4>1, <4>2
    <3>8. \A p \in Products : row'[p] # Absent => p \in Range(created')
      BY <1>r, <2>2, <3>2
    <3> QED
      BY <3>3, <3>7, <3>8 DEF RowsCreated
  <2> QED
    BY <2>1, <2>3, <2>4
<1>5. ASSUME NEW r \in Requests, NEW c \in CategoryOrNull, Commit(r, c) PROVE RowsCreated'
  <2>1. /\ phase[r] = "commit" /\ about[r] \in Products /\ about[r] \in Range(created)
        /\ row[about[r]] # Absent => op[r] # "create"
        /\ op[r] # "create" => row[about[r]] # Absent
        /\ \A p \in Products : p # about[r] => row'[p] = row[p]
    BY <1>5, CommitWrites DEF Commit
  <2>2. UNCHANGED <<created, op, about>> /\ phase' \in {[phase EXCEPT ![r] = AfterCommit(r)], [phase EXCEPT ![r] = "done"]}
    BY <1>5 DEF Commit, Return, Go, requestVars
  <2>3. \A q \in Requests : Creating(q)' => q # r /\ Creating(q)
    BY <1>t, <2>2 DEF AfterCommit
  <2>4. \A q \in Requests : q # r /\ Creating(q) => about[q] # about[r]
    BY <1>r, <2>1
  <2>5. \A q \in Requests : Creating(q) => about[q] \in Products
    BY <1>0 DEF AllPlaced, Placed
  <2>6. \A q \in Requests : Creating(q)' =>
          /\ row'[about'[q]] = Absent /\ about'[q] \in Range(created')
          /\ \A u \in Requests : Creating(u)' /\ about'[u] = about'[q] => u = q
    <3> HIDE DEF Creating
    <3> QED
      BY <1>r, <2>1, <2>2, <2>3, <2>4, <2>5
  <2>7. \A p \in Products : row'[p] # Absent => p \in Range(created')
    BY <1>r, <2>1, <2>2
  <2> QED
    BY <1>r, <2>2, <2>6, <2>7 DEF RowsCreated
<1>6. ASSUME NEW r \in Requests, Serve(r) \/ Die(r), ~ \E c \in CategoryOrNull : Commit(r, c)
      PROVE  RowsCreated'
  <2>1. UNCHANGED <<created, row, op, about>>
    BY <1>6 DEF Serve, Die, WriteFails, InvalidateProduct, StartScan, DeletePage, EndScan, Lookup, Fetch,
       Fill, Count, requestVars
  <2>2. phase'[r] # "commit" \/ phase' = phase
    BY <1>6, <1>t DEF Serve, Die, WriteFails, InvalidateProduct, AfterDelete, StartScan, DeletePage, EndScan,
       Lookup, Fetch, Fill, Count, Hold, Return, Go
  <2>3. \A q \in Requests : q # r => phase'[q] = phase[q]
    BY <1>0, <1>6, OneMoves
  <2> QED
    BY <1>1, <2>1, <2>2, <2>3
<1> QED
  BY <1>2, <1>3, <1>4, <1>5, <1>6 DEF Next

-----------------------------------------------------------------------------
(* Copies *)

\* What is cached was cached before, or held by a reader about to store it.
CacheFrom ==
  \A k \in Keys : cache'[k] # Absent =>
    \/ cache'[k] = cache[k]
    \/ \E r \in Requests : phase[r] = "fill" /\ about[r] = k /\ cache'[k] = seen[r]

\* What a reader holds it held before, found in the cache, or was answered by
\* the database.
SeenFrom ==
  \A r \in Requests :
    \/ /\ seen'[r] = seen[r]
       /\ phase'[r] \in {"fill", "count"} => phase[r] \in {"fill", "count"} /\ about'[r] = about[r]
       /\ phase'[r] = "fill" => phase[r] = "fill"
    \/ /\ phase[r] = "lookup" /\ phase'[r] \in {"count", "done"} /\ about'[r] = about[r]
       /\ about[r] \in Keys /\ cache[about[r]] # Absent /\ seen'[r] = cache[about[r]]
    \/ /\ phase[r] = "fetch" /\ about'[r] = about[r] /\ UNCHANGED <<created, row>>
       /\ about[r] \in Products \cup Pages
       /\ about[r] \in Products => row[about[r]] # Absent
       /\ seen'[r] = Select(about[r])

LEMMA CopiesComeFrom ==
  ASSUME IInv, [Next]_vars
  PROVE  CacheFrom /\ SeenFrom
<1>0. TypeOK /\ AllPlaced
  BY DEF IInv, AllPlaced
<1>t. /\ cache \in [Keys -> Seq(Copy) \cup {Absent}] /\ phase \in [Requests -> Phases]
      /\ seen \in [Requests -> Seq(Copy)]
      /\ Lists \subseteq Keys
  BY <1>0 DEF TypeOK, Keys
<1>d. ASSUME NEW k \in Keys, Drop(k) PROVE CacheFrom
  BY <1>d, <1>t DEF Drop, CacheFrom
<1>1. ASSUME UNCHANGED <<seen, phase, about>> PROVE SeenFrom
  BY <1>1 DEF SeenFrom
<1>2. CASE UNCHANGED vars
  BY <1>1, <1>2 DEF vars, requestVars, CacheFrom
<1>3. ASSUME NEW k \in Keys, Expire(k) PROVE CacheFrom /\ SeenFrom
  BY <1>1, <1>3, <1>d DEF Expire, requestVars
<1>4. ASSUME NEW r \in Requests, Ask(r) \/ Serve(r) \/ Die(r) PROVE CacheFrom
  <2>1. CASE Ask(r)
    <3>1. PICK what \in Products \cup Pages, o \in Ops, next \in Phases : Begin(r, o, what)
      BY <2>1, AskIs
    <3> QED
      BY <3>1 DEF Begin, CacheFrom
  <2>2. CASE InvalidateProduct(r)
    <3>1. about[r] \in Keys
      BY <1>0, <2>2 DEF InvalidateProduct, AllPlaced, Placed, Keys
    <3>2. Drop(about[r]) \/ UNCHANGED cache
      BY <2>2 DEF InvalidateProduct
    <3> QED
      BY <1>d, <3>1, <3>2 DEF CacheFrom
  <2>3. ASSUME NEW k \in Lists, DeletePage(r, k) PROVE CacheFrom
    <3>1. Drop(k) \/ UNCHANGED cache
      BY <2>3 DEF DeletePage
    <3> QED
      BY <1>d, <1>t, <3>1 DEF CacheFrom
  <2>4. CASE Fill(r)
    BY <1>t, <2>4 DEF Fill, CacheFrom
  <2>5. CASE \/ \E c \in CategoryOrNull : Commit(r, c)
             \/ WriteFails(r) \/ StartScan(r) \/ EndScan(r) \/ Lookup(r) \/ Fetch(r) \/ Count(r) \/ Die(r)
    BY <2>5 DEF Commit, WriteFails, StartScan, EndScan, Lookup, Fetch, Count, Die, CacheFrom
  <2> QED
    BY <1>4, <2>1, <2>2, <2>3, <2>4, <2>5 DEF Serve
<1>5. ASSUME NEW r \in Requests, Ask(r) \/ Serve(r) \/ Die(r) PROVE SeenFrom
  <2> DEFINE From(q) ==
        \/ /\ seen'[q] = seen[q]
           /\ phase'[q] \in {"fill", "count"} => phase[q] \in {"fill", "count"} /\ about'[q] = about[q]
           /\ phase'[q] = "fill" => phase[q] = "fill"
        \/ /\ phase[q] = "lookup" /\ phase'[q] \in {"count", "done"} /\ about'[q] = about[q]
           /\ about[q] \in Keys /\ cache[about[q]] # Absent /\ seen'[q] = cache[about[q]]
        \/ /\ phase[q] = "fetch" /\ about'[q] = about[q] /\ UNCHANGED <<created, row>>
           /\ about[q] \in Products \cup Pages
           /\ about[q] \in Products => row[about[q]] # Absent
           /\ seen'[q] = Select(about[q])
  <2>1. \A q \in Requests : q # r => From(q)
    BY <1>0, <1>5, OneMoves
  <2>2. From(r)
    <3>0. Placed(r)
      BY <1>0 DEF AllPlaced
    <3>1. CASE Ask(r)
      <4>1. PICK what \in Products \cup Pages, o \in Ops, next \in Phases :
             /\ Begin(r, o, what) /\ Go(r, next)
             /\ \/ o = "create" /\ next = "commit" /\ what \in Products
                   /\ what \notin Range(created) /\ created' = Append(created, what)
                \/ o \in {"update", "stock"} /\ next = "commit" /\ what \in Products /\ created' = created
                \/ o = "get" /\ next = "lookup" /\ what \in Products /\ created' = created
                \/ o = "list" /\ next = "lookup" /\ what \in Lists /\ created' = created
                \/ o = "list" /\ next = "fetch" /\ what \in Pages /\ created' = created
        BY <3>1, AskIs
      <4>2. seen' = seen /\ phase'[r] = next
        BY <1>t, <4>1 DEF Begin, Go
      <4> QED
        BY <4>1, <4>2
    <3>2. CASE \E c \in CategoryOrNull : Commit(r, c)
      <4>1. seen' = seen /\ phase'[r] \in {"scan", "invalidate", "done"}
        BY <1>t, <3>2 DEF Commit, AfterCommit, Return, Go
      <4> QED
        BY <4>1
    <3>3. CASE InvalidateProduct(r)
      <4>1. seen' = seen /\ phase'[r] \in {"scan", "done"}
        BY <1>t, <3>3 DEF InvalidateProduct, AfterDelete, Return, Go
      <4> QED
        BY <4>1
    <3>4. CASE WriteFails(r) \/ StartScan(r) \/ EndScan(r) \/ Count(r) \/ Die(r)
      <4>1. seen' = seen /\ phase'[r] \in {"delete", "done", "dead"}
        BY <1>t, <3>4 DEF WriteFails, StartScan, EndScan, Count, Die, Return, Go
      <4> QED
        BY <4>1
    <3>5. CASE \E k \in Lists : DeletePage(r, k)
      BY <3>5 DEF DeletePage, requestVars
    <3>6. CASE Lookup(r)
      <4>1. phase[r] = "lookup" /\ about' = about /\ about[r] \in Keys
        BY <3>0, <3>6 DEF Lookup, requestVars, Placed
      <4>2. \/ cache[about[r]] # Absent /\ seen'[r] = cache[about[r]] /\ phase'[r] \in {"count", "done"}
            \/ seen' = seen /\ phase'[r] = "fetch"
        BY <1>t, <3>6 DEF Lookup, Hold, Return, Go
      <4> QED
        BY <4>1, <4>2
    <3>7. CASE Fetch(r)
      <4>1. phase[r] = "fetch" /\ UNCHANGED <<created, row, about>> /\ about[r] \in Products \cup Pages
        BY <3>0, <3>7 DEF Fetch, requestVars, Placed
      <4>2. \/ (about[r] \in Products => row[about[r]] # Absent) /\ seen'[r] = Select(about[r])
            \/ seen' = seen /\ phase'[r] = "done"
        BY <1>t, <3>7 DEF Fetch, Hold, Return, Go
      <4> QED
        BY <4>1, <4>2
    <3>8. CASE Fill(r)
      <4>1. phase[r] = "fill" /\ about' = about /\ seen'[r] = seen[r] /\ phase'[r] \in {"fill", "count", "done"}
        BY <1>t, <3>8 DEF Fill, Hold, Return, Go, requestVars
      <4> QED
        BY <4>1
    <3> QED
      BY <1>5, <3>1, <3>2, <3>3, <3>4, <3>5, <3>6, <3>7, <3>8 DEF Serve
  <2> QED
    BY <2>1, <2>2 DEF SeenFrom
<1> QED
  BY <1>2, <1>3, <1>4, <1>5 DEF Next

\* The database's rows are not behind themselves.
LEMMA SelectBehind ==
  ASSUME TypeOK, RowsCreated, NEW k \in Products \cup Pages, k \in Products => row[k] # Absent
  PROVE  Behind(Select(k))
<1>1. \A i \in DOMAIN Select(k) :
        \E p \in Products : row[p] \in Row /\ row[p] # Absent /\ Select(k)[i] = CopyOf(p)
  BY SelectType
<1>2. ASSUME NEW p \in Products, row[p] \in Row, row[p] # Absent
      PROVE  row[CopyOf(p).product] # Absent /\ CopyOf(p).info <= row[CopyOf(p).product].info
  <2>1. CopyOf(p).product = p /\ CopyOf(p).info = row[p].info /\ row[p].info \in Nat
    BY <1>2 DEF CopyOf, Row
  <2> QED
    BY <1>2, <2>1
<1> QED
  BY <1>1, <1>2 DEF Behind

\* Rows only advance, so what was behind them stays behind.
LEMMA StillBehind ==
  ASSUME IInv, [Next]_vars, NEW rows \in Seq(Copy), Behind(rows)
  PROVE  \A i \in DOMAIN rows :
           row'[rows[i].product] # Absent /\ rows[i].info <= row'[rows[i].product].info
<1>1. Advanced
  BY RowsAdvance
<1> SUFFICES ASSUME NEW i \in DOMAIN rows
             PROVE  row'[rows[i].product] # Absent /\ rows[i].info <= row'[rows[i].product].info
  OBVIOUS
<1>2. rows[i].product \in Products /\ rows[i].info \in Nat
  <2>1. rows[i] \in Copy
    OBVIOUS
  <2> QED
    BY <2>1 DEF Copy
<1>3. row[rows[i].product] # Absent /\ rows[i].info <= row[rows[i].product].info
  BY DEF Behind
<1>4. /\ row[rows[i].product] \in Row /\ row'[rows[i].product] \in Row /\ row'[rows[i].product] # Absent
      /\ row[rows[i].product].info <= row'[rows[i].product].info
  BY <1>1, <1>2, <1>3 DEF Advanced
<1>5. row[rows[i].product].info \in Nat /\ row'[rows[i].product].info \in Nat
  BY <1>4 DEF Row
<1> QED
  BY <1>2, <1>3, <1>4, <1>5

\* The three invariants of what is cached and held.
LEMMA CopiesNext ==
  ASSUME IInv, [Next]_vars
  PROVE  KeysHaveRows' /\ CopiesBehind' /\ PagesCovered'
<1>0. TypeOK /\ RowsCreated /\ AllPlaced /\ KeysHaveRows /\ CopiesBehind /\ PagesCovered /\ TypeOK'
  BY TypeNext DEF IInv, AllPlaced
<1>t. /\ cache \in [Keys -> Seq(Copy) \cup {Absent}] /\ seen \in [Requests -> Seq(Copy)]
      /\ Keys = Products \cup Lists /\ Lists \subseteq Pages
  BY <1>0 DEF TypeOK, Keys, Lists
<1>c. CacheFrom /\ SeenFrom
  BY CopiesComeFrom
<1>a. /\ \A p \in Products : row[p] # Absent => row'[p] # Absent
      /\ Cardinality(Matching(Absent)) <= Cardinality(Matching(Absent)')
      /\ Cardinality(Matching(Absent)) \in Nat /\ Cardinality(Matching(Absent)') \in Nat
  BY <1>0, RowsAdvance, OrdersExist DEF Advanced, TypeOK
<1>f. \A r \in Requests : phase[r] = "fetch" /\ about[r] \in Products \cup Pages
        /\ (about[r] \in Products => row[about[r]] # Absent)
        => Behind(Select(about[r])) /\ Covers(about[r], Select(about[r])) /\ Select(about[r]) \in Seq(Copy)
  BY <1>0, SelectType, SelectBehind
<1>1. KeysHaveRows'
  <2>1. \A p \in Products : cache'[p] # Absent => row'[p] # Absent
    BY <1>0, <1>a, <1>c, <1>t DEF KeysHaveRows, CacheFrom
  <2>2. ASSUME NEW r \in Requests, phase'[r] = "fill", about'[r] \in Products PROVE row'[about'[r]] # Absent
    <3>1. CASE phase[r] = "fill" /\ about'[r] = about[r]
      BY <1>0, <1>a, <2>2, <3>1 DEF KeysHaveRows
    <3>2. CASE about'[r] = about[r] /\ UNCHANGED row /\ (about[r] \in Products => row[about[r]] # Absent)
      BY <2>2, <3>2
    <3> QED
      BY <1>c, <2>2, <3>1, <3>2 DEF SeenFrom
  <2> QED
    BY <2>1, <2>2 DEF KeysHaveRows
<1> DEFINE Still(rows) == \A i \in DOMAIN rows :
      row'[rows[i].product] # Absent /\ rows[i].info <= row'[rows[i].product].info
<1>2. CopiesBehind'
  <2>1. \A rows \in Seq(Copy) : Behind(rows) => Still(rows)
    BY StillBehind
  <2>2. \A k \in Keys : cache'[k] # Absent => Still(cache'[k])
    <3> HIDE DEF Still
    <3> QED
      BY <1>0, <1>c, <1>t, <2>1 DEF CacheFrom, CopiesBehind
  <2>3. \A r \in Requests : Still(seen'[r])
    <3> HIDE DEF Still
    <3> SUFFICES ASSUME NEW r \in Requests PROVE Still(seen'[r])
      OBVIOUS
    <3>1. CASE seen'[r] = seen[r]
      BY <1>0, <1>t, <2>1, <3>1 DEF CopiesBehind
    <3>2. CASE about[r] \in Keys /\ cache[about[r]] # Absent /\ seen'[r] = cache[about[r]]
      BY <1>0, <1>t, <2>1, <3>2 DEF CopiesBehind
    <3>3. CASE /\ phase[r] = "fetch" /\ about[r] \in Products \cup Pages
               /\ about[r] \in Products => row[about[r]] # Absent
               /\ seen'[r] = Select(about[r])
      BY <1>f, <2>1, <3>3
    <3> QED
      BY <1>c, <3>1, <3>2, <3>3 DEF SeenFrom
  <2> QED
    BY <2>2, <2>3 DEF CopiesBehind, Behind, Keys, Lists
<1> DEFINE StillCovers(k, rows) ==
      k \in Lists /\ rows # <<>> => k.skip + Len(rows) <= Cardinality(Matching(Absent)')
<1>3. PagesCovered'
  <2>1. \A k : \A rows \in Seq(Copy) : Covers(k, rows) => StillCovers(k, rows)
    <3> SUFFICES ASSUME NEW k, NEW rows \in Seq(Copy), Covers(k, rows), k \in Lists, rows # <<>>
                 PROVE  k.skip + Len(rows) <= Cardinality(Matching(Absent)')
      OBVIOUS
    <3>1. k.skip \in Nat /\ Len(rows) \in Nat
      BY <1>t, PageAssumption
    <3>2. k.skip + Len(rows) <= Cardinality(Matching(Absent))
      BY DEF Covers
    <3> DEFINE m == Cardinality(Matching(Absent))
               n == Cardinality(Matching(Absent)')
               l == Len(rows)
    <3>3. m \in Nat /\ n \in Nat /\ m <= n /\ k.skip + l <= m /\ l \in Nat
      BY <1>a, <3>1, <3>2
    <3>4. k.skip + l <= n
      <4> HIDE DEF m, n, l
      <4> QED
        BY <3>1, <3>3
    <3> QED
      BY <3>4
  <2>2. \A k \in Keys : cache'[k] # Absent => StillCovers(k, cache'[k])
    <3> HIDE DEF StillCovers
    <3> SUFFICES ASSUME NEW k \in Keys, cache'[k] # Absent PROVE StillCovers(k, cache'[k])
      OBVIOUS
    <3>1. CASE cache'[k] = cache[k]
      BY <1>0, <1>t, <2>1, <3>1 DEF PagesCovered
    <3>2. CASE \E r \in Requests : phase[r] = "fill" /\ about[r] = k /\ cache'[k] = seen[r]
      BY <1>0, <1>t, <2>1, <3>2 DEF PagesCovered
    <3> QED
      BY <1>c, <3>1, <3>2 DEF CacheFrom
  <2>3. \A r \in Requests : phase'[r] \in {"fill", "count"} => StillCovers(about'[r], seen'[r])
    <3> HIDE DEF StillCovers
    <3> SUFFICES ASSUME NEW r \in Requests, phase'[r] \in {"fill", "count"}
                 PROVE  StillCovers(about'[r], seen'[r])
      OBVIOUS
    <3>1. CASE seen'[r] = seen[r] /\ phase[r] \in {"fill", "count"} /\ about'[r] = about[r]
      BY <1>0, <1>t, <2>1, <3>1 DEF PagesCovered
    <3>2. CASE /\ about'[r] = about[r] /\ about[r] \in Keys /\ cache[about[r]] # Absent
               /\ seen'[r] = cache[about[r]]
      BY <1>0, <1>t, <2>1, <3>2 DEF PagesCovered
    <3>3. CASE /\ phase[r] = "fetch" /\ about'[r] = about[r] /\ about[r] \in Products \cup Pages
               /\ about[r] \in Products => row[about[r]] # Absent
               /\ seen'[r] = Select(about[r])
      BY <1>f, <2>1, <3>3
    <3> QED
      BY <1>c, <3>1, <3>2, <3>3 DEF SeenFrom
  <2> QED
    BY <2>2, <2>3 DEF PagesCovered, Covers, Keys, Lists
<1> QED
  BY <1>1, <1>2, <1>3

-----------------------------------------------------------------------------
(* Totals *)

\* Only a list's last step, its count, answers it.
LEMMA OnlyCountAnswersLists ==
  ASSUME TypeOK, AllPlaced, NEW r \in Requests, Ask(r) \/ Serve(r) \/ Die(r),
         answer'[r] = "ok", op'[r] = "list"
  PROVE  Count(r) \/ (UNCHANGED <<seen, total, about, op>> /\ answer[r] = "ok")
<1>t. /\ phase \in [Requests -> Phases] /\ op \in [Requests -> Ops]
      /\ answer \in [Requests -> {"none", "ok", "error"}]
  BY DEF TypeOK
<1>0. Placed(r)
  BY DEF AllPlaced
<1>1. CASE Ask(r)
  <2>1. PICK what \in Products \cup Pages, o \in Ops, next \in Phases : Begin(r, o, what)
    BY <1>1, AskIs
  <2>2. phase[r] = "new" /\ answer' = answer
    BY <2>1 DEF Begin
  <2> QED
    BY <1>0, <2>2 DEF Placed
<1>2. CASE \E c \in CategoryOrNull : Commit(r, c)
  BY <1>0, <1>2, <1>t DEF Commit, Return, Go, Placed
<1>3. CASE WriteFails(r) \/ StartScan(r) \/ Die(r)
  BY <1>0, <1>3, <1>t DEF WriteFails, StartScan, Die, Return, Resting, Placed
<1>4. CASE InvalidateProduct(r)
  BY <1>0, <1>4, <1>t DEF InvalidateProduct, AfterDelete, Return, requestVars, Placed
<1>5. CASE \E k \in Lists : DeletePage(r, k)
  BY <1>5 DEF DeletePage, requestVars
<1>6. CASE EndScan(r)
  BY <1>0, <1>6, <1>t DEF EndScan, requestVars, Placed
<1>7. CASE Lookup(r)
  BY <1>0, <1>7, <1>t DEF Lookup, Hold, requestVars, Placed
<1>8. CASE Fetch(r)
  BY <1>0, <1>8, <1>t DEF Fetch, Hold, Return, requestVars, Placed
<1>9. CASE Fill(r)
  BY <1>0, <1>9, <1>t DEF Fill, Hold, requestVars, Placed
<1> QED
  BY <1>1, <1>2, <1>3, <1>4, <1>5, <1>6, <1>7, <1>8, <1>9 DEF Serve

LEMMA TotalNext ==
  ASSUME IInv, [Next]_vars
  PROVE  TotalCoversPage'
<1>0. TypeOK /\ RowsCreated /\ AllPlaced /\ PagesCovered /\ TotalCoversPage
  BY DEF IInv, AllPlaced
<1>t. /\ seen \in [Requests -> Seq(Copy)] /\ total \in [Requests -> Nat]
      /\ answer \in [Requests -> {"none", "ok", "error"}]
  BY <1>0 DEF TypeOK
<1>1. ASSUME NEW q \in Requests,
             UNCHANGED <<op[q], about[q], answer[q], seen[q], total[q]>>,
             op'[q] = "list", answer'[q] = "ok", about'[q] \in Lists, total'[q] # 0, seen'[q] # <<>>
      PROVE  about'[q].skip + Len(seen'[q]) <= total'[q]
  BY <1>0, <1>1 DEF TotalCoversPage
<1> DEFINE Fits(q) == op'[q] = "list" /\ answer'[q] = "ok" /\ about'[q] \in Lists /\ total'[q] # 0 /\ seen'[q] # <<>>
                        => about'[q].skip + Len(seen'[q]) <= total'[q]
<1>2. CASE UNCHANGED vars \/ \E k \in Keys : Expire(k)
  BY <1>1, <1>2 DEF vars, requestVars, Expire, TotalCoversPage, Lists
<1>3. ASSUME NEW r \in Requests, Ask(r) \/ Serve(r) \/ Die(r) PROVE \A q \in Requests : Fits(q)
  <2>1. \A q \in Requests : q # r => Fits(q)
    BY <1>0, <1>1, <1>3, OneMoves
  <2>2. Fits(r)
    <3> SUFFICES ASSUME op'[r] = "list", answer'[r] = "ok", about'[r] \in Lists, total'[r] # 0, seen'[r] # <<>>
                 PROVE  about'[r].skip + Len(seen'[r]) <= total'[r]
      OBVIOUS
    <3>1. CASE UNCHANGED <<seen, total, about, op>> /\ answer[r] = "ok"
      BY <1>1, <3>1
    <3>2. CASE Count(r)
      <4>1. /\ phase[r] = "count" /\ UNCHANGED <<seen, about>>
            /\ total'[r] = CountProducts(r) \/ total'[r] = total[r]
        BY <1>t, <3>2 DEF Count, requestVars
      <4>2. total[r] = 0
        BY <1>0, <4>1 DEF AllPlaced, Placed
      <4>3. total'[r] = Cardinality(Matching(Absent))
        BY <4>1, <4>2 DEF CountProducts, Lists
      <4>4. about[r].skip + Len(seen[r]) <= Cardinality(Matching(Absent))
        BY <1>0, <4>1 DEF PagesCovered, Covers
      <4> QED
        BY <4>1, <4>3, <4>4
    <3> QED
      BY <1>0, <1>3, <3>1, <3>2, OnlyCountAnswersLists
  <2> QED
    BY <2>1, <2>2
<1>4. CASE \A q \in Requests : Fits(q)
  BY <1>4 DEF TotalCoversPage, Lists
<1> QED
  BY <1>2, <1>3, <1>4 DEF Next

-----------------------------------------------------------------------------
(* Freshness *)

\* A change of one row, or a new product, leaves the queries that do not ask
\* for it alone.
LEMMA SameOrders ==
  ASSUME IInv, [Next]_vars,
         NEW c, Matching(c)' = Matching(c)
  PROVE  Listed(c)' = Listed(c)
<1>0. RowsCreated /\ created \in Seq(Products)
  BY DEF IInv, TypeOK
<1>1. \A p, q \in Matching(c) : Newer(p, q)' = Newer(p, q)
  <2>1. CASE created' = created
    BY <2>1 DEF Newer
  <2>2. CASE created' # created
    <3>1. PICK r \in Requests : Ask(r)
      BY <2>2, OnlyCommitWrites
    <3>2. PICK n \in Products : n \notin Range(created) /\ created' = Append(created, n)
      BY <2>2, <3>1, AskIs
    <3>3. /\ Len(created) \in Nat
          /\ DOMAIN created' = 1 .. Len(created) + 1 /\ DOMAIN created = 1 .. Len(created)
          /\ \A i \in 1 .. Len(created) : created'[i] = created[i]
          /\ created'[Len(created) + 1] = n
      BY <1>0, <3>2, AppendProperties
    <3>4. n \notin Matching(c)
      BY <1>0, <3>2 DEF RowsCreated, Matching
    <3>5. \A p \in Matching(c), i \in DOMAIN created' : created'[i] = p => i \in DOMAIN created /\ created[i] = p
      BY <3>3, <3>4
    <3>6. \A i \in DOMAIN created : i \in DOMAIN created' /\ created'[i] = created[i]
      BY <3>3
    <3> QED
      BY <3>5, <3>6 DEF Newer
  <2> QED
    BY <2>1, <2>2
<1>2. Orders(c)' = Orders(c)
  <2> DEFINE n == Cardinality(Matching(c))
  <2>1. \A s \in [1 .. n -> Matching(c)] : \A i \in DOMAIN s : s[i] \in Matching(c)
    OBVIOUS
  <2>2. \A s \in [1 .. n -> Matching(c)] :
          (\A i, j \in DOMAIN s : i < j => Newer(s[i], s[j])')
            <=> (\A i, j \in DOMAIN s : i < j => Newer(s[i], s[j]))
    BY <1>1, <2>1
  <2> QED
    BY <2>2 DEF Orders
<1> QED
  BY <1>2 DEF Listed

\* The products and versions on a page say whether it is up to date, and the
\* row of a product whether its copy is.
LEMMA UpToDateKept ==
  ASSUME IInv, [Next]_vars, NEW k \in Keys, NEW rows, UpToDate(k, rows),
         \/ k \in Products /\ row'[k] = row[k]
         \/ /\ k \in Lists
            /\ \A p \in Products : (row'[p] = Absent <=> row[p] = Absent)
                                   /\ (row[p] # Absent => row'[p].info = row[p].info)
  PROVE  UpToDate(k, rows)'
<1>0. created \in Seq(Products) /\ row \in [Products -> Row \cup {Absent}] /\ RowsCreated
  BY DEF IInv, TypeOK
<1>1. CASE k \in Products /\ row'[k] = row[k]
  BY <1>1 DEF UpToDate, Concern, Select, CopyOf
<1>2. CASE /\ k \in Lists
           /\ \A p \in Products : (row'[p] = Absent <=> row[p] = Absent)
                                  /\ (row[p] # Absent => row'[p].info = row[p].info)
  <2>1. k \notin Products /\ k \in Pages /\ k.category = Absent
    BY <1>2, ProductsAssumption DEF Lists
  <2>2. Matching(Absent)' = Matching(Absent)
    BY <1>2 DEF Matching
  <2>3. Listed(Absent)' = Listed(Absent)
    BY <2>2, SameOrders
  <2> DEFINE ids == Slice(Listed(Absent), k)
  <2>4. ids \in Seq(Matching(Absent)) /\ ids' = ids
    BY <1>0, <2>1, <2>3, SliceType DEF Slice
  <2>5. /\ Select(k) = [i \in 1 .. Len(ids) |-> CopyOf(ids[i])]
        /\ Select(k)' = [i \in 1 .. Len(ids) |-> CopyOf(ids[i])']
    BY <2>1, <2>4 DEF Select, ListProducts
  <2> HIDE DEF ids
  <2> DEFINE bare(p, info) == [product |-> p, info |-> info, units |-> 0]
  <2> DEFINE zeroed(copy) == [copy EXCEPT !.units = 0]
  <2>6. \A p : /\ zeroed(CopyOf(p)) = bare(p, row[p].info)
               /\ zeroed(CopyOf(p)') = bare(p, row'[p].info)
    BY DEF CopyOf
  <2> HIDE DEF bare
  <2>7. /\ Concern(k, Select(k)) = [i \in 1 .. Len(ids) |-> bare(ids[i], row[ids[i]].info)]
        /\ Concern(k, Select(k))' = [i \in 1 .. Len(ids) |-> bare(ids[i], row'[ids[i]].info)]
    <3>1. DOMAIN Select(k) = 1 .. Len(ids) /\ DOMAIN Select(k)' = 1 .. Len(ids)
      BY <2>5
    <3>2. /\ Concern(k, Select(k)) = [i \in 1 .. Len(ids) |-> zeroed(Select(k)[i])]
          /\ Concern(k, Select(k))' = [i \in 1 .. Len(ids) |-> zeroed(Select(k)'[i])]
      BY <2>1, <3>1 DEF Concern
    <3>3. \A i \in 1 .. Len(ids) : Select(k)[i] = CopyOf(ids[i]) /\ Select(k)'[i] = CopyOf(ids[i])'
      BY <2>5
    <3> HIDE DEF zeroed
    <3>4. \A i \in 1 .. Len(ids) : /\ zeroed(Select(k)[i]) = bare(ids[i], row[ids[i]].info)
                                   /\ zeroed(Select(k)'[i]) = bare(ids[i], row'[ids[i]].info)
      BY <2>4, <2>6, <3>3
    <3> QED
      BY <3>2, <3>4
  <2>8. \A i \in 1 .. Len(ids) : row'[ids[i]].info = row[ids[i]].info
    <3>1. \A i \in 1 .. Len(ids) : ids[i] \in Products /\ row[ids[i]] # Absent
      BY <2>4 DEF Matching
    <3> QED
      BY <1>2, <3>1
  <2>9. Concern(k, Select(k))' = Concern(k, Select(k))
    BY <2>7, <2>8
  <2>10. Concern(k, rows)' = Concern(k, rows)
    BY DEF Concern
  <2> QED
    BY <2>1, <2>9, <2>10 DEF UpToDate
<1> QED
  BY <1>1, <1>2

\* A key that may be out of date.
Excused(k) == k \in late \/ \E r \in Requests : k \in Pending(r)

\* A key someone has yet to delete, or that is late, is so until it is deleted
\* or stored again.
LEMMA ExcusedKept ==
  ASSUME TypeOK, AllPlaced, NEW r \in Requests, Ask(r) \/ Serve(r) \/ Die(r),
         NEW k \in Keys, cache'[k] # Absent, Excused(k),
         Fill(r) /\ about[r] = k => UNCHANGED late
  PROVE  Excused(k)'
<1>t. /\ phase \in [Requests -> Phases] /\ op \in [Requests -> Ops]
      /\ found \in [Requests -> SUBSET Lists] /\ cache \in [Keys -> Seq(Copy) \cup {Absent}]
      /\ Lists \subseteq Keys /\ Placed(r)
  BY DEF TypeOK, Keys, AllPlaced
<1>d. ASSUME NEW j \in Keys, Drop(j)
      PROVE  /\ k \in late => k \in late'
             /\ \A q \in Requests : k \in found[q] => k \in found'[q]
  BY <1>d, <1>t DEF Drop
<1>1. k \in late => k \in late'
  <2>1. CASE Ask(r)
    <3>1. PICK what \in Products \cup Pages, o \in Ops, next \in Phases : Begin(r, o, what)
      BY <2>1, AskIs
    <3> QED
      BY <3>1 DEF Begin
  <2>2. CASE InvalidateProduct(r)
    <3>1. about[r] \in Keys
      BY <1>t, <2>2 DEF InvalidateProduct, Placed, Keys
    <3> QED
      BY <1>d, <2>2, <3>1 DEF InvalidateProduct
  <2>3. ASSUME NEW j \in Lists, DeletePage(r, j) PROVE k \in late => k \in late'
    BY <1>d, <1>t, <2>3 DEF DeletePage
  <2>4. CASE Fill(r)
    BY <1>t, <2>4 DEF Fill
  <2>5. CASE \/ \E c \in CategoryOrNull : Commit(r, c)
             \/ WriteFails(r) \/ StartScan(r) \/ EndScan(r) \/ Lookup(r) \/ Fetch(r) \/ Count(r) \/ Die(r)
    BY <2>5 DEF Commit, WriteFails, StartScan, EndScan, Lookup, Fetch, Count, Die
  <2> QED
    BY <2>1, <2>2, <2>3, <2>4, <2>5 DEF Serve
<1>2. ASSUME NEW q \in Requests, q # r, k \in Pending(q) PROVE k \in Pending(q)'
  <2>1. phase'[q] = phase[q] /\ op'[q] = op[q] /\ about'[q] = about[q]
    BY <1>2, OneMoves
  <2>2. k \in found[q] => k \in found'[q]
    <3>1. CASE Ask(r)
      <4>1. PICK what \in Products \cup Pages, o \in Ops, next \in Phases : Begin(r, o, what)
        BY <3>1, AskIs
      <4> QED
        BY <4>1 DEF Begin
    <3>2. CASE InvalidateProduct(r)
      <4>1. about[r] \in Keys
        BY <1>t, <3>2 DEF InvalidateProduct, Placed, Keys
      <4> QED
        BY <1>d, <3>2, <4>1 DEF InvalidateProduct
    <3>3. ASSUME NEW j \in Lists, DeletePage(r, j) PROVE k \in found[q] => k \in found'[q]
      BY <1>d, <1>t, <1>2, <3>3 DEF DeletePage
    <3>4. CASE StartScan(r) \/ Die(r)
      BY <1>t, <1>2, <3>4 DEF StartScan, Die
    <3>5. CASE \/ \E c \in CategoryOrNull : Commit(r, c)
               \/ WriteFails(r) \/ EndScan(r) \/ Lookup(r) \/ Fetch(r) \/ Fill(r) \/ Count(r)
      BY <3>5 DEF Commit, WriteFails, EndScan, Lookup, Fetch, Fill, Count
    <3> QED
      BY <3>1, <3>2, <3>3, <3>4, <3>5 DEF Serve
  <2> QED
    BY <1>2, <2>1, <2>2 DEF Pending, Lists
<1>3. ASSUME k \in Pending(r) PROVE k \in late' \/ k \in Pending(r)'
  <2>p. /\ phase[r] \in {"invalidate", "scan", "delete"}
        /\ phase[r] = "invalidate" => k = about[r] \/ (op[r] # "stock" /\ k \in Lists)
        /\ phase[r] = "scan" => k \in Lists
        /\ phase[r] = "delete" => k \in found[r] /\ k \in Lists
    BY <1>t, <1>3 DEF Pending
  <2>1. CASE InvalidateProduct(r)
    <3>1. /\ phase[r] = "invalidate" /\ about[r] \in Products
          /\ op[r] # "stock" => op[r] = "update"
      BY <1>t, <2>1 DEF InvalidateProduct, Placed
    <3>2. CASE k = about[r]
      <4>1. ~ Drop(about[r])
        BY <1>t, <3>2 DEF Drop
      <4>2. late' = late \cup Present({about[r]}) /\ UNCHANGED cache
        BY <2>1, <4>1 DEF InvalidateProduct
      <4> QED
        BY <3>2, <4>2 DEF Present
    <3>3. CASE op[r] # "stock" /\ k \in Lists
      <4>1. phase'[r] = "scan"
        BY <1>t, <2>1, <3>1, <3>3 DEF InvalidateProduct, AfterDelete, Go
      <4> QED
        BY <3>3, <4>1 DEF Pending, Lists
    <3> QED
      BY <2>p, <3>1, <3>2, <3>3
  <2>2. CASE StartScan(r)
    <3>1. phase[r] = "scan" /\ phase'[r] = "delete" /\ found'[r] = Present(Lists) /\ cache' = cache
      BY <1>t, <2>2 DEF StartScan, Go
    <3>2. k \in found'[r]
      BY <2>p, <3>1 DEF Present
    <3> QED
      BY <3>1, <3>2 DEF Pending
  <2>3. ASSUME NEW j \in Lists, DeletePage(r, j) PROVE k \in late' \/ k \in Pending(r)'
    <3>1. phase[r] = "delete" /\ phase' = phase /\ k \in found[r]
      BY <2>3, <2>p DEF DeletePage
    <3>2. CASE Drop(j)
      <4>1. k \in found'[r]
        BY <1>d, <1>t, <3>1, <3>2
      <4> QED
        BY <3>1, <4>1 DEF Pending
    <3>3. CASE found' = [found EXCEPT ![r] = @ \ {j}] /\ late' = late \cup {j}
      <4>1. CASE k = j
        BY <3>3, <4>1
      <4>2. CASE k # j
        <5>1. k \in found'[r]
          BY <1>t, <3>1, <3>3, <4>2
        <5> QED
          BY <3>1, <5>1 DEF Pending
      <4> QED
        BY <4>1, <4>2
    <3> QED
      BY <2>3, <3>2, <3>3 DEF DeletePage
  <2>4. CASE Die(r)
    <3>1. late' = late \cup Present(Pending(r)) /\ cache' = cache
      BY <2>4 DEF Die
    <3> QED
      BY <1>3, <3>1 DEF Present
  <2>5. CASE EndScan(r)
    BY <2>5, <2>p DEF EndScan
  <2>6. CASE Ask(r)
    <3>1. PICK what \in Products \cup Pages, o \in Ops, next \in Phases : Begin(r, o, what)
      BY <2>6, AskIs
    <3> QED
      BY <2>p, <3>1 DEF Begin
  <2>7. CASE (\E c \in CategoryOrNull : Commit(r, c)) \/ WriteFails(r) \/ Lookup(r) \/ Fetch(r) \/ Fill(r) \/ Count(r)
    BY <2>7, <2>p DEF Commit, WriteFails, Lookup, Fetch, Fill, Count
  <2> QED
    BY <2>1, <2>2, <2>3, <2>4, <2>5, <2>6, <2>7 DEF Serve
<1> QED
  BY <1>1, <1>2, <1>3 DEF Excused, Requests

\* Only Fill stores a key.
LEMMA OnlyFillStores ==
  ASSUME TypeOK, AllPlaced, NEW r \in Requests, Ask(r) \/ Serve(r) \/ Die(r),
         NEW k \in Keys, cache'[k] # Absent
  PROVE  \/ /\ cache'[k] = cache[k]
            /\ Fill(r) /\ about[r] = k => UNCHANGED late
         \/ /\ phase[r] = "fill" /\ about[r] = k /\ cache'[k] = seen[r] /\ row' = row
            /\ UpToDate(k, seen[r]) \/ k \in late'
<1>t. /\ cache \in [Keys -> Seq(Copy) \cup {Absent}] /\ Lists \subseteq Keys /\ Placed(r)
  BY DEF TypeOK, Keys, AllPlaced
<1>n. ~ Fill(r) => cache'[k] = cache[k]
  <2>d. ASSUME NEW j \in Keys, Drop(j) PROVE cache'[k] = cache[k]
    BY <2>d, <1>t DEF Drop
  <2>1. CASE Ask(r)
    <3>1. PICK what \in Products \cup Pages, o \in Ops, next \in Phases : Begin(r, o, what)
      BY <2>1, AskIs
    <3> QED
      BY <3>1 DEF Begin
  <2>2. CASE InvalidateProduct(r)
    <3>1. about[r] \in Keys
      BY <1>t, <2>2 DEF InvalidateProduct, Placed, Keys
    <3> QED
      BY <2>2, <2>d, <3>1 DEF InvalidateProduct
  <2>3. ASSUME NEW j \in Lists, DeletePage(r, j) PROVE cache'[k] = cache[k]
    BY <1>t, <2>3, <2>d DEF DeletePage
  <2>4. CASE \/ \E c \in CategoryOrNull : Commit(r, c)
             \/ WriteFails(r) \/ StartScan(r) \/ EndScan(r) \/ Lookup(r) \/ Fetch(r) \/ Count(r) \/ Die(r)
    BY <2>4 DEF Commit, WriteFails, StartScan, EndScan, Lookup, Fetch, Count, Die
  <2> QED
    BY <2>1, <2>2, <2>3, <2>4 DEF Serve
<1>f. CASE Fill(r)
  <2>1. CASE UNCHANGED <<cache, late>>
    BY <2>1
  <2>2. CASE /\ cache' = [cache EXCEPT ![about[r]] = seen[r]]
             /\ late' = IF UpToDate(about[r], seen[r]) THEN late \ {about[r]} ELSE late \cup {about[r]}
    BY <1>f, <1>t, <2>2 DEF Fill
  <2> QED
    BY <1>f, <2>1, <2>2 DEF Fill
<1> QED
  BY <1>f, <1>n

\* Every step leaves a key that is out of date to someone who will delete it,
\* or to its time to live.
LEMMA StaleNext ==
  ASSUME IInv, [Next]_vars
  PROVE  StaleOnlyIfLate'
<1>0. TypeOK /\ AllPlaced /\ KeysHaveRows /\ StaleOnlyIfLate
  BY DEF IInv, AllPlaced
<1>t. /\ cache \in [Keys -> Seq(Copy) \cup {Absent}] /\ phase \in [Requests -> Phases]
      /\ late \subseteq Present(Keys) /\ Keys = Products \cup Lists
  BY <1>0 DEF TypeOK, Keys
<1>s. \A k \in Keys : cache[k] # Absent => UpToDate(k, cache[k]) \/ Excused(k)
  BY <1>0 DEF StaleOnlyIfLate, Excused, Present
<1>u. ASSUME row' = row, NEW k \in Keys, NEW rows, UpToDate(k, rows) PROVE UpToDate(k, rows)'
  BY <1>t, <1>u, UpToDateKept
<1> DEFINE Fine(k) == UpToDate(k, cache[k])' \/ Excused(k)'
<1>1. CASE UNCHANGED vars
  <2>1. ASSUME NEW k \in Keys, cache'[k] # Absent PROVE Fine(k)
    <3>1. cache'[k] = cache[k] /\ row' = row /\ UNCHANGED <<late, phase, op, about, found>>
      BY <1>1 DEF vars, requestVars
    <3>2. Excused(k) => Excused(k)'
      BY <3>1 DEF Excused, Pending, Lists, Requests
    <3>3. UpToDate(k, cache[k]) => UpToDate(k, cache[k])'
      BY <1>u, <3>1
    <3> QED
      BY <1>s, <2>1, <3>1, <3>2, <3>3
  <2> QED
    BY <2>1 DEF StaleOnlyIfLate, Excused, Present, Keys, Lists, Requests
<1>2. ASSUME NEW j \in Keys, Expire(j) PROVE StaleOnlyIfLate'
  <2>1. ASSUME NEW k \in Keys, cache'[k] # Absent PROVE Fine(k)
    <3>1. /\ cache'[k] = cache[k] /\ k # j /\ row' = row /\ UNCHANGED <<phase, op, about>>
          /\ late' = late \ {j} /\ found' = [r \in Requests |-> found[r] \ {j}]
      BY <1>2, <1>t, <2>1 DEF Expire, Drop, requestVars
    <3>2. Excused(k) => Excused(k)'
      <4>1. \A q \in Requests : k \in Pending(q) => k \in Pending(q)'
        BY <3>1 DEF Pending, Lists
      <4> QED
        BY <3>1, <4>1 DEF Excused, Requests
    <3>3. UpToDate(k, cache[k]) => UpToDate(k, cache[k])'
      BY <1>u, <3>1
    <3> QED
      BY <1>s, <2>1, <3>1, <3>2, <3>3
  <2> QED
    BY <2>1 DEF StaleOnlyIfLate, Excused, Present, Keys, Lists, Requests
<1>3. ASSUME NEW r \in Requests, Ask(r) \/ Serve(r) \/ Die(r), row' = row,
             NEW k \in Keys, cache'[k] # Absent
      PROVE  Fine(k)
  <2>1. CASE /\ cache'[k] = cache[k]
             /\ Fill(r) /\ about[r] = k => UNCHANGED late
    <3>1. Excused(k) => Excused(k)'
      BY <1>0, <1>3, <2>1, ExcusedKept
    <3>2. UpToDate(k, cache[k]) => UpToDate(k, cache[k])'
      BY <1>3, <1>u, <2>1
    <3> QED
      BY <1>3, <1>s, <2>1, <3>1, <3>2
  <2>2. CASE /\ cache'[k] = seen[r]
             /\ UpToDate(k, seen[r]) \/ k \in late'
    <3>1. UpToDate(k, seen[r]) => UpToDate(k, cache[k])'
      BY <1>3, <1>u, <2>2
    <3>2. k \in late' => Excused(k)'
      BY DEF Excused
    <3> QED
      BY <2>2, <3>1, <3>2
  <2> QED
    BY <1>0, <1>3, <2>1, <2>2, OnlyFillStores
<1>4. ASSUME NEW r \in Requests, NEW c \in CategoryOrNull, Commit(r, c),
             NEW k \in Keys, cache'[k] # Absent
      PROVE  Fine(k)
  <2>1. cache' = cache /\ UNCHANGED <<op, about, found>> /\ phase[r] = "commit"
    BY <1>4 DEF Commit, requestVars
  <2>2. Excused(k) => Excused(k)'
    <3>1. Serve(r) /\ ~ Fill(r)
      BY <1>4, <2>1 DEF Serve, Fill
    <3> QED
      BY <1>0, <1>4, <3>1, ExcusedKept
  <2>3. UpToDate(k, cache[k]) \/ Excused(k)
    BY <1>4, <1>s, <2>1
  <2>4. /\ op[r] \in {"create", "update", "stock"} /\ about[r] \in Products
        /\ row'[about[r]] = Written(r, c) /\ row'[about[r]] # Absent
        /\ \A p \in Products : p # about[r] => row'[p] = row[p]
        /\ op[r] = "create" => row[about[r]] = Absent
        /\ op[r] = "stock" => Written(r, c).info = row[about[r]].info
        /\ op[r] # "create" => row[about[r]] # Absent
    BY <1>4, CommitWrites DEF Commit
  <2>5. CASE \/ k \in Products /\ k # about[r]
             \/ k \in Lists /\ op[r] = "stock"
    <3>1. \/ k \in Products /\ row'[k] = row[k]
          \/ /\ k \in Lists
             /\ \A p \in Products : (row'[p] = Absent <=> row[p] = Absent)
                                    /\ (row[p] # Absent => row'[p].info = row[p].info)
      BY <2>4, <2>5
    <3>2. \A rows : UpToDate(k, rows) => UpToDate(k, rows)'
      BY <3>1, UpToDateKept
    <3>3. UpToDate(k, cache[k]) => UpToDate(k, cache[k])'
      BY <2>1, <3>2
    <3> QED
      BY <2>2, <2>3, <3>3
  <2>6. CASE (k = about[r] /\ op[r] # "create") \/ (k \in Lists /\ op[r] # "stock")
    <3>1. CASE Go(r, AfterCommit(r))
      <4>1. phase'[r] = AfterCommit(r) /\ op'[r] = op[r] /\ about'[r] = about[r]
        BY <1>t, <2>1, <3>1 DEF Go
      <4>2. k \in Pending(r)'
        BY <2>4, <2>6, <4>1 DEF Pending, AfterCommit, Lists
      <4> QED
        BY <4>2 DEF Excused, Requests
    <3>2. CASE late' = late \cup Present(Lists \cup {about[r]})
      <4>1. k \in late'
        BY <1>4, <2>1, <2>6, <3>2 DEF Present
      <4> QED
        BY <4>1 DEF Excused
    <3> QED
      BY <1>4, <3>1, <3>2 DEF Commit
  <2>7. CASE k = about[r] /\ op[r] = "create"
    BY <1>0, <1>4, <2>1, <2>4, <2>7 DEF KeysHaveRows
  <2> QED
    BY <1>t, <2>5, <2>6, <2>7
<1>5. ASSUME NEW r \in Requests, Ask(r) \/ Serve(r) \/ Die(r), NEW k \in Keys, cache'[k] # Absent
      PROVE  Fine(k)
  <2>1. CASE \E c \in CategoryOrNull : Commit(r, c)
    BY <1>4, <1>5, <2>1
  <2>2. CASE ~ \E c \in CategoryOrNull : Commit(r, c)
    <3>1. row' = row
      <4>1. CASE Ask(r)
        <5>1. PICK what \in Products \cup Pages, o \in Ops, next \in Phases : Begin(r, o, what)
          BY <4>1, AskIs
        <5> QED
          BY <5>1 DEF Begin
      <4>2. CASE Serve(r) \/ Die(r)
        BY <2>2, <4>2 DEF Serve, Die, WriteFails, InvalidateProduct, StartScan, DeletePage, EndScan, Lookup,
           Fetch, Fill, Count
      <4> QED
        BY <1>5, <4>1, <4>2
    <3> QED
      BY <1>3, <1>5, <3>1
  <2> QED
    BY <2>1, <2>2
<1>6. CASE \E r \in Requests : Ask(r) \/ Serve(r) \/ Die(r)
  <2>1. \A k \in Keys : cache'[k] # Absent => Fine(k)
    BY <1>5, <1>6
  <2> QED
    BY <2>1 DEF StaleOnlyIfLate, Excused, Present, Keys, Lists, Requests
<1> QED
  BY <1>1, <1>2, <1>6 DEF Next

-----------------------------------------------------------------------------
LEMMA InitInv ==
  ASSUME Init
  PROVE  IInv
<1>1. \A p \in Products : row[p] # Absent => p \in Range(Existing)
  BY DEF Init
<1>2. TypeOK
  <2>1. [info |-> 1, units |-> 0, category |-> Absent] \in Row
    BY DEF Row, CategoryOrNull
  <2>2. row \in [Products -> Row \cup {Absent}]
    BY <2>1 DEF Init
  <2>3. Present(Keys) = {}
    BY DEF Init, Present
  <2> QED
    BY <2>2, <2>3, ExistingAssumption DEF Init, TypeOK, Phases, Resting, Ops
<1>3. \A r \in Requests : Placed(r) /\ phase[r] = "new" /\ seen[r] = <<>>
  BY DEF Init, Placed
<1>4. RowsCreated
  BY <1>1, <1>3, ExistingAssumption DEF Init, RowsCreated
<1>5. KeysHaveRows
  BY <1>3 DEF Init, KeysHaveRows, Keys
<1>6. \A k \in Keys : cache[k] = Absent
  BY DEF Init
<1>7. CopiesBehind /\ PagesCovered
  BY <1>3, <1>6 DEF CopiesBehind, Behind, PagesCovered
<1>8. TotalCoversPage /\ StaleOnlyIfLate
  BY <1>3, <1>6 DEF Init, TotalCoversPage, StaleOnlyIfLate, Present
<1> QED
  BY <1>2, <1>3, <1>4, <1>5, <1>7, <1>8 DEF IInv

LEMMA NextInv ==
  ASSUME IInv, [Next]_vars
  PROVE  IInv'
<1>1. \A r \in Requests : Placed(r)'
  BY PlacedNext DEF AllPlaced, Requests
<1> QED
  BY <1>1, TypeNext, RowsCreatedNext, CopiesNext, TotalNext, StaleNext DEF IInv, Requests

\* What is cached, held, counted and created fits together in every behaviour.
THEOREM Invariance == Spec => []IInv
<1>1. Init => IInv
  BY InitInv
<1>2. IInv /\ [Next]_vars => IInv'
  BY NextInv
<1> QED
  BY <1>1, <1>2, PTL DEF Spec

\* Every variable keeps to its type: in particular no page, cached or
\* answered, has more rows than its limit.
THEOREM TypeCorrect == Spec => []TypeOK
<1>1. IInv => TypeOK
  BY DEF IInv
<1> QED
  BY <1>1, Invariance, PTL

\* The total of a list of all products covers its page, whether the page came
\* from the cache or from the database, however old it is.
THEOREM TotalsCover == Spec => []TotalCoversPage
<1>1. IInv => TotalCoversPage
  BY DEF IInv
<1> QED
  BY <1>1, Invariance, PTL

\* Whatever overlaps, fails or dies, a key that is out of date has a writer
\* that will delete it or is one of those only the time to live will mend.
THEOREM StaleIfLate == Spec => []StaleOnlyIfLate
<1>1. IInv => StaleOnlyIfLate
  BY DEF IInv
<1> QED
  BY <1>1, Invariance, PTL

-----------------------------------------------------------------------------
(* What readers are promised *)

\* The oldest version anyone may be shown is the row's or that of a copy.
OldestFits ==
  \A p \in Products :
    /\ Latest[p] \in Nat /\ Oldest[p] \in Nat /\ Oldest[p] <= Latest[p]
    /\ \A d \in Copies : d.product = p => d.info \in Nat /\ Oldest[p] <= d.info /\ d.info <= Latest[p]
    /\ Oldest[p] = Latest[p] \/ \E d \in Copies : d.product = p /\ d.info = Oldest[p]

LEMMA OldestIs == IInv => OldestFits
<1> SUFFICES ASSUME IInv, NEW p \in Products
             PROVE  /\ Latest[p] \in Nat /\ Oldest[p] \in Nat /\ Oldest[p] <= Latest[p]
                    /\ \A d \in Copies : d.product = p => d.info \in Nat /\ Oldest[p] <= d.info /\ d.info <= Latest[p]
                    /\ Oldest[p] = Latest[p] \/ \E d \in Copies : d.product = p /\ d.info = Oldest[p]
  BY DEF OldestFits
<1>t. /\ TypeOK /\ CopiesBehind
      /\ cache \in [Keys -> Seq(Copy) \cup {Absent}] /\ seen \in [Requests -> Seq(Copy)]
      /\ row \in [Products -> Row \cup {Absent}]
  BY DEF IInv, TypeOK
<1>1. Latest[p] = IF row[p] = Absent THEN 0 ELSE row[p].info
  BY DEF Latest
<1>2. Latest[p] \in Nat
  BY <1>1, <1>t DEF Row
<1>3. ASSUME NEW rows \in Seq(Copy), Behind(rows), NEW d \in Range(rows), d.product = p
      PROVE  d.info \in Nat /\ d.info <= Latest[p]
  <2>1. PICK i \in DOMAIN rows : d = rows[i]
    BY DEF Range
  <2>2. d \in Copy
    BY <2>1
  <2>3. d.info \in Nat
    BY <2>2 DEF Copy
  <2>4. row[p] # Absent /\ d.info <= row[p].info
    BY <1>3, <2>1 DEF Behind
  <2> QED
    BY <1>1, <2>3, <2>4
<1>4. \A d \in Copies : d.product = p => d.info \in Nat /\ d.info <= Latest[p]
  <2>1. \A k \in Present(Keys) : cache[k] \in Seq(Copy) /\ Behind(cache[k])
    BY <1>t DEF Present, CopiesBehind
  <2>2. \A r \in Requests : seen[r] \in Seq(Copy) /\ Behind(seen[r])
    BY <1>t DEF CopiesBehind
  <2> QED
    BY <1>3, <2>1, <2>2 DEF Copies
<1> DEFINE V == {Latest[p]} \cup {d.info : d \in {e \in Copies : e.product = p}}
<1>5. V \in SUBSET Nat /\ V # {}
  BY <1>2, <1>4
<1>6. Oldest[p] = Min(V)
  BY DEF Oldest
<1>7. Min(V) \in V /\ \A n \in V : Min(V) <= n
  <2> HIDE DEF V
  <2>1. \E m \in V : \A n \in V : m <= n
    BY <1>5, Least
  <2> QED
    BY <2>1 DEF Min
<1> QED
  BY <1>2, <1>4, <1>5, <1>6, <1>7

\* A copy that appears is another's, or the row as it is.
LEMMA CopiesFrom ==
  ASSUME IInv, [Next]_vars
  PROVE  /\ \A d \in Copies' : d \in Copies \/ \E p \in Products : row[p] # Absent /\ d = CopyOf(p)
         /\ \A r \in Requests : phase[r] \notin {"done", "dead"} =>
              \A d \in Range(seen'[r]) : d \in Copies \/ \E p \in Products : row[p] # Absent /\ d = CopyOf(p)
<1>0. TypeOK /\ RowsCreated /\ CacheFrom /\ SeenFrom /\ AllPlaced
  BY CopiesComeFrom DEF IInv, AllPlaced
<1> DEFINE Old(d) == d \in Copies \/ \E p \in Products : row[p] # Absent /\ d = CopyOf(p)
<1>1. ASSUME NEW k \in Keys, cache[k] # Absent, NEW d \in Range(cache[k]) PROVE Old(d)
  BY <1>1 DEF Copies, Present
<1>2. ASSUME NEW q \in Requests, phase[q] \in {"fill", "count"}, NEW d \in Range(seen[q]) PROVE Old(d)
  BY <1>2 DEF Copies
<1>3. ASSUME NEW k \in Products \cup Pages, k \in Products => row[k] # Absent, NEW d \in Range(Select(k))
      PROVE  Old(d)
  <2>1. PICK i \in DOMAIN Select(k) : d = Select(k)[i]
    BY DEF Range
  <2>2. PICK p \in Products : row[p] # Absent /\ Select(k)[i] = CopyOf(p)
    BY <1>0, <1>3, SelectType
  <2> QED
    BY <2>1, <2>2
<1>4. ASSUME NEW q \in Requests, phase[q] \notin {"done", "dead"} \/ phase'[q] \in {"fill", "count"},
             NEW d \in Range(seen'[q])
      PROVE  Old(d)
  <2>1. CASE /\ seen'[q] = seen[q]
             /\ phase'[q] \in {"fill", "count"} => phase[q] \in {"fill", "count"} /\ about'[q] = about[q]
    <3>1. CASE phase[q] \in {"fill", "count"}
      BY <1>2, <1>4, <2>1, <3>1
    <3>2. CASE phase[q] \notin {"fill", "count", "done", "dead"}
      BY <1>0, <1>4, <2>1, <3>2 DEF AllPlaced, Placed, Range
    <3> QED
      BY <1>4, <2>1, <3>1, <3>2
  <2>2. CASE about[q] \in Keys /\ cache[about[q]] # Absent /\ seen'[q] = cache[about[q]]
    BY <1>1, <1>4, <2>2
  <2>3. CASE /\ about[q] \in Products \cup Pages
             /\ about[q] \in Products => row[about[q]] # Absent
             /\ seen'[q] = Select(about[q])
    BY <1>3, <1>4, <2>3
  <2> QED
    BY <1>0, <2>1, <2>2, <2>3 DEF SeenFrom
<1>5. ASSUME NEW k \in Keys, cache'[k] # Absent, NEW d \in Range(cache'[k]) PROVE Old(d)
  <2>1. CASE cache'[k] = cache[k]
    BY <1>1, <1>5, <2>1
  <2>2. CASE \E q \in Requests : phase[q] = "fill" /\ about[q] = k /\ cache'[k] = seen[q]
    BY <1>2, <1>5, <2>2
  <2> QED
    BY <1>0, <1>5, <2>1, <2>2 DEF CacheFrom
<1>6. \A d \in Copies' : Old(d)
  <2> HIDE DEF Old
  <2> QED
    BY <1>4, <1>5 DEF Copies, Present, Keys, Lists, Requests, Range
<1>7. \A r \in Requests : phase[r] \notin {"done", "dead"} => \A d \in Range(seen'[r]) : Old(d)
  <2> HIDE DEF Old
  <2> QED
    BY <1>4
<1> QED
  BY <1>6, <1>7

\* The newest version is unchanged or one more.
LEMMA LatestMoves ==
  ASSUME IInv, [Next]_vars
  PROVE  /\ Latest' = Latest \/ \E p \in Products : Latest' = [Latest EXCEPT ![p] = @ + 1]
         /\ \A p \in Products : Latest[p] \in Nat /\ Latest'[p] \in Nat /\ Latest[p] <= Latest'[p]
<1>0. OldestFits
  BY OldestIs
<1>n. \A p \in Products : Latest[p] \in Nat
  BY <1>0 DEF OldestFits
<1>1. CASE row' = row
  <2>1. Latest' = Latest
    BY <1>1 DEF Latest
  <2> QED
    BY <1>n, <2>1
<1>2. ASSUME NEW r \in Requests, NEW c \in CategoryOrNull, Commit(r, c)
      PROVE  \E p \in Products : Latest' = Latest \/ Latest' = [Latest EXCEPT ![p] = @ + 1]
  <2> DEFINE p == about[r]
  <2>1. /\ p \in Products /\ op[r] \in {"create", "update", "stock"}
        /\ row'[p] = Written(r, c) /\ row'[p] # Absent
        /\ \A q \in Products : q # p => row'[q] = row[q]
        /\ op[r] = "create" => row[p] = Absent /\ Written(r, c).info = 1
        /\ op[r] # "create" => row[p] # Absent
        /\ op[r] = "update" => Written(r, c).info = row[p].info + 1
        /\ op[r] = "stock" => Written(r, c).info = row[p].info
    BY <1>2, CommitWrites DEF Commit
  <2> HIDE DEF p
  <2>2. \A q \in Products : q # p => Latest'[q] = Latest[q]
    BY <2>1 DEF Latest
  <2>3. Latest[p] = (IF row[p] = Absent THEN 0 ELSE row[p].info) /\ Latest'[p] = row'[p].info
    BY <2>1 DEF Latest
  <2>4. Latest'[p] = Latest[p] \/ Latest'[p] = Latest[p] + 1
    <3>1. CASE op[r] = "create"
      BY <2>1, <2>3, <3>1
    <3>2. CASE op[r] = "update"
      BY <2>1, <2>3, <3>2
    <3>3. CASE op[r] = "stock"
      BY <2>1, <2>3, <3>3
    <3> QED
      BY <2>1, <3>1, <3>2, <3>3
  <2>5. /\ Latest = [q \in Products |-> Latest[q]]
        /\ Latest' = [q \in Products |-> Latest'[q]]
    BY DEF Latest
  <2>6. CASE Latest'[p] = Latest[p]
    BY <2>1, <2>2, <2>5, <2>6
  <2>7. CASE Latest'[p] = Latest[p] + 1
    BY <2>1, <2>2, <2>5, <2>7
  <2> QED
    BY <2>1, <2>4, <2>6, <2>7
<1>3. CASE \E r \in Requests, c \in CategoryOrNull : Commit(r, c)
  <2>1. Latest' = Latest \/ \E p \in Products : Latest' = [Latest EXCEPT ![p] = @ + 1]
    BY <1>2, <1>3
  <2>2. CASE Latest' = Latest
    BY <1>n, <2>2
  <2>3. ASSUME NEW p \in Products, Latest' = [Latest EXCEPT ![p] = @ + 1]
        PROVE  \A q \in Products : Latest[q] \in Nat /\ Latest'[q] \in Nat /\ Latest[q] <= Latest'[q]
    <3>1. DOMAIN Latest = Products
      BY DEF Latest
    <3>2. \A q \in Products : Latest'[q] = IF q = p THEN Latest[q] + 1 ELSE Latest[q]
      BY <2>3, <3>1
    <3> QED
      BY <1>n, <3>2
  <2> QED
    BY <2>1, <2>2, <2>3
<1> QED
  BY <1>1, <1>3, OnlyCommitWrites

\* Nothing comes back: the oldest version only goes up, and not beyond the
\* newest.
LEMMA OldestForgets ==
  ASSUME IInv, [Next]_vars
  PROVE  \A p \in Products : Oldest'[p] \in Nat /\ Oldest'[p] \in Oldest[p] .. Latest'[p]
<1>0. OldestFits /\ OldestFits'
  <2>1. IInv'
    BY NextInv
  <2>2. OldestFits
    BY OldestIs
  <2>3. IInv' => OldestFits'
    BY OldestIs, PTL
  <2> QED
    BY <2>1, <2>2, <2>3
<1> SUFFICES ASSUME NEW p \in Products
             PROVE  Oldest'[p] \in Nat /\ Oldest'[p] \in Oldest[p] .. Latest'[p]
  OBVIOUS
<1>1. Latest[p] \in Nat /\ Latest'[p] \in Nat /\ Latest[p] <= Latest'[p]
  BY LatestMoves
<1>2. /\ Oldest[p] \in Nat /\ Oldest[p] <= Latest[p]
      /\ \A d \in Copies : d.product = p => Oldest[p] <= d.info
  BY <1>0 DEF OldestFits
<1>3. /\ Oldest'[p] \in Nat /\ Oldest'[p] <= Latest'[p]
      /\ Oldest'[p] = Latest'[p] \/ \E d \in Copies' : d.product = p /\ d.info = Oldest'[p]
  BY <1>0 DEF OldestFits
<1>4. Oldest[p] <= Oldest'[p]
  <2>1. CASE Oldest'[p] = Latest'[p]
    BY <1>1, <1>2, <2>1
  <2>2. ASSUME NEW d \in Copies', d.product = p, d.info = Oldest'[p] PROVE Oldest[p] <= Oldest'[p]
    <3>1. CASE d \in Copies
      BY <1>2, <2>2, <3>1
    <3>2. CASE \E q \in Products : row[q] # Absent /\ d = CopyOf(q)
      <4>1. row[p] # Absent /\ d.info = row[p].info
        BY <2>2, <3>2 DEF CopyOf
      <4>2. d.info = Latest[p]
        BY <4>1 DEF Latest
      <4> QED
        BY <1>2, <2>2, <4>2
    <3> QED
      BY <2>2, <3>1, <3>2, CopiesFrom
  <2> QED
    BY <1>3, <2>1, <2>2
<1> QED
  BY <1>1, <1>2, <1>3, <1>4

\* A request is answered once.
LEMMA OneAnswer ==
  ASSUME TypeOK, AllPlaced, NEW r \in Requests, Ask(r) \/ Serve(r) \/ Die(r)
  PROVE  /\ answer[r] # "ok" /\ phase[r] \notin {"done", "dead"}
         /\ answer'[r] = "ok" => row' = row
<1>t. answer \in [Requests -> {"none", "ok", "error"}] /\ Placed(r)
  BY DEF TypeOK, AllPlaced
<1>1. phase[r] \notin {"done", "dead"}
  <2>1. CASE Ask(r)
    <3>1. PICK what \in Products \cup Pages, o \in Ops, next \in Phases : Begin(r, o, what)
      BY <2>1, AskIs
    <3> QED
      BY <3>1 DEF Begin
  <2>2. CASE Serve(r) \/ Die(r)
    BY <2>2 DEF Serve, Die, Commit, WriteFails, InvalidateProduct, StartScan, DeletePage, EndScan, Lookup,
       Fetch, Fill, Count, Resting
  <2> QED
    BY <2>1, <2>2
<1>2. answer[r] = "none"
  BY <1>1, <1>t DEF Placed
<1>3. answer'[r] = "ok" => row' = row
  <2>1. CASE Ask(r)
    <3>1. PICK what \in Products \cup Pages, o \in Ops, next \in Phases : Begin(r, o, what)
      BY <2>1, AskIs
    <3> QED
      BY <3>1 DEF Begin
  <2>2. CASE \E c \in CategoryOrNull : Commit(r, c)
    BY <1>2, <1>t, <2>2 DEF Commit, Return
  <2>3. CASE ~ Ask(r) /\ ~ \E c \in CategoryOrNull : Commit(r, c)
    BY <2>3 DEF Serve, Die, WriteFails, InvalidateProduct, StartScan, DeletePage, EndScan, Lookup,
       Fetch, Fill, Count
  <2> QED
    BY <2>1, <2>2, <2>3
<1> QED
  BY <1>1, <1>2, <1>3

\* What a request shows is from the versions that are still about.
LEMMA ShowsOldest ==
  ASSUME IInv, [Next]_vars, NEW r \in Requests, Ask(r) \/ Serve(r) \/ Die(r), answer'[r] = "ok"
  PROVE  \A v \in Shown'[r] :
           v \in reads!Version /\ v.version \in Oldest[v.product] .. Latest[v.product]
<1>0. TypeOK /\ AllPlaced /\ OldestFits
  BY OldestIs DEF IInv, AllPlaced
<1>1. phase[r] \notin {"done", "dead"}
  BY <1>0, OneAnswer
<1>2. \A d \in Range(seen'[r]) : d \in Copies \/ \E p \in Products : row[p] # Absent /\ d = CopyOf(p)
  BY <1>1, CopiesFrom
<1>3. seen' \in [Requests -> Seq(Copy)]
  BY TypeNext DEF TypeOK
<1> SUFFICES ASSUME NEW v \in Shown'[r]
             PROVE  v \in reads!Version /\ v.version \in Oldest[v.product] .. Latest[v.product]
  OBVIOUS
<1>4. PICK d \in Range(seen'[r]) : v = [product |-> d.product, version |-> d.info]
  BY DEF Shown, Requests
<1>5. d \in Copy
  BY <1>3, <1>4 DEF Range
<1>6. v.product = d.product /\ v.version = d.info /\ d.product \in Products /\ d.info \in Nat
  BY <1>4, <1>5 DEF Copy
<1>7. Oldest[d.product] \in Nat /\ Latest[d.product] \in Nat /\ Oldest[d.product] <= Latest[d.product]
  BY <1>0, <1>6 DEF OldestFits
<1>8. CASE d \in Copies
  <2>1. Oldest[d.product] <= d.info /\ d.info <= Latest[d.product]
    BY <1>0, <1>6, <1>8 DEF OldestFits
  <2> QED
    BY <1>4, <1>6, <1>7, <2>1 DEF reads!Version
<1>9. CASE \E p \in Products : row[p] # Absent /\ d = CopyOf(p)
  <2>1. d.info = Latest[d.product]
    BY <1>9 DEF CopyOf, Latest
  <2> QED
    BY <1>4, <1>6, <1>7, <2>1 DEF reads!Version
<1> QED
  BY <1>2, <1>4, <1>8, <1>9 DEF Range

\* Each step is one of ProductReads: a version is written, a reader is shown
\* some, or old copies go.
LEMMA ReadsStep ==
  ASSUME IInv, [Next]_vars
  PROVE  [reads!Next]_reads!vars
<1>0. TypeOK /\ AllPlaced
  BY DEF IInv, AllPlaced
<1>1. reads!Forget
  <2>1. Oldest' = [p \in Products |-> Oldest'[p]]
    BY DEF Oldest
  <2> QED
    BY <2>1, OldestForgets DEF reads!Forget
<1>2. ASSUME Shown' = Shown PROVE reads!Next
  <2>1. CASE Latest' = Latest
    BY <1>1, <1>2, <2>1 DEF reads!Next
  <2>2. CASE \E p \in Products : Latest' = [Latest EXCEPT ![p] = @ + 1]
    BY <1>1, <1>2, <2>2 DEF reads!Next, reads!Write
  <2> QED
    BY <2>1, <2>2, LatestMoves
<1>3. ASSUME UNCHANGED <<answer, seen>> PROVE Shown' = Shown
  BY <1>3 DEF Shown, Requests
<1>4. CASE UNCHANGED vars \/ \E k \in Keys : Expire(k)
  BY <1>2, <1>3, <1>4 DEF vars, Expire
<1>5. ASSUME NEW r \in Requests, Ask(r) \/ Serve(r) \/ Die(r) PROVE reads!Next
  <2>1. \A q \in Requests : q # r => seen'[q] = seen[q] /\ answer'[q] = answer[q]
    BY <1>0, <1>5, OneMoves
  <2>2. \A q \in Requests : q # r => Shown'[q] = Shown[q]
    BY <2>1 DEF Shown, Requests
  <2>3. answer[r] # "ok" /\ (answer'[r] = "ok" => row' = row)
    BY <1>0, <1>5, OneAnswer
  <2>4. /\ Shown = [q \in Requests |-> Shown[q]] /\ Shown' = [q \in Requests |-> Shown'[q]]
        /\ Shown[r] = {}
    BY <2>3 DEF Shown, Requests
  <2>5. CASE answer'[r] # "ok"
    <3>1. Shown'[r] = {}
      BY <2>5 DEF Shown, Requests
    <3>2. Shown' = Shown
      BY <2>2, <2>4, <3>1
    <3> QED
      BY <1>2, <3>2
  <2>6. CASE answer'[r] = "ok"
    <3>1. Latest' = Latest
      BY <2>3, <2>6 DEF Latest
    <3>2. \A v \in Shown'[r] :
            v \in reads!Version /\ v.version \in Oldest[v.product] .. Latest[v.product]
      BY <1>5, <2>6, ShowsOldest
    <3>3. Shown' = [Shown EXCEPT ![r] = Shown'[r]]
      BY <2>2, <2>4
    <3>4. reads!Show(r, Shown'[r])
      BY <2>4, <3>1, <3>2, <3>3 DEF reads!Show
    <3> QED
      BY <1>1, <3>2, <3>4 DEF reads!Next
  <2> QED
    BY <2>5, <2>6
<1> QED
  BY <1>4, <1>5 DEF Next

\* Whatever fails, dies or comes late, the cache, its readers and its writers
\* implement ProductReads: only committed versions are shown, and none that
\* has died out.
THEOREM Implementation == Spec => ImplementsProductReads
<1>1. Init => reads!Init
  <2> SUFFICES ASSUME Init PROVE reads!Init
    OBVIOUS
  <2>1. IInv
    BY InitInv
  <2>2. OldestFits
    BY <2>1, OldestIs
  <2>3. Copies = {}
    <3>1. Present(Keys) = {} /\ \A r \in Requests : phase[r] \notin {"fill", "count"}
      BY DEF Init, Present
    <3> QED
      BY <3>1 DEF Copies
  <2>4. Latest \in [Products -> Nat] /\ Oldest = Latest
    <3>1. \A p \in Products : Oldest[p] = Latest[p] /\ Latest[p] \in Nat
      BY <2>2, <2>3 DEF OldestFits
    <3>2. Latest = [p \in Products |-> Latest[p]] /\ Oldest = [p \in Products |-> Oldest[p]]
      BY DEF Latest, Oldest
    <3> QED
      BY <3>1, <3>2
  <2>5. Shown = [r \in Requests |-> {}]
    BY DEF Init, Shown
  <2> QED
    BY <2>4, <2>5 DEF reads!Init
<1>2. IInv /\ [Next]_vars => [reads!Next]_reads!vars
  BY ReadsStep
<1> QED
  BY <1>1, <1>2, Invariance, PTL DEF Spec, ImplementsProductReads, reads!Spec
=============================================================================
