---------------------------- MODULE Checkout_proofs ----------------------------
(***************************************************************************)
(* Theorems about Checkout, for any prices, carts, deals, width of the     *)
(* integers and size of a page, and any number of orders: one price per    *)
(* order, nothing shown half written, nothing missed by a walk.            *)
(***************************************************************************)
EXTENDS Checkout, Sums_proofs, SequenceTheorems

-----------------------------------------------------------------------------
(***************************************************************************)
(* The inductive invariant, by parts.                                      *)
(***************************************************************************)
\* Every item has its price.
Priced(o) == Len(units[o]) = Len(cart[o])

\* How far a request is, and what it has left behind.
Staged(o) ==
  /\ Len(units[o]) <= Len(cart[o])
  /\ phase[o] = "new" => units[o] = <<>>
  /\ phase[o] = "pricing" => ~Priced(o)
  /\ phase[o] \in {"deduct", "begin", "write", "push", "placed"} => Priced(o)
  /\ phase[o] \notin {"placed", "refused"} =>
       answer[o] = None /\ row[o] = None /\ job # o /\ o \notin Range(queue)
  /\ phase[o] \in {"new", "pricing", "deduct", "begin", "push"} => o \notin Range(created)
  /\ phase[o] = "write" => o \in Range(created)

\* An order is pushed, in the worker's hands or written, and priced by then.
InOnePlace(o) ==
  /\ o \in Range(queue) => job # o /\ o \notin Range(created) /\ Priced(o)
  /\ job = o => row[o] = None /\ o \in Range(created) /\ Priced(o)
  /\ row[o] # None => o \in Range(created) /\ Priced(o)

\* What is written and what is answered are the request's own amounts.
OneAmount(o) ==
  /\ row[o] # None => items[o] = Subtotals(o) /\ row[o].total = SumOf(items[o])
  /\ answer[o] # None => answer[o] = Amounts(o)

\* The CHECKs hold of the deals created.
DealsValid == \A d \in deals : Valid(d)

AsksOrders == ask \in [what: {"orders"}, status: Statuses \cup {None}]
AsksDeals == ask \in [what: {"deals"}, limit: Nat, skip: Nat]

\* What the user reads, in which order.
Reader ==
  /\ reading = "idle" => ask = None /\ shown = {} /\ rows = <<>>
  /\ reading \in {"count", "page"} => AsksOrders /\ rows = <<>>
  /\ reading = "items" => AsksOrders
  /\ reading = "last" => AsksOrders \/ ask \in [what: {"order"}, order: Orders]
  /\ reading = "walked" => ask \in Asks /\ rows = <<>>
  /\ reading \in {"deals", "listed"} => AsksDeals
  /\ AsksOrders => page >= 1
  /\ \A i \in DOMAIN rows : row[rows[i]] # None
  /\ \A s \in shown : row[s.order] # None

\* The orders the walk has come by.
Passed == Range(rows) \cup {s.order : s \in shown}

\* Who is still to be shown is not on the pages fetched.
Walk ==
  AsksOrders /\ ask.status \in Lasting =>
    /\ before \subseteq OrdersOf(ask.status)
    /\ reading \in {"count", "page"} =>
         \A o \in before : o \in Passed \/ (page - 1) * PageSize <= Rank(o, ask.status)
    /\ reading = "items" =>
         \A o \in before : o \in Passed \/ page * PageSize <= Rank(o, ask.status)
    /\ reading \in {"last", "walked"} => before \subseteq Passed
    /\ reading = "page" => total <= Cardinality(OrdersOf(ask.status))

\* The page of deals is one of the deals active at one time.
DealsPage ==
  reading \in {"deals", "listed"} =>
    listed = {} \/ ask.skip + Cardinality(listed) <= Cardinality(Active(at))

IInv ==
  /\ TypeOK
  /\ \A o \in Orders : Staged(o) /\ InOnePlace(o) /\ OneAmount(o)
  /\ IsInjective(queue)
  /\ DealsValid
  /\ Reader
  /\ ShownWhole
  /\ Walk
  /\ DealsPage
  /\ ActiveTotalCoversPage

-----------------------------------------------------------------------------
(* Amounts *)

\* Whatever is summed up or multiplied, the result is an int32.
LEMMA Int32Type == ASSUME NEW x \in Int PROVE Int32(x) \in Amount
BY NumberAssumption DEF Int32, Amount

\* A sum of int32s, taken one by one, is one.
LEMMA SumOfType == ASSUME NEW s \in Seq(Int) PROVE SumOf(s) \in Amount
<1> DEFINE Next1(g, n) == IF n = 0 THEN 0 ELSE Int32(g[n - 1] + s[n])
           IsSum(g, m) == g = [n \in 0 .. m |-> Next1(g, n)]
<1>0. Amount \subseteq Int /\ 0 \in Amount
  BY NumberAssumption DEF Amount
<1>1. \A i \in 1 .. Len(s) : s[i] \in Int
  OBVIOUS
<1>2. Len(s) \in Nat
  OBVIOUS
<1>3. ASSUME NEW m \in 0 .. Len(s), NEW g, IsSum(g, m) PROVE g \in [0 .. m -> Amount]
  <2> DEFINE Bad == {n \in 0 .. m : g[n] \notin Amount}
  <2>1. SUFFICES Bad = {}
    BY <1>3
  <2>2. SUFFICES ASSUME Bad # {} PROVE FALSE
    OBVIOUS
  <2>3. PICK n \in Bad : \A k \in Bad : n <= k
    <3>1. Bad \in SUBSET Nat
      OBVIOUS
    <3> HIDE DEF Bad
    <3> QED
      BY <2>2, <3>1, Least
  <2>4. g[n] = Next1(g, n)
    BY <1>3, <2>3
  <2>5. n # 0
    BY <1>0, <2>3, <2>4
  <2>6. n - 1 \in 0 .. m /\ n - 1 \notin Bad /\ n \in 1 .. Len(s)
    BY <1>2, <2>3, <2>5
  <2>7. g[n - 1] \in Int
    BY <1>0, <2>6
  <2>8. g[n - 1] + s[n] \in Int
    BY <1>1, <2>6, <2>7
  <2>9. g[n] \in Amount
    BY <2>4, <2>5, <2>8, Int32Type
  <2> QED
    BY <2>3, <2>9
<1>4. \E g : IsSum(g, Len(s))
  <2> DEFINE Bad == {n \in 0 .. Len(s) : ~ \E g : IsSum(g, n)}
  <2>1. SUFFICES ASSUME Bad # {} PROVE FALSE
    BY <1>2
  <2>2. PICK m \in Bad : \A k \in Bad : m <= k
    <3>1. Bad \in SUBSET Nat
      OBVIOUS
    <3> HIDE DEF Bad
    <3> QED
      BY <2>1, <3>1, Least
  <2>3. m # 0
    <3>1. IsSum([n \in 0 .. 0 |-> 0], 0)
      OBVIOUS
    <3> QED
      BY <2>2, <3>1
  <2>4. m - 1 \in 0 .. Len(s) /\ m - 1 \notin Bad /\ m \in Nat
    <3>1. Bad \subseteq 0 .. Len(s)
      OBVIOUS
    <3> HIDE DEF Bad
    <3> QED
      BY <1>2, <2>2, <2>3, <3>1
  <2>5. PICK g : IsSum(g, m - 1)
    BY <2>4
  <2> DEFINE h == [n \in 0 .. m |-> IF n = m THEN Next1(g, m) ELSE g[n]]
  <2>6. \A n \in 0 .. m : h[n] = Next1(h, n)
    <3> SUFFICES ASSUME NEW n \in 0 .. m PROVE h[n] = Next1(h, n)
      OBVIOUS
    <3>1. CASE n = 0
      BY <2>3, <2>5, <3>1
    <3>2. CASE n # 0
      <4>1. n - 1 \in 0 .. m /\ n - 1 # m
        BY <2>4, <3>2
      <4>2. h[n - 1] = g[n - 1]
        BY <4>1
      <4>3. h[n] = Next1(g, n)
        BY <2>4, <2>5
      <4> QED
        BY <3>2, <4>2, <4>3
    <3> QED
      BY <3>1, <3>2
  <2>7. IsSum(h, m)
    <3>1. h = [n \in 0 .. m |-> h[n]]
      OBVIOUS
    <3> HIDE DEF h
    <3> QED
      BY <2>6, <3>1
  <2> QED
    BY <2>2, <2>7
<1> DEFINE sum == CHOOSE g : IsSum(g, Len(s))
<1>5. SumOf(s) = sum[Len(s)]
  BY DEF SumOf
<1>6. IsSum(sum, Len(s))
  BY <1>4
<1>7. Len(s) \in 0 .. Len(s)
  BY <1>2
<1> HIDE DEF sum, IsSum
<1>8. sum \in [0 .. Len(s) -> Amount]
  BY <1>3, <1>6, <1>7
<1> QED
  BY <1>5, <1>7, <1>8

-----------------------------------------------------------------------------
(***************************************************************************)
(* The order of a list.                                                    *)
(***************************************************************************)
\* Every order of a list has its place among the created.
Dated(c) == OrdersOf(c) \subseteq Range(created)

\* Two orders on a list are one before the other, and never each before the other.
LEMMA NewerOrders ==
  ASSUME created \in Seq(Orders), IsInjective(created), NEW c, Dated(c)
  PROVE  /\ \A p, q, r \in OrdersOf(c) : Ahead(p, q) /\ Ahead(q, r) => Ahead(p, r)
         /\ \A p \in OrdersOf(c) : ~Ahead(p, p)
         /\ \A p, q \in OrdersOf(c) : p # q => Ahead(p, q) \/ Ahead(q, p)
<1>1. DOMAIN created = 1 .. Len(created) /\ Len(created) \in Nat
  OBVIOUS
<1>2. \A i, j \in DOMAIN created : created[i] = created[j] => i = j
  BY DEF IsInjective
<1>3. \A p \in OrdersOf(c) : \E i \in DOMAIN created : created[i] = p
  BY DEF Dated, Range
<1>4. ASSUME NEW p \in OrdersOf(c), NEW q \in OrdersOf(c), NEW r \in OrdersOf(c), Ahead(p, q), Ahead(q, r)
      PROVE  Ahead(p, r)
  <2>1. PICK i, j \in DOMAIN created : j < i /\ created[i] = p /\ created[j] = q
    BY <1>4 DEF Ahead, Newer
  <2>2. PICK k, l \in DOMAIN created : l < k /\ created[k] = q /\ created[l] = r
    BY <1>4 DEF Ahead, Newer
  <2>3. k = j
    BY <1>2, <2>1, <2>2
  <2>4. l < i
    BY <1>1, <2>1, <2>2, <2>3
  <2> QED
    BY <2>1, <2>2, <2>4 DEF Ahead, Newer
<1>5. ASSUME NEW p \in OrdersOf(c) PROVE ~Ahead(p, p)
  <2>1. ASSUME NEW i \in DOMAIN created, NEW j \in DOMAIN created, j < i, created[i] = created[j] PROVE FALSE
    BY <1>1, <1>2, <2>1
  <2> QED
    BY <2>1 DEF Ahead, Newer
<1>6. ASSUME NEW p \in OrdersOf(c), NEW q \in OrdersOf(c), p # q PROVE Ahead(p, q) \/ Ahead(q, p)
  <2>1. PICK i \in DOMAIN created : created[i] = p
    BY <1>3
  <2>2. PICK j \in DOMAIN created : created[j] = q
    BY <1>3
  <2>3. i < j \/ j < i
    BY <1>1, <1>6, <2>1, <2>2
  <2> QED
    BY <2>1, <2>2, <2>3 DEF Ahead, Newer
<1> QED
  BY <1>4, <1>5, <1>6

\* The orders of a list are finitely many.
LEMMA OrdersFinite == IsFiniteSet(Orders)
BY NumberAssumption, FS_Interval DEF Orders

LEMMA ListFinite == \A c : IsFiniteSet(OrdersOf(c)) /\ Cardinality(OrdersOf(c)) \in Nat
<1>1. IsFiniteSet(Orders)
  BY OrdersFinite
<1>2. \A c : OrdersOf(c) \in SUBSET Orders
  BY DEF OrdersOf
<1> QED
  BY <1>1, <1>2, FS_Subset, FS_CardinalityType

\* Ranks count the orders of a list from 0, and every rank is that of one order.
LEMMA RankFacts ==
  ASSUME created \in Seq(Orders), IsInjective(created), NEW c, Dated(c)
  PROVE  /\ \A o \in OrdersOf(c) : Rank(o, c) \in 0 .. Cardinality(OrdersOf(c)) - 1
         /\ \A o, q \in OrdersOf(c) : Rank(o, c) = Rank(q, c) => o = q
         /\ \A k \in 0 .. Cardinality(OrdersOf(c)) - 1 : \E o \in OrdersOf(c) : Rank(o, c) = k
<1> DEFINE S == OrdersOf(c)
           n == Cardinality(S)
           A(o) == {q \in S : Ahead(q, o)}
           R(o) == Cardinality(A(o))
<1>0. /\ \A p, q, r \in S : Ahead(p, q) /\ Ahead(q, r) => Ahead(p, r)
      /\ \A p \in S : ~Ahead(p, p)
      /\ \A p, q \in S : p # q => Ahead(p, q) \/ Ahead(q, p)
  BY NewerOrders
<1>1. IsFiniteSet(S) /\ n \in Nat
  BY ListFinite
<1>2. \A o : Rank(o, c) = R(o)
  BY DEF Rank
<1> HIDE DEF S
<1>3. \A o : A(o) \in SUBSET S
  OBVIOUS
<1>4. \A o : IsFiniteSet(A(o)) /\ R(o) \in Nat
  <2> HIDE DEF A
  <2> QED
    BY <1>1, <1>3, FS_Subset, FS_CardinalityType
<1>5. ASSUME NEW B \in SUBSET S, NEW C \in SUBSET B, B # C PROVE Cardinality(C) < Cardinality(B)
  <2>1. IsFiniteSet(B)
    BY <1>1, FS_Subset
  <2>2. IsFiniteSet(C) /\ Cardinality(C) <= Cardinality(B) /\ Cardinality(C) # Cardinality(B)
    BY <1>5, <2>1, FS_Subset
  <2>3. Cardinality(B) \in Nat /\ Cardinality(C) \in Nat
    BY <2>1, <2>2, FS_CardinalityType
  <2> QED
    BY <2>2, <2>3
<1>6. \A o \in S : R(o) < n
  <2> SUFFICES ASSUME NEW o \in S PROVE R(o) < n
    OBVIOUS
  <2>1. o \notin A(o) /\ A(o) \in SUBSET S
    BY <1>0
  <2> HIDE DEF A
  <2> QED
    BY <1>5, <2>1
<1>7. \A o, q \in S : Ahead(q, o) => R(q) < R(o)
  <2> SUFFICES ASSUME NEW o \in S, NEW q \in S, Ahead(q, o) PROVE R(q) < R(o)
    OBVIOUS
  <2>1. A(q) \in SUBSET A(o) /\ q \in A(o) /\ q \notin A(q)
    BY <1>0
  <2> HIDE DEF A
  <2> QED
    BY <1>3, <1>5, <2>1
<1>8. \A o, q \in S : R(o) = R(q) => o = q
  <2> SUFFICES ASSUME NEW o \in S, NEW q \in S, R(o) = R(q), o # q PROVE FALSE
    OBVIOUS
  <2>1. R(o) < R(q) \/ R(q) < R(o)
    BY <1>0, <1>7
  <2>2. R(o) \in Nat /\ R(q) \in Nat
    BY <1>4
  <2> HIDE DEF R
  <2> QED
    BY <2>1, <2>2
<1>9. \A o \in S : R(o) \in 0 .. n - 1
  <2>1. \A o : R(o) \in Nat
    BY <1>4
  <2> HIDE DEF R, n
  <2> QED
    BY <1>1, <1>6, <2>1
<1>10. ASSUME NEW k \in 0 .. n - 1 PROVE \E o \in S : R(o) = k
  <2> DEFINE T == 0 .. n - 1
             f == [o \in S |-> R(o)]
  <2>1. f \in Injection(S, T)
    <3> HIDE DEF R, T
    <3> QED
      BY <1>8, <1>9 DEF Injection, IsInjective, T
  <2>2. IsFiniteSet(T) /\ Cardinality(T) = n
    <3>1. 0 \in Int /\ n - 1 \in Int
      BY <1>1
    <3> HIDE DEF n
    <3> QED
      BY <1>1, <3>1, FS_Interval
  <2> HIDE DEF f
  <2>3. f \in Surjection(S, T)
    BY <2>1, <2>2, FS_Injection
  <2> USE DEF f
  <2>4. \E o \in S : f[o] = k
    <3> HIDE DEF f
    <3> QED
      BY <1>10, <2>3 DEF Surjection
  <2> HIDE DEF R
  <2> QED
    BY <2>4
<1> QED
  BY <1>2, <1>8, <1>9, <1>10 DEF S

LEMMA MinOfTwo ==
  ASSUME NEW a \in Int, NEW b \in Int
  PROVE  Min({a, b}) = IF a <= b THEN a ELSE b
BY DEF Min

\* A page starts at the first rank that the pages before it leave.
LEMMA OffsetType ==
  ASSUME page \in Nat, page >= 1
  PROVE  Offset \in Nat /\ Offset + PageSize = page * PageSize
<1>1. PageSize \in Nat /\ page - 1 \in Nat
  BY NumberAssumption
<1>2. \A a, b \in Nat : a * b \in Nat
  OBVIOUS
<1>3. Offset \in Nat
  BY <1>1, <1>2 DEF Offset
<1>4. \A a, b \in Int : (a - 1) * b + b = a * b
  OBVIOUS
<1> QED
  BY <1>1, <1>3, <1>4 DEF Offset

\* A page holds the orders of its ranks, and is full unless the list ends on it.
LEMMA ListFacts ==
  ASSUME created \in Seq(Orders), IsInjective(created), page \in Nat, page >= 1,
         NEW c, Dated(c)
  PROVE  LET L == ListOrders(c) IN
           /\ L \in Seq(OrdersOf(c)) /\ Len(L) \in Nat /\ Len(L) <= PageSize
           /\ Len(L) = PageSize \/ Len(L) >= Cardinality(OrdersOf(c)) - Offset
           /\ \A o \in OrdersOf(c) : Offset <= Rank(o, c) /\ Rank(o, c) < Offset + PageSize => o \in Range(L)
<1> DEFINE L == ListOrders(c)
           S == OrdersOf(c)
           n == Cardinality(S)
           m == IF PageSize <= n - Offset THEN PageSize ELSE n - Offset
           len == IF m < 0 THEN 0 ELSE m
           At(i) == CHOOSE o \in S : Rank(o, c) = Offset + i - 1
<1>1. n \in Nat /\ Offset \in Nat /\ PageSize \in Nat
  BY ListFinite, OffsetType, NumberAssumption
<1>2. L = [i \in 1 .. m |-> At(i)]
  <2>1. Min({PageSize, n - Offset}) = m
    <3>1. PageSize \in Int /\ n - Offset \in Int
      BY <1>1
    <3> HIDE DEF n
    <3> QED
      BY <3>1, MinOfTwo
  <2>2. L = [i \in 1 .. Min({PageSize, n - Offset}) |-> At(i)]
    BY DEF ListOrders
  <2> HIDE DEF n, m, At, L
  <2> QED
    BY <2>1, <2>2
<1>3. /\ \A o \in S : Rank(o, c) \in 0 .. n - 1
      /\ \A o, q \in S : Rank(o, c) = Rank(q, c) => o = q
      /\ \A k \in 0 .. n - 1 : \E o \in S : Rank(o, c) = k
  BY RankFacts
<1> HIDE DEF S, n
<1>4. m \in Int /\ len \in Nat /\ 1 .. m = 1 .. len
  BY <1>1
<1>5. \A i \in 1 .. m : Offset + i - 1 \in 0 .. n - 1
  BY <1>1
<1> HIDE DEF m, len
<1>6. \A i \in 1 .. m : At(i) \in S /\ Rank(At(i), c) = Offset + i - 1
  BY <1>3, <1>5
<1>7. L = [i \in 1 .. len |-> At(i)]
  BY <1>2, <1>4
<1> HIDE DEF At, L
<1>8. L \in Seq(S) /\ Len(L) = len
  BY <1>4, <1>6, <1>7
<1>9. len <= PageSize /\ (len = PageSize \/ len >= n - Offset)
  BY <1>1 DEF len, m
<1>10. ASSUME NEW o \in S, Offset <= Rank(o, c), Rank(o, c) < Offset + PageSize PROVE o \in Range(L)
  <2> DEFINE r == Rank(o, c)
             i == r - Offset + 1
  <2>1. r \in 0 .. n - 1
    BY <1>3
  <2>2. Offset <= r /\ r < Offset + PageSize
    BY <1>10
  <2> HIDE DEF r
  <2>3. i \in 1 .. m /\ Offset + i - 1 = r
    BY <1>1, <2>1, <2>2 DEF m
  <2> HIDE DEF i
  <2>4. At(i) = o
    BY <1>3, <1>6, <2>3 DEF r
  <2>5. i \in DOMAIN L /\ L[i] = o
    BY <1>2, <2>3, <2>4
  <2> QED
    BY <2>5 DEF Range
<1> QED
  BY <1>4, <1>8, <1>9, <1>10 DEF L, S, n

-----------------------------------------------------------------------------
(***************************************************************************)
(* The types, by the variables of the orders and of the reader.            *)
(***************************************************************************)
OrderTypes ==
  /\ async \in BOOLEAN
  /\ phase \in [Orders -> Phases]
  /\ cart \in [Orders -> Carts \cup {<<>>}]
  /\ units \in [Orders -> Seq(0 .. MaxInt)]
  /\ answer \in [Orders -> Answer \cup {None}]
  /\ queue \in Seq(Orders)
  /\ job \in Orders \cup {None}
  /\ created \in Seq(Orders) /\ IsInjective(created)
  /\ row \in [Orders -> Row \cup {None}]
  /\ items \in [Orders -> Seq(0 .. MaxInt)]

ReadTypes ==
  /\ reading \in {"idle", "count", "page", "items", "last", "deals", "walked", "listed", "done"}
  /\ ask \in Asks \cup {None}
  /\ page \in Nat /\ total \in Nat
  /\ rows \in Seq(Orders)
  /\ at \in 0 .. MaxTime /\ listed \subseteq deals
  /\ shown \subseteq [order: Orders, items: Seq(0 .. MaxInt)]
  /\ before \subseteq Orders

\* What holds of the orders and what of the reader.
OrdersInv ==
  /\ OrderTypes
  /\ \A o \in Orders : Staged(o) /\ InOnePlace(o) /\ OneAmount(o)
  /\ IsInjective(queue)

ReadInv ==
  /\ ReadTypes
  /\ Reader
  /\ ShownWhole
  /\ Walk
  /\ DealsPage
  /\ ActiveTotalCoversPage

LEMMA InvParts == IInv <=> DealsTypeOK /\ DealsValid /\ OrdersInv /\ ReadInv
<1>1. TypeOK <=> DealsTypeOK /\ OrderTypes /\ ReadTypes
  BY DEF TypeOK, OrderTypes, ReadTypes
<1> QED
  BY <1>1 DEF IInv, OrdersInv, ReadInv

\* A sequence is one of whatever its elements are.
LEMMA SeqNarrows ==
  ASSUME NEW S, NEW T, NEW s \in Seq(S), \A i \in 1 .. Len(s) : s[i] \in T
  PROVE  s \in Seq(T)
<1>1. SubSeq(s, 1, Len(s)) = s
  BY SubSeqFull
<1>2. 1 \in Int /\ Len(s) \in Int
  OBVIOUS
<1>3. SubSeq(s, 1, Len(s)) \in Seq(T)
  BY <1>2, SubSeqProperties
<1> QED
  BY <1>1, <1>3

\* What a request priced so far: an int32 for every item.
LEMMA SubtotalsType ==
  ASSUME OrderTypes, NEW o \in Orders, Len(units[o]) <= Len(cart[o])
  PROVE  /\ Subtotals(o) \in Seq(Amount) /\ Len(Subtotals(o)) = Len(units[o])
         /\ TotalAmount(o) \in Amount /\ Amounts(o) \in Answer
<1>1. units[o] \in Seq(0 .. MaxInt) /\ cart[o] \in Seq(Item)
  BY CartAssumption DEF OrderTypes
<1>2. DOMAIN units[o] = 1 .. Len(units[o]) /\ Len(units[o]) \in Nat /\ Len(cart[o]) \in Nat
  BY <1>1
<1>3. \A i \in 1 .. Len(units[o]) : Int32(units[o][i] * cart[o][i].quantity) \in Amount
  <2> SUFFICES ASSUME NEW i \in 1 .. Len(units[o])
               PROVE  Int32(units[o][i] * cart[o][i].quantity) \in Amount
    OBVIOUS
  <2>1. units[o][i] \in Int
    BY <1>1, NumberAssumption
  <2>2. cart[o][i].quantity \in Int
    <3>1. i \in 1 .. Len(cart[o])
      BY <1>2
    <3>2. cart[o][i] \in Item
      BY <1>1, <3>1
    <3> QED
      BY <3>2 DEF Item
  <2>3. units[o][i] * cart[o][i].quantity \in Int
    BY <2>1, <2>2
  <2> QED
    BY <2>3, Int32Type
<1>4. Subtotals(o) \in Seq(Amount) /\ Len(Subtotals(o)) = Len(units[o])
  BY <1>2, <1>3 DEF Subtotals
<1>5. Amount \subseteq Int
  BY NumberAssumption DEF Amount
<1>6. Subtotals(o) \in Seq(Int)
  BY <1>4, <1>5, SeqMonotonic
<1>7. TotalAmount(o) \in Amount
  BY <1>6, SumOfType DEF TotalAmount
<1> QED
  BY <1>4, <1>7 DEF Amounts, Answer

\* What the CHECKs let through is not negative.
LEMMA AcceptedType ==
  ASSUME OrderTypes, NEW o \in Orders, Len(units[o]) <= Len(cart[o]),
         NEW sum \in Amount, Accepted(o, sum)
  PROVE  sum \in 0 .. MaxInt /\ Subtotals(o) \in Seq(0 .. MaxInt)
<1>1. Subtotals(o) \in Seq(Amount) /\ Len(Subtotals(o)) = Len(units[o])
  BY SubtotalsType
<1>2. units[o] \in Seq(0 .. MaxInt)
  BY DEF OrderTypes
<1>3. \A a \in Amount : a >= 0 => a \in 0 .. MaxInt
  BY NumberAssumption DEF Amount
<1>4. \A i \in 1 .. Len(Subtotals(o)) : Subtotals(o)[i] \in 0 .. MaxInt
  BY <1>1, <1>2, <1>3 DEF Accepted, ItemsAccepted
<1>5. sum \in 0 .. MaxInt
  BY <1>3 DEF Accepted, ItemsAccepted
<1>6. Subtotals(o) \in Seq(0 .. MaxInt)
  BY <1>1, <1>4, SeqNarrows
<1> QED
  BY <1>5, <1>6

\* The next item is one of the cart, and its price an int32 that is not negative.
LEMMA NextItemType ==
  ASSUME OrderTypes, DealsTypeOK, DealsValid, NEW o \in Orders, Len(units[o]) < Len(cart[o])
  PROVE  NextItem(o) \in Item /\ Quotes(NextItem(o)) \subseteq 0 .. MaxInt
<1>1. units[o] \in Seq(0 .. MaxInt) /\ cart[o] \in Seq(Item)
  BY CartAssumption DEF OrderTypes
<1>2. Len(units[o]) + 1 \in 1 .. Len(cart[o])
  BY <1>1
<1>3. NextItem(o) \in Item
  BY <1>1, <1>2 DEF NextItem
<1> DEFINE item == NextItem(o)
<1>4. CASE item.deal = None
  <2>1. item.product \in Products
    BY <1>3 DEF Item
  <2> QED
    BY <1>3, <1>4, <2>1, PriceAssumption DEF Quotes
<1>5. CASE item.deal # None /\ DealHolds(item)
  <2>1. item.deal \in deals /\ deals \subseteq Offers
    BY <1>5 DEF DealHolds, DealsTypeOK
  <2>2. item.deal.price \in Int /\ item.deal.price <= MaxInt /\ item.deal.price >= 0
    BY <2>1, OfferAssumption, DealPriceAssumption DEF Deal, DealsValid, Valid
  <2>3. Quotes(item) = {item.deal.price}
    BY <1>5 DEF Quotes, GetDeal
  <2> QED
    BY <1>3, <2>2, <2>3, NumberAssumption
<1>6. CASE item.deal # None /\ ~DealHolds(item)
  BY <1>3, <1>6 DEF Quotes
<1> QED
  BY <1>4, <1>5, <1>6

-----------------------------------------------------------------------------
(***************************************************************************)
(* The orders.                                                             *)
(***************************************************************************)
LEMMA AppendFacts ==
  ASSUME NEW S, NEW s \in Seq(S), NEW x \in S
  PROVE  /\ Append(s, x) \in Seq(S) /\ Range(Append(s, x)) = Range(s) \cup {x}
         /\ IsInjective(s) /\ x \notin Range(s) => IsInjective(Append(s, x))
<1> DEFINE t == Append(s, x)
           n == Len(s)
<1>1. /\ n \in Nat /\ DOMAIN s = 1 .. n /\ t \in Seq(S) /\ DOMAIN t = 1 .. n + 1
      /\ \A i \in 1 .. n : t[i] = s[i]
      /\ t[n + 1] = x
  OBVIOUS
<1> HIDE DEF t, n
<1>2. 1 .. n + 1 = (1 .. n) \cup {n + 1} /\ n + 1 \notin 1 .. n
  BY <1>1
<1>3. Range(t) = Range(s) \cup {x}
  BY <1>1, <1>2 DEF Range
<1>4. ASSUME IsInjective(s), x \notin Range(s) PROVE IsInjective(t)
  BY <1>1, <1>2, <1>4 DEF IsInjective, Range
<1> QED
  BY <1>1, <1>3, <1>4 DEF t

LEMMA TailFacts ==
  ASSUME NEW S, NEW s \in Seq(S), s # <<>>
  PROVE  /\ Head(s) \in S /\ Tail(s) \in Seq(S) /\ Range(s) = Range(Tail(s)) \cup {Head(s)}
         /\ IsInjective(s) => IsInjective(Tail(s)) /\ Head(s) \notin Range(Tail(s))
<1> DEFINE t == Tail(s)
           n == Len(t)
<1>1. /\ n \in Nat /\ DOMAIN t = 1 .. n /\ t \in Seq(S) /\ DOMAIN s = 1 .. n + 1
      /\ \A i \in 1 .. n : t[i] = s[i + 1]
      /\ Head(s) = s[1] /\ Head(s) \in S
  OBVIOUS
<1> HIDE DEF t, n
<1>2. \A j \in 1 .. n + 1 : j = 1 \/ (j - 1 \in 1 .. n /\ (j - 1) + 1 = j)
  BY <1>1
<1>3. \A i \in 1 .. n : i + 1 \in 1 .. n + 1 /\ i + 1 # 1
  BY <1>1
<1>4. 1 \in 1 .. n + 1
  BY <1>1
<1>5. Range(s) = Range(t) \cup {Head(s)}
  <2>1. ASSUME NEW j \in DOMAIN s PROVE s[j] \in Range(t) \cup {Head(s)}
    <3>1. CASE j = 1
      BY <1>1, <3>1
    <3>2. CASE j # 1
      <4>1. j - 1 \in DOMAIN t /\ (j - 1) + 1 = j
        BY <1>1, <1>2, <2>1, <3>2
      <4>2. t[j - 1] = s[j]
        BY <1>1, <4>1
      <4> QED
        BY <4>1, <4>2 DEF Range
    <3> QED
      BY <3>1, <3>2
  <2>2. \A i \in DOMAIN t : t[i] \in Range(s)
    BY <1>1, <1>3 DEF Range
  <2>3. Head(s) \in Range(s)
    BY <1>1, <1>4 DEF Range
  <2> QED
    BY <2>1, <2>2, <2>3 DEF Range
<1>6. ASSUME IsInjective(s) PROVE IsInjective(t) /\ Head(s) \notin Range(t)
  <2>1. ASSUME NEW i \in DOMAIN t, NEW j \in DOMAIN t, t[i] = t[j] PROVE i = j
    <3>1. s[i + 1] = s[j + 1] /\ i + 1 \in DOMAIN s /\ j + 1 \in DOMAIN s
      BY <1>1, <1>3, <2>1
    <3>2. i + 1 = j + 1
      BY <1>6, <3>1 DEF IsInjective
    <3> QED
      BY <1>1, <3>2
  <2>2. ASSUME NEW i \in DOMAIN t PROVE t[i] # Head(s)
    BY <1>1, <1>3, <1>4, <1>6 DEF IsInjective
  <2> QED
    BY <2>1, <2>2 DEF IsInjective, Range
<1> QED
  BY <1>1, <1>5, <1>6 DEF t

LEMMA SameAmounts ==
  ASSUME NEW o, units'[o] = units[o], cart'[o] = cart[o]
  PROVE  Subtotals(o)' = Subtotals(o) /\ TotalAmount(o)' = TotalAmount(o) /\ Amounts(o)' = Amounts(o)
BY DEF Subtotals, TotalAmount, Amounts

LEMMA OrdersInit == Init => OrdersInv
<1> SUFFICES ASSUME Init PROVE OrdersInv
  OBVIOUS
<1>1. OrderTypes
  BY DEF Init, OrderTypes, Phases, IsInjective
<1>2. Range(queue) = {} /\ Range(created) = {} /\ IsInjective(queue)
  BY DEF Init, Range, IsInjective
<1>3. \A o \in Orders : job # o /\ answer[o] = None /\ row[o] = None /\ units[o] = <<>> /\ cart[o] = <<>> /\ phase[o] = "new"
  BY NoneAssumption DEF Init
<1>4. \A o \in Orders : Staged(o) /\ InOnePlace(o) /\ OneAmount(o)
  BY <1>2, <1>3 DEF Staged, InOnePlace, OneAmount
<1> QED
  BY <1>1, <1>2, <1>4 DEF OrdersInv

\* What is read and what time does leave the orders alone.
LEMMA ReadTimeFrame == Read \/ Time \/ UNCHANGED vars => UNCHANGED orderVars
BY DEF Read, Time, vars, GetOrder, StartWalk, Count, Fetch, FetchItems, NextPage, ListDeals, CountDeals

\* Every step keeps the types of the orders' variables.
LEMMA OrderTypesNext ==
  ASSUME OrdersInv, DealsTypeOK, DealsValid, [Next]_vars
  PROVE  OrderTypes'
<1> USE DEF OrdersInv, Go
<1>1. ASSUME NEW o \in Orders, NEW c \in Carts, Begin(o, c) PROVE OrderTypes'
  BY <1>1 DEF Begin, OrderTypes, Phases
<1>2. ASSUME NEW o \in Orders, Price(o) PROVE OrderTypes'
  <2>1. Len(units[o]) < Len(cart[o])
    <3>1. Len(units[o]) <= Len(cart[o]) /\ Len(units[o]) # Len(cart[o])
      BY <1>2 DEF Price, Staged, Priced
    <3>2. Len(units[o]) \in Nat /\ Len(cart[o]) \in Nat
      BY CartAssumption DEF OrderTypes
    <3> QED
      BY <3>1, <3>2
  <2>2. PICK price \in Quotes(NextItem(o)) : units' = [units EXCEPT ![o] = Append(@, price)]
    BY <1>2 DEF Price
  <2>3. price \in 0 .. MaxInt
    BY <2>1, <2>2, NextItemType
  <2>4. Append(units[o], price) \in Seq(0 .. MaxInt)
    <3>1. units[o] \in Seq(0 .. MaxInt)
      BY DEF OrderTypes
    <3> QED
      BY <2>3, <3>1, AppendProperties
  <2>5. units' \in [Orders -> Seq(0 .. MaxInt)]
    BY <2>2, <2>4 DEF OrderTypes
  <2>6. phase' \in [Orders -> Phases]
    BY <1>2 DEF Price, OrderTypes, Phases
  <2> QED
    BY <1>2, <2>5, <2>6 DEF Price, OrderTypes
<1>3. ASSUME NEW o \in Orders, Refuse(o) PROVE OrderTypes'
  BY <1>3 DEF Refuse, OrderTypes, Phases
<1>4. ASSUME NEW o \in Orders, Deduct(o) PROVE OrderTypes'
  BY <1>4 DEF Deduct, OrderTypes, Phases
<1>5. ASSUME NEW o \in Orders, BeginOrder(o) PROVE OrderTypes'
  <2>1. o \notin Range(created)
    BY <1>5 DEF BeginOrder, Staged
  <2>2. created' \in Seq(Orders) /\ IsInjective(created')
    BY <1>5, <2>1, AppendFacts DEF BeginOrder, OrderTypes
  <2> QED
    BY <1>5, <2>2 DEF BeginOrder, OrderTypes, Phases
<1>6. ASSUME NEW o \in Orders, WriteOrder(o) PROVE OrderTypes'
  <2>1. Len(units[o]) <= Len(cart[o])
    BY DEF Staged
  <2>2. answer' \in [Orders -> Answer \cup {None}]
    BY <1>6, <2>1, SubtotalsType DEF WriteOrder, OrderTypes
  <2>3. row' \in [Orders -> Row \cup {None}] /\ items' \in [Orders -> Seq(0 .. MaxInt)]
    <3>1. CASE Accepted(o, TotalAmount(o)) /\ Written(o, "pending", TotalAmount(o))
      <4>1. TotalAmount(o) \in 0 .. MaxInt /\ Subtotals(o) \in Seq(0 .. MaxInt)
        BY <2>1, <3>1, SubtotalsType, AcceptedType
      <4> QED
        BY <3>1, <4>1 DEF Written, OrderTypes, Row, Statuses
    <3>2. CASE UNCHANGED <<row, items>>
      BY <3>2 DEF OrderTypes
    <3> QED
      BY <1>6, <3>1, <3>2 DEF WriteOrder
  <2>4. phase' \in [Orders -> Phases]
    BY <1>6 DEF WriteOrder, OrderTypes, Phases
  <2> QED
    BY <1>6, <2>2, <2>3, <2>4 DEF WriteOrder, OrderTypes
<1>7. ASSUME NEW o \in Orders, Enqueue(o) PROVE OrderTypes'
  <2>1. Len(units[o]) <= Len(cart[o])
    BY DEF Staged
  <2>2. answer' \in [Orders -> Answer \cup {None}]
    BY <1>7, <2>1, SubtotalsType DEF Enqueue, OrderTypes
  <2>3. phase' \in [Orders -> Phases]
    BY <1>7 DEF Enqueue, OrderTypes, Phases
  <2>4. queue' \in Seq(Orders)
    BY <1>7, AppendFacts DEF Enqueue, OrderTypes
  <2> QED
    BY <1>7, <2>2, <2>3, <2>4 DEF Enqueue, OrderTypes
<1>8. ASSUME NEW o \in Orders, ConfirmOrder(o) \/ CancelOrder(o) PROVE OrderTypes'
  <2>1. PICK to \in {"confirmed", "cancelled"} : row[o] # None /\ row' = [row EXCEPT ![o].status = to]
    BY <1>8 DEF ConfirmOrder, CancelOrder, SetStatus
  <2>2. row' \in [Orders -> Row \cup {None}]
    BY <2>1 DEF OrderTypes, Row, Statuses
  <2> QED
    BY <1>8, <2>2 DEF ConfirmOrder, CancelOrder, SetStatus, OrderTypes
<1>9. ASSUME Dequeue PROVE OrderTypes'
  <2>1. Head(queue) \in Orders /\ Tail(queue) \in Seq(Orders) /\ Head(queue) \in Range(queue)
    BY <1>9, TailFacts DEF Dequeue, OrderTypes
  <2>2. Head(queue) \notin Range(created)
    BY <2>1 DEF InOnePlace
  <2>3. created' \in Seq(Orders) /\ IsInjective(created')
    BY <1>9, <2>1, <2>2, AppendFacts DEF Dequeue, OrderTypes
  <2> QED
    BY <1>9, <2>1, <2>3 DEF Dequeue, OrderTypes
<1>10. ASSUME ProcessOrder PROVE OrderTypes'
  <2>1. job \in Orders
    BY <1>10 DEF ProcessOrder, OrderTypes
  <2>2. Len(units[job]) <= Len(cart[job])
    BY <2>1 DEF Staged
  <2>3. row' \in [Orders -> Row \cup {None}] /\ items' \in [Orders -> Seq(0 .. MaxInt)]
    <3>1. CASE Accepted(job, TotalOfJob(job)) /\ Written(job, "confirmed", TotalOfJob(job))
      <4>1. TotalOfJob(job) = TotalAmount(job)
        BY DEF TotalOfJob, TotalAmount
      <4>2. TotalOfJob(job) \in 0 .. MaxInt /\ Subtotals(job) \in Seq(0 .. MaxInt)
        BY <2>1, <2>2, <3>1, <4>1, SubtotalsType, AcceptedType
      <4> QED
        BY <2>1, <3>1, <4>2 DEF Written, OrderTypes, Row, Statuses
    <3>2. CASE UNCHANGED <<row, items>>
      BY <3>2 DEF OrderTypes
    <3> QED
      BY <1>10, <3>1, <3>2 DEF ProcessOrder
  <2> QED
    BY <1>10, <2>3 DEF ProcessOrder, OrderTypes
<1>11. ASSUME Read \/ Time \/ UNCHANGED vars PROVE OrderTypes'
  <2>1. UNCHANGED orderVars
    BY <1>11, ReadTimeFrame
  <2> QED
    BY <2>1 DEF orderVars, OrderTypes, IsInjective
<1> QED
  BY <1>1, <1>2, <1>3, <1>4, <1>5, <1>6, <1>7, <1>8, <1>9, <1>10, <1>11 DEF Next, Place

\* What an order is, and where, besides what the user reads.
Untouched(q) ==
  /\ phase'[q] = phase[q] /\ cart'[q] = cart[q] /\ units'[q] = units[q]
  /\ answer'[q] = answer[q] /\ row'[q] = row[q] /\ items'[q] = items[q]
  /\ job' = q <=> job = q
  /\ q \in Range(queue') <=> q \in Range(queue)
  /\ q \in Range(created') <=> q \in Range(created)

LEMMA UntouchedKeeps ==
  ASSUME NEW q \in Orders, Staged(q), InOnePlace(q), OneAmount(q), Untouched(q)
  PROVE  Staged(q)' /\ InOnePlace(q)' /\ OneAmount(q)'
<1>1. Subtotals(q)' = Subtotals(q) /\ Amounts(q)' = Amounts(q)
  BY SameAmounts DEF Untouched
<1>2. Staged(q)'
  BY DEF Untouched, Staged, Priced
<1>3. InOnePlace(q)'
  BY DEF Untouched, InOnePlace, Priced
<1>4. OneAmount(q)'
  BY <1>1 DEF Untouched, OneAmount
<1> QED
  BY <1>2, <1>3, <1>4

\* A step of one order leaves the others alone.
LEMMA OneOrder ==
  ASSUME OrdersInv, NEW o \in Orders, NEW q \in Orders, q # o,
         \/ Place(o) \/ ConfirmOrder(o) \/ CancelOrder(o)
         \/ Dequeue /\ o = Head(queue)
         \/ ProcessOrder /\ o = job
  PROVE  Untouched(q)
<1>0. created \in Seq(Orders) /\ queue \in Seq(Orders) /\ job \in Orders \cup {None} /\ None \notin Orders
  BY NoneAssumption DEF OrdersInv, OrderTypes
<1>1. ASSUME NEW c \in Carts, Begin(o, c) PROVE Untouched(q)
  BY <1>1 DEF Begin, Go, Untouched, OrdersInv, OrderTypes
<1>2. CASE Price(o)
  <2>1. UNCHANGED <<answer, queue, job, created, row, items, cart>> /\ units'[q] = units[q]
    BY <1>2 DEF Price, OrdersInv, OrderTypes
  <2>2. phase'[q] = phase[q]
    BY <1>2 DEF Price, Go, OrdersInv, OrderTypes
  <2> QED
    BY <2>1, <2>2 DEF Untouched
<1>3. CASE Refuse(o) \/ Deduct(o)
  BY <1>3 DEF Refuse, Deduct, Go, Untouched, OrdersInv, OrderTypes
<1>4. CASE BeginOrder(o)
  <2>1. Range(created') = Range(created) \cup {o}
    BY <1>0, <1>4, AppendFacts DEF BeginOrder
  <2> QED
    BY <1>4, <2>1 DEF BeginOrder, Go, Untouched, OrdersInv, OrderTypes
<1>5. CASE WriteOrder(o)
  <2>1. row'[q] = row[q] /\ items'[q] = items[q]
    BY <1>5 DEF WriteOrder, Written, OrdersInv, OrderTypes
  <2>2. phase'[q] = phase[q] /\ answer'[q] = answer[q]
    BY <1>5 DEF WriteOrder, Go, OrdersInv, OrderTypes
  <2>3. UNCHANGED <<cart, units, queue, job, created>>
    BY <1>5 DEF WriteOrder
  <2> QED
    BY <2>1, <2>2, <2>3 DEF Untouched
<1>6. CASE Enqueue(o)
  <2>1. Range(queue') = Range(queue) \cup {o}
    BY <1>0, <1>6, AppendFacts DEF Enqueue
  <2>2. phase'[q] = phase[q] /\ answer'[q] = answer[q]
    BY <1>6 DEF Enqueue, Go, OrdersInv, OrderTypes
  <2>3. UNCHANGED <<cart, units, job, created, row, items>>
    BY <1>6 DEF Enqueue
  <2> QED
    BY <2>1, <2>2, <2>3 DEF Untouched
<1>7. CASE ConfirmOrder(o) \/ CancelOrder(o)
  BY <1>7 DEF ConfirmOrder, CancelOrder, SetStatus, Untouched, OrdersInv, OrderTypes
<1>8. CASE Dequeue /\ o = Head(queue)
  <2>1. Range(queue) = Range(queue') \cup {o}
    BY <1>0, <1>8, TailFacts DEF Dequeue
  <2>2. Range(created') = Range(created) \cup {o}
    BY <1>0, <1>8, AppendFacts DEF Dequeue
  <2>3. job' = o /\ job = None /\ job # q
    BY <1>0, <1>8 DEF Dequeue
  <2>4. UNCHANGED <<phase, cart, units, answer, row, items>>
    BY <1>8 DEF Dequeue
  <2> QED
    BY <2>1, <2>2, <2>3, <2>4 DEF Untouched
<1>9. CASE ProcessOrder /\ o = job
  <2>1. row'[q] = row[q] /\ items'[q] = items[q]
    BY <1>9 DEF ProcessOrder, Written, OrdersInv, OrderTypes
  <2>2. job' = None /\ job' # q /\ job # q
    BY <1>0, <1>9 DEF ProcessOrder
  <2>3. UNCHANGED <<phase, cart, units, answer, queue, created>>
    BY <1>9 DEF ProcessOrder
  <2> QED
    BY <2>1, <2>2, <2>3 DEF Untouched
<1> QED
  BY <1>1, <1>2, <1>3, <1>4, <1>5, <1>6, <1>7, <1>8, <1>9 DEF Place

\* The order whose step it is: priced once, pushed or begun once, and written
\* with its own amounts.
LEMMA OwnOrder ==
  ASSUME OrdersInv, OrderTypes', NEW o \in Orders,
         \/ Place(o) \/ ConfirmOrder(o) \/ CancelOrder(o)
         \/ Dequeue /\ o = Head(queue)
         \/ ProcessOrder /\ o = job
  PROVE  Staged(o)' /\ InOnePlace(o)' /\ OneAmount(o)'
<1>0. /\ OrderTypes /\ Staged(o) /\ InOnePlace(o) /\ OneAmount(o)
      /\ created \in Seq(Orders) /\ queue \in Seq(Orders) /\ job \in Orders \cup {None} /\ None \notin Orders
  BY NoneAssumption DEF OrdersInv, OrderTypes
<1>a. None \notin Row /\ None \notin Answer
  BY NoneAssumption
<1>b. Len(units[o]) \in Nat /\ Len(cart[o]) \in Nat /\ units[o] \in Seq(0 .. MaxInt)
  BY <1>0, CartAssumption DEF OrderTypes
<1>1. ASSUME NEW c \in Carts, Begin(o, c) PROVE Staged(o)' /\ InOnePlace(o)' /\ OneAmount(o)'
  <2>1. /\ phase'[o] = "pricing" /\ cart'[o] = c /\ units'[o] = <<>>
        /\ UNCHANGED <<answer, queue, job, created, row, items>>
    BY <1>0, <1>1 DEF Begin, Go, OrderTypes, Staged
  <2>2. c \in Seq(Item) /\ c # <<>>
    BY CartAssumption
  <2>3. Len(c) \in Nat /\ Len(c) # 0
    BY <2>2, EmptySeq
  <2>4. /\ answer[o] = None /\ row[o] = None /\ job # o /\ o \notin Range(queue) /\ o \notin Range(created)
    BY <1>0, <1>1 DEF Begin, Staged
  <2> QED
    BY <2>1, <2>3, <2>4 DEF Staged, InOnePlace, OneAmount, Priced
<1>2. CASE Price(o)
  <2>1. Len(units[o]) < Len(cart[o])
    BY <1>0, <1>2, <1>b DEF Price, Staged, Priced
  <2>2. PICK price : units' = [units EXCEPT ![o] = Append(@, price)]
    BY <1>2 DEF Price
  <2>3. units'[o] = Append(units[o], price)
    BY <1>0, <2>2 DEF OrderTypes
  <2>4. Len(units'[o]) = Len(units[o]) + 1
    BY <1>b, <2>3
  <2>5. phase'[o] = IF Len(units'[o]) = Len(cart[o]) THEN "deduct" ELSE "pricing"
    BY <1>0, <1>2 DEF Price, Go, OrderTypes
  <2>6. /\ UNCHANGED <<cart, answer, queue, job, created, row, items>>
        /\ answer[o] = None /\ row[o] = None /\ job # o /\ o \notin Range(queue) /\ o \notin Range(created)
    BY <1>0, <1>2 DEF Price, Staged
  <2> QED
    BY <1>b, <2>1, <2>4, <2>5, <2>6 DEF Staged, InOnePlace, OneAmount, Priced
<1>3. CASE Refuse(o)
  <2>1. phase'[o] = "refused" /\ UNCHANGED <<cart, units, answer, queue, job, created, row, items>>
    BY <1>0, <1>3 DEF Refuse, Go, OrderTypes
  <2>2. answer[o] = None /\ row[o] = None /\ job # o /\ o \notin Range(queue) /\ o \notin Range(created)
    BY <1>0, <1>3 DEF Refuse, Staged
  <2> QED
    BY <1>0, <2>1, <2>2 DEF Staged, InOnePlace, OneAmount
<1>4. CASE Deduct(o)
  <2>1. /\ phase[o] = "deduct" /\ phase'[o] \in {"push", "begin"}
        /\ UNCHANGED <<cart, units, answer, queue, job, created, row, items>>
    BY <1>0, <1>4 DEF Deduct, Go, OrderTypes
  <2> QED
    BY <1>0, <2>1 DEF Staged, InOnePlace, OneAmount, Priced
<1>5. CASE BeginOrder(o)
  <2>1. Range(created') = Range(created) \cup {o}
    BY <1>0, <1>5, AppendFacts DEF BeginOrder
  <2>2. /\ phase[o] = "begin" /\ phase'[o] = "write"
        /\ UNCHANGED <<cart, units, answer, queue, job, row, items>>
    BY <1>0, <1>5 DEF BeginOrder, Go, OrderTypes
  <2> QED
    BY <1>0, <2>1, <2>2 DEF Staged, InOnePlace, OneAmount, Priced
<1>6. CASE WriteOrder(o)
  <2>1. /\ phase[o] = "write" /\ phase'[o] \in {"placed", "refused"}
        /\ UNCHANGED <<cart, units, queue, job, created>>
    BY <1>0, <1>6 DEF WriteOrder, Go, OrderTypes
  <2>2. Subtotals(o)' = Subtotals(o) /\ Amounts(o)' = Amounts(o)
    BY <2>1, SameAmounts
  <2>3. /\ Priced(o) /\ job # o /\ o \notin Range(queue) /\ o \in Range(created)
        /\ answer[o] = None /\ row[o] = None
    BY <1>0, <2>1 DEF Staged
  <2>4. answer'[o] = None \/ answer'[o] = Amounts(o)
    BY <1>0, <1>6, <2>3 DEF WriteOrder, OrderTypes
  <2>5. row'[o] = None \/ (items'[o] = Subtotals(o) /\ row'[o].total = SumOf(Subtotals(o)))
    <3>1. CASE Written(o, "pending", TotalAmount(o))
      BY <1>0, <3>1 DEF Written, OrderTypes, TotalAmount
    <3> QED
      BY <1>6, <2>3, <3>1 DEF WriteOrder
  <2>6. Staged(o)' /\ InOnePlace(o)'
    BY <1>0, <2>1, <2>3 DEF Staged, InOnePlace, Priced
  <2>7. OneAmount(o)'
    BY <2>2, <2>4, <2>5 DEF OneAmount
  <2> QED
    BY <2>6, <2>7
<1>7. CASE Enqueue(o)
  <2>1. Range(queue') = Range(queue) \cup {o}
    BY <1>0, <1>7, AppendFacts DEF Enqueue
  <2>2. /\ phase[o] = "push" /\ phase'[o] \in {"placed", "refused"}
        /\ UNCHANGED <<cart, units, job, created, row, items>>
    BY <1>0, <1>7 DEF Enqueue, Go, OrderTypes
  <2>3. Subtotals(o)' = Subtotals(o) /\ Amounts(o)' = Amounts(o)
    BY <2>2, SameAmounts
  <2>4. /\ Priced(o) /\ job # o /\ o \notin Range(queue) /\ o \notin Range(created)
        /\ answer[o] = None /\ row[o] = None
    BY <1>0, <2>2 DEF Staged
  <2>5. answer'[o] = None \/ answer'[o] = Amounts(o)
    BY <1>0, <1>7, <2>4 DEF Enqueue, OrderTypes
  <2>6. Staged(o)' /\ InOnePlace(o)'
    BY <1>0, <2>1, <2>2, <2>4 DEF Staged, InOnePlace, Priced
  <2>7. OneAmount(o)'
    BY <2>2, <2>3, <2>4, <2>5 DEF OneAmount
  <2> QED
    BY <2>6, <2>7
<1>8. CASE ConfirmOrder(o) \/ CancelOrder(o)
  <2>1. PICK to \in {"confirmed", "cancelled"} : row[o] # None /\ row' = [row EXCEPT ![o].status = to]
    BY <1>8 DEF ConfirmOrder, CancelOrder, SetStatus
  <2>2. UNCHANGED <<phase, cart, units, answer, queue, job, created, items>>
    BY <1>8 DEF ConfirmOrder, CancelOrder, SetStatus
  <2>3. row[o] \in Row /\ row'[o] # None /\ row'[o].total = row[o].total
    <3>1. row[o] \in Row
      BY <1>0, <2>1 DEF OrderTypes
    <3>2. row'[o] = [row[o] EXCEPT !.status = to]
      BY <1>0, <2>1 DEF OrderTypes
    <3>3. row'[o].total = row[o].total
      BY <3>1, <3>2 DEF Row
    <3>4. row'[o] \in Row
      BY <3>1, <3>2 DEF Row, Statuses
    <3> QED
      BY <1>a, <3>1, <3>3, <3>4
  <2>4. Subtotals(o)' = Subtotals(o) /\ Amounts(o)' = Amounts(o)
    BY <2>2, SameAmounts
  <2>5. Staged(o)' /\ InOnePlace(o)'
    BY <1>0, <2>1, <2>2, <2>3 DEF Staged, InOnePlace, Priced
  <2>6. OneAmount(o)'
    BY <1>0, <2>1, <2>2, <2>3, <2>4 DEF OneAmount
  <2> QED
    BY <2>5, <2>6
<1>9. CASE Dequeue /\ o = Head(queue)
  <2>1. Range(queue) = Range(queue') \cup {o} /\ o \notin Range(queue')
    BY <1>0, <1>9, TailFacts DEF Dequeue, OrdersInv
  <2>2. Range(created') = Range(created) \cup {o}
    BY <1>0, <1>9, AppendFacts DEF Dequeue
  <2>3. job' = o /\ UNCHANGED <<phase, cart, units, answer, row, items>>
    BY <1>9 DEF Dequeue
  <2>4. Subtotals(o)' = Subtotals(o) /\ Amounts(o)' = Amounts(o)
    BY <2>3, SameAmounts
  <2>5. o \in Range(queue) /\ o \notin Range(created) /\ Priced(o) /\ row[o] = None
    BY <1>0, <2>1 DEF InOnePlace
  <2>6. phase[o] \in {"placed", "refused"}
    BY <1>0, <2>5 DEF Staged
  <2>7. Staged(o)' /\ InOnePlace(o)'
    BY <1>0, <2>1, <2>2, <2>3, <2>5, <2>6 DEF Staged, InOnePlace, Priced
  <2>8. OneAmount(o)'
    BY <1>0, <2>3, <2>4 DEF OneAmount
  <2> QED
    BY <2>7, <2>8
<1>10. CASE ProcessOrder /\ o = job
  <2>1. job' = None /\ UNCHANGED <<phase, cart, units, answer, queue, created>>
    BY <1>10 DEF ProcessOrder
  <2>2. Subtotals(o)' = Subtotals(o) /\ Amounts(o)' = Amounts(o)
    BY <2>1, SameAmounts
  <2>3. row[o] = None /\ o \in Range(created) /\ Priced(o) /\ o \notin Range(queue)
    BY <1>0, <1>10 DEF InOnePlace
  <2>4. phase[o] \in {"placed", "refused"}
    BY <1>0, <1>10 DEF Staged
  <2>5. row'[o] = None \/ (items'[o] = Subtotals(o) /\ row'[o].total = SumOf(Subtotals(o)))
    <3>1. CASE Written(o, "confirmed", TotalOfJob(o))
      BY <1>0, <3>1 DEF Written, OrderTypes, TotalOfJob
    <3> QED
      BY <1>10, <2>3, <3>1 DEF ProcessOrder
  <2>6. Staged(o)' /\ InOnePlace(o)'
    BY <1>0, <2>1, <2>3, <2>4 DEF Staged, InOnePlace, Priced
  <2>7. OneAmount(o)'
    BY <1>0, <2>1, <2>2, <2>5 DEF OneAmount
  <2> QED
    BY <2>6, <2>7
<1> QED
  BY <1>1, <1>2, <1>3, <1>4, <1>5, <1>6, <1>7, <1>8, <1>9, <1>10 DEF Place

LEMMA OrdersNext ==
  ASSUME OrdersInv, DealsTypeOK, DealsValid, [Next]_vars
  PROVE  OrdersInv'
<1>1. OrderTypes'
  BY OrderTypesNext
<1>2. ASSUME NEW q \in Orders PROVE Staged(q)' /\ InOnePlace(q)' /\ OneAmount(q)'
  <2>0. Staged(q) /\ InOnePlace(q) /\ OneAmount(q)
    BY DEF OrdersInv
  <2>1. ASSUME NEW o \in Orders,
               \/ Place(o) \/ ConfirmOrder(o) \/ CancelOrder(o)
               \/ Dequeue /\ o = Head(queue)
               \/ ProcessOrder /\ o = job
        PROVE  Staged(q)' /\ InOnePlace(q)' /\ OneAmount(q)'
    <3>1. CASE q = o
      BY <1>1, <2>1, <3>1, OwnOrder
    <3>2. CASE q # o
      <4>1. Untouched(q)
        BY <2>1, <3>2, OneOrder
      <4> QED
        BY <2>0, <4>1, UntouchedKeeps
    <3> QED
      BY <3>1, <3>2
  <2>2. CASE \E o \in Orders : Place(o) \/ ConfirmOrder(o) \/ CancelOrder(o)
    BY <2>1, <2>2
  <2>3. CASE Dequeue
    <3>1. Head(queue) \in Orders
      BY <2>3, TailFacts DEF Dequeue, OrdersInv, OrderTypes
    <3> QED
      BY <2>1, <2>3, <3>1
  <2>4. CASE ProcessOrder
    <3>1. job \in Orders
      BY <2>4 DEF ProcessOrder, OrdersInv, OrderTypes
    <3> QED
      BY <2>1, <2>4, <3>1
  <2>5. CASE Read \/ Time \/ UNCHANGED vars
    <3>1. UNCHANGED orderVars
      BY <2>5, ReadTimeFrame
    <3>2. Untouched(q)
      BY <3>1 DEF orderVars, Untouched
    <3> QED
      BY <2>0, <3>2, UntouchedKeeps
  <2> QED
    BY <2>2, <2>3, <2>4, <2>5 DEF Next
<1>3. IsInjective(queue')
  <2>1. CASE Dequeue
    BY <2>1, TailFacts DEF Dequeue, OrdersInv, OrderTypes
  <2>2. ASSUME NEW o \in Orders, Enqueue(o) PROVE IsInjective(queue')
    <3>1. o \notin Range(queue)
      BY <2>2 DEF Enqueue, OrdersInv, Staged
    <3> QED
      BY <2>2, <3>1, AppendFacts DEF Enqueue, OrdersInv, OrderTypes
  <2>3. CASE queue' = queue
    BY <2>3 DEF OrdersInv
  <2>4. ASSUME NEW o \in Orders, Place(o), ~Enqueue(o) PROVE queue' = queue
    BY <2>4 DEF Place, Begin, Price, Refuse, Deduct, BeginOrder, WriteOrder
  <2>5. ASSUME NEW o \in Orders, ConfirmOrder(o) \/ CancelOrder(o) PROVE queue' = queue
    BY <2>5 DEF ConfirmOrder, CancelOrder, SetStatus
  <2>6. ProcessOrder => queue' = queue
    BY DEF ProcessOrder
  <2>7. Read \/ Time \/ UNCHANGED vars => queue' = queue
    BY ReadTimeFrame DEF orderVars
  <2> QED
    BY <2>1, <2>2, <2>3, <2>4, <2>5, <2>6, <2>7 DEF Next
<1>4. IsInjective(queue)'
  BY <1>3 DEF IsInjective
<1> QED
  BY <1>1, <1>2, <1>4 DEF OrdersInv

-----------------------------------------------------------------------------
(***************************************************************************)
(* What only grows: the deals, the orders written, and the orders that no  *)
(* longer leave a list.                                                    *)
(***************************************************************************)
LEMMA DealsNext ==
  ASSUME DealsTypeOK, DealsValid, [Next]_vars
  PROVE  DealsTypeOK' /\ DealsValid' /\ deals \subseteq deals'
<1>1. CASE Time
  <2>1. CASE Tick
    BY <2>1, TimeAssumption DEF Tick, DealsTypeOK, DealsValid
  <2>2. ASSUME NEW d \in Offers, CreateDeal(d) PROVE DealsTypeOK' /\ DealsValid' /\ deals \subseteq deals'
    BY <2>2 DEF CreateDeal, DealsTypeOK, DealsValid
  <2> QED
    BY <1>1, <2>1, <2>2 DEF Time
<1>2. CASE UNCHANGED dealVars
  BY <1>2 DEF dealVars, DealsTypeOK, DealsValid
<1>3. ASSUME NEW o \in Orders, Place(o) \/ ConfirmOrder(o) \/ CancelOrder(o) PROVE UNCHANGED dealVars
  BY <1>3 DEF Place, Begin, Price, Refuse, Deduct, BeginOrder, WriteOrder, Enqueue, ConfirmOrder, CancelOrder, SetStatus
<1>4. Dequeue \/ ProcessOrder \/ UNCHANGED vars => UNCHANGED dealVars
  BY DEF Dequeue, ProcessOrder, vars
<1>5. Read => UNCHANGED dealVars
  BY DEF Read, GetOrder, StartWalk, Count, Fetch, FetchItems, NextPage, ListDeals, CountDeals
<1> QED
  BY <1>1, <1>2, <1>3, <1>4, <1>5 DEF Next

\* The orders active at one time are finitely many.
LEMMA ActiveFinite ==
  ASSUME DealsTypeOK, NEW t
  PROVE  IsFiniteSet(Active(t)) /\ Cardinality(Active(t)) \in Nat
<1>1. Active(t) \in SUBSET Offers
  BY DEF Active, DealsTypeOK
<1> QED
  BY <1>1, OfferAssumption, FS_Subset, FS_CardinalityType

\* A written order stays, and a cancelled one stays cancelled.
LEMMA RowsStay ==
  ASSUME OrdersInv, [Next]_vars, NEW q \in Orders, row[q] # None
  PROVE  /\ row'[q] # None /\ cart'[q] = cart[q]
         /\ row[q].status = "cancelled" => row'[q].status = "cancelled"
<1>0. OrderTypes /\ None \notin Row /\ None \notin Orders /\ Staged(q) /\ InOnePlace(q)
  BY NoneAssumption DEF OrdersInv
<1>1. ASSUME NEW o \in Orders, ConfirmOrder(o) \/ CancelOrder(o)
      PROVE  row'[q] # None /\ cart'[q] = cart[q] /\ (row[q].status = "cancelled" => row'[q].status = "cancelled")
  <2>1. PICK to \in {"confirmed", "cancelled"} :
           row[o] # None /\ row[o].status # "cancelled" /\ row' = [row EXCEPT ![o].status = to]
    BY <1>1 DEF ConfirmOrder, CancelOrder, SetStatus
  <2>2. cart' = cart
    BY <1>1 DEF ConfirmOrder, CancelOrder, SetStatus
  <2>3. CASE q = o
    <3>1. row[q] \in Row
      BY <1>0 DEF OrderTypes
    <3>2. row'[q] = [row[q] EXCEPT !.status = to]
      BY <1>0, <2>1, <2>3 DEF OrderTypes
    <3>3. row'[q] \in Row
      BY <3>1, <3>2 DEF Row, Statuses
    <3> QED
      BY <1>0, <2>1, <2>2, <2>3, <3>3
  <2>4. CASE q # o
    BY <1>0, <2>1, <2>2, <2>4 DEF OrderTypes
  <2> QED
    BY <2>3, <2>4
<1>2. ASSUME NEW o \in Orders, Place(o) PROVE row'[q] = row[q] /\ cart'[q] = cart[q]
  <2>1. CASE q = o
    <3>1. ~WriteOrder(o) /\ \A c : ~Begin(o, c)
      BY <1>0, <2>1 DEF Staged, WriteOrder, Begin
    <3> QED
      BY <1>2, <3>1 DEF Place, Price, Refuse, Deduct, BeginOrder, Enqueue
  <2>2. CASE q # o
    BY <1>2, <2>2, OneOrder DEF Untouched
  <2> QED
    BY <2>1, <2>2
<1>3. CASE Dequeue
  BY <1>3 DEF Dequeue
<1>4. CASE ProcessOrder
  <2>1. job \in Orders /\ job # q
    BY <1>0, <1>4 DEF ProcessOrder, OrderTypes, InOnePlace
  <2> QED
    BY <1>4, <2>1, OneOrder DEF Untouched
<1>5. CASE Read \/ Time \/ UNCHANGED vars
  BY <1>5, ReadTimeFrame DEF orderVars
<1> QED
  BY <1>1, <1>2, <1>3, <1>4, <1>5 DEF Next

\* Orders do not change places: a new one is behind none.
LEMMA PlacesStay ==
  ASSUME OrdersInv, [Next]_vars
  PROVE  \A p, q : Ahead(p, q) => Ahead(p, q)'
<1>0. created \in Seq(Orders) /\ queue \in Seq(Orders)
  BY DEF OrdersInv, OrderTypes
<1>1. ASSUME NEW x, created' = Append(created, x), NEW p, NEW q, Ahead(p, q) PROVE Ahead(p, q)'
  <2>1. PICK i, j \in DOMAIN created : j < i /\ created[i] = p /\ created[j] = q
    BY <1>1 DEF Ahead, Newer
  <2>2. \A k \in DOMAIN created : k \in DOMAIN created' /\ created'[k] = created[k]
    BY <1>0, <1>1
  <2> QED
    BY <2>1, <2>2 DEF Ahead, Newer
<1>2. ASSUME created' = created, NEW p, NEW q, Ahead(p, q) PROVE Ahead(p, q)'
  BY <1>2 DEF Ahead, Newer
<1>3. ASSUME NEW o \in Orders, Place(o) \/ ConfirmOrder(o) \/ CancelOrder(o)
      PROVE  created' = created \/ created' = Append(created, o)
  BY <1>3 DEF Place, Begin, Price, Refuse, Deduct, BeginOrder, WriteOrder, Enqueue, ConfirmOrder, CancelOrder, SetStatus
<1>4. Dequeue => created' = Append(created, job')
  BY DEF Dequeue
<1>5. ProcessOrder \/ Read \/ Time \/ UNCHANGED vars => created' = created
  BY ReadTimeFrame DEF ProcessOrder, orderVars
<1> QED
  BY <1>1, <1>2, <1>3, <1>4, <1>5 DEF Next

LEMMA InvDated == OrdersInv => \A c : Dated(c)
BY DEF OrdersInv, InOnePlace, Dated, OrdersOf, Matches

\* Nobody leaves a list of orders of any status, nor that of the cancelled, so
\* that it grows, and the orders on it fall back or keep their ranks.
LEMMA ListGrows ==
  ASSUME OrdersInv, [Next]_vars, NEW c \in Lasting
  PROVE  /\ OrdersOf(c) \subseteq OrdersOf(c)'
         /\ Cardinality(OrdersOf(c)) <= Cardinality(OrdersOf(c)')
         /\ \A o \in OrdersOf(c) : Rank(o, c) \in Nat /\ Rank(o, c)' \in Nat /\ Rank(o, c) <= Rank(o, c)'
<1>1. OrdersOf(c) \subseteq OrdersOf(c)'
  <2> SUFFICES ASSUME NEW q \in OrdersOf(c) PROVE q \in OrdersOf(c)'
    OBVIOUS
  <2>1. q \in Orders /\ row[q] # None /\ (c = None \/ row[q].status = c)
    BY DEF OrdersOf, Matches
  <2>2. row'[q] # None /\ (row[q].status = "cancelled" => row'[q].status = "cancelled")
    BY <2>1, RowsStay
  <2> QED
    BY <2>1, <2>2 DEF OrdersOf, Matches, Lasting
<1>2. IsFiniteSet(OrdersOf(c))
  BY ListFinite
<1>3. IsFiniteSet(OrdersOf(c)')
  <2>1. OrdersOf(c)' \in SUBSET Orders
    BY DEF OrdersOf
  <2> QED
    BY <2>1, OrdersFinite, FS_Subset
<1>4. Cardinality(OrdersOf(c)) <= Cardinality(OrdersOf(c)')
  <2> DEFINE S == OrdersOf(c)
             T == OrdersOf(c)'
  <2>1. S \in SUBSET T /\ IsFiniteSet(T)
    BY <1>1, <1>3
  <2> HIDE DEF S, T
  <2>2. Cardinality(S) <= Cardinality(T)
    BY <2>1, FS_Subset
  <2> QED
    BY <2>2 DEF S, T
<1>5. ASSUME NEW o \in OrdersOf(c)
      PROVE  Rank(o, c) \in Nat /\ Rank(o, c)' \in Nat /\ Rank(o, c) <= Rank(o, c)'
  <2> DEFINE A == {q \in OrdersOf(c) : Ahead(q, o)}
             B == {q \in OrdersOf(c)' : Ahead(q, o)'}
  <2>1. A \in SUBSET B
    BY <1>1, PlacesStay
  <2>2. B \in SUBSET (OrdersOf(c)')
    OBVIOUS
  <2>3. Rank(o, c) = Cardinality(A) /\ Rank(o, c)' = Cardinality(B)
    BY DEF Rank
  <2> HIDE DEF A, B
  <2>4. IsFiniteSet(B)
    BY <1>3, <2>2, FS_Subset
  <2>5. IsFiniteSet(A) /\ Cardinality(A) <= Cardinality(B)
    BY <2>1, <2>4, FS_Subset
  <2>6. Cardinality(A) \in Nat /\ Cardinality(B) \in Nat
    BY <2>4, <2>5, FS_CardinalityType
  <2> QED
    BY <2>3, <2>5, <2>6
<1> QED
  BY <1>1, <1>4, <1>5

-----------------------------------------------------------------------------
(***************************************************************************)
(* The reader.                                                             *)
(***************************************************************************)
LEMMA ReadInit == Init => DealsTypeOK /\ DealsValid /\ ReadInv
<1> SUFFICES ASSUME Init PROVE DealsTypeOK /\ DealsValid /\ ReadInv
  OBVIOUS
<1>1. DealsTypeOK /\ DealsValid
  BY TimeAssumption DEF Init, DealsInit, DealsTypeOK, DealsValid
<1>2. ReadTypes
  BY TimeAssumption DEF Init, ReadTypes
<1>3. /\ reading = "idle" /\ ask = None /\ shown = {} /\ rows = <<>> /\ before = {}
  BY DEF Init
<1>4. ~AsksOrders
  BY <1>3, NoneAssumption DEF AsksOrders, Asks
<1> QED
  BY <1>1, <1>2, <1>3, <1>4 DEF ReadInv, Reader, ShownWhole, Walk, DealsPage, ActiveTotalCoversPage

\* While only orders and deals change, what was read stays true of them: no
\* order read is lost, and the pages still to be fetched hold who is missing.
LEMMA ReadKept ==
  ASSUME DealsTypeOK, DealsValid, OrdersInv, ReadInv, [Next]_vars, UNCHANGED readVars
  PROVE  ReadInv'
<1> USE DEF readVars, listVars
<1>0. ReadTypes /\ Reader /\ ShownWhole /\ Walk /\ DealsPage /\ ActiveTotalCoversPage
  BY DEF ReadInv
<1>1. DealsTypeOK' /\ deals \subseteq deals'
  BY DealsNext
<1>2. ReadTypes'
  BY <1>0, <1>1 DEF ReadTypes
<1>3. \A q \in Orders : row[q] # None => row'[q] # None /\ cart'[q] = cart[q]
  BY RowsStay
<1>4. Reader'
  <2>1. \A i \in DOMAIN rows : rows[i] \in Orders
    BY <1>0 DEF ReadTypes
  <2>2. \A s \in shown : s.order \in Orders
    BY <1>0 DEF ReadTypes
  <2>3. AsksOrders' <=> AsksOrders
    BY DEF AsksOrders
  <2>4. AsksDeals' <=> AsksDeals
    BY DEF AsksDeals
  <2> QED
    BY <1>0, <1>3, <2>1, <2>2, <2>3, <2>4 DEF Reader
<1>5. ShownWhole'
  <2> SUFFICES ASSUME NEW s \in shown
               PROVE  Len(s.items) = Len(cart'[s.order]) \/ (ask.what = "orders" /\ s.items = <<>>)
    BY DEF ShownWhole
  <2>1. s.order \in Orders /\ row[s.order] # None
    BY <1>0 DEF ReadTypes, Reader
  <2> QED
    BY <1>0, <1>3, <2>1 DEF ShownWhole
<1>6. Walk'
  <2> SUFFICES ASSUME AsksOrders, ask.status \in Lasting PROVE Walk'
    BY DEF Walk, AsksOrders
  <2> DEFINE c == ask.status
  <2>1. /\ OrdersOf(c) \subseteq OrdersOf(c)'
        /\ Cardinality(OrdersOf(c)) <= Cardinality(OrdersOf(c)')
        /\ \A o \in OrdersOf(c) : Rank(o, c) \in Nat /\ Rank(o, c)' \in Nat /\ Rank(o, c) <= Rank(o, c)'
    BY ListGrows
  <2>2. /\ before \subseteq OrdersOf(c)
        /\ reading \in {"count", "page"} => \A o \in before : o \in Passed \/ (page - 1) * PageSize <= Rank(o, c)
        /\ reading = "items" => \A o \in before : o \in Passed \/ page * PageSize <= Rank(o, c)
        /\ reading \in {"last", "walked"} => before \subseteq Passed
        /\ reading = "page" => total <= Cardinality(OrdersOf(c))
    BY <1>0 DEF Walk
  <2>3. Passed' = Passed
    BY DEF Passed
  <2>4. Cardinality(OrdersOf(c)) \in Nat /\ Cardinality(OrdersOf(c)') \in Nat
    <3>1. OrdersOf(c)' \in SUBSET Orders
      BY DEF OrdersOf
    <3>2. IsFiniteSet(OrdersOf(c)')
      BY <3>1, OrdersFinite, FS_Subset
    <3> QED
      BY <3>2, ListFinite, FS_CardinalityType
  <2>5. page \in Nat /\ total \in Nat /\ page * PageSize \in Int /\ (page - 1) * PageSize \in Int
    BY <1>0, NumberAssumption DEF ReadTypes
  <2>6. \A o, k : o \in OrdersOf(c) /\ k \in Int /\ k <= Rank(o, c) => k <= Rank(o, c)'
    BY <2>1
  <2> HIDE DEF c
  <2>7. c' = c
    BY DEF c
  <2> QED
    BY <2>1, <2>2, <2>3, <2>4, <2>5, <2>6, <2>7 DEF Walk, c
<1>7. DealsPage' /\ ActiveTotalCoversPage'
  <2>1. Active(at) \in SUBSET (Active(at)')
    BY <1>1 DEF Active
  <2>2. IsFiniteSet(Active(at)) /\ Cardinality(Active(at)) \in Nat
    BY ActiveFinite
  <2>3. IsFiniteSet(Active(at)') /\ Cardinality(Active(at)') \in Nat
    <3>1. Active(at)' \in SUBSET Offers
      BY <1>1 DEF Active, DealsTypeOK
    <3> QED
      BY <3>1, OfferAssumption, FS_Subset, FS_CardinalityType
  <2>4. Cardinality(Active(at)) <= Cardinality(Active(at)')
    BY <2>1, <2>3, FS_Subset
  <2>5. reading \in {"deals", "listed"} => ask.skip \in Nat
    BY <1>0 DEF Reader, AsksDeals
  <2>6. IsFiniteSet(listed) /\ Cardinality(listed) \in Nat
    <3>1. listed \in SUBSET Offers
      BY <1>0 DEF ReadTypes, DealsTypeOK
    <3> QED
      BY <3>1, OfferAssumption, FS_Subset, FS_CardinalityType
  <2> QED
    BY <1>0, <2>2, <2>3, <2>4, <2>5, <2>6 DEF DealsPage, ActiveTotalCoversPage
<1> QED
  BY <1>2, <1>4, <1>5, <1>6, <1>7 DEF ReadInv

\* A list is the same as long as the orders are.
LEMMA SameLists ==
  ASSUME UNCHANGED orderVars
  PROVE  \A c : OrdersOf(c)' = OrdersOf(c) /\ \A o : Rank(o, c)' = Rank(o, c)
<1>1. \A c : OrdersOf(c)' = OrdersOf(c)
  BY DEF orderVars, OrdersOf, Matches
<1>2. \A p, q : Ahead(p, q)' <=> Ahead(p, q)
  BY DEF orderVars, Ahead, Newer
<1> QED
  BY <1>1, <1>2 DEF Rank

\* The types of what is read.
LEMMA ReadTypesNext ==
  ASSUME DealsTypeOK, OrdersInv, ReadTypes, Reader, Read
  PROVE  ReadTypes'
<1>0. OrderTypes
  BY DEF OrdersInv
<1>1. ASSUME NEW o \in Orders, GetOrder(o) PROVE ReadTypes'
  <2>1. ask' \in Asks /\ reading' \in {"done", "last"}
    BY <1>1 DEF GetOrder, AskFor, Asks
  <2>2. rows' \in Seq(Orders)
    BY <1>1 DEF GetOrder
  <2> QED
    BY <1>1, <2>1, <2>2 DEF GetOrder, ReadTypes, dealVars
<1>2. ASSUME NEW status \in Statuses \cup {None}, StartWalk(status) PROVE ReadTypes'
  <2>1. ask' \in Asks /\ reading' = "count"
    BY <1>2 DEF StartWalk, AskFor, Asks
  <2>2. before' \subseteq Orders
    BY <1>2 DEF StartWalk, OrdersOf
  <2> QED
    BY <1>2, <2>1, <2>2 DEF StartWalk, ReadTypes, dealVars
<1>3. CASE Count
  <2>1. total' \in Nat
    BY <1>3, ListFinite DEF Count, CountOrders, ReadTypes
  <2> QED
    BY <1>3, <2>1 DEF Count, ReadTypes, dealVars
<1>4. CASE Fetch
  <2>1. rows' \in Seq(Orders)
    <3>1. CASE rows' = ListOrders(ask.status)
      <4>1. page \in Nat /\ page >= 1
        BY <1>4 DEF Fetch, ReadTypes, Reader
      <4>2. ListOrders(ask.status) \in Seq(OrdersOf(ask.status))
        BY <1>0, <4>1, InvDated, ListFacts DEF OrderTypes
      <4>3. OrdersOf(ask.status) \subseteq Orders
        BY DEF OrdersOf
      <4> QED
        BY <3>1, <4>2, <4>3, SeqMonotonic
    <3>2. CASE UNCHANGED rows
      BY <3>2 DEF ReadTypes
    <3> QED
      BY <1>4, <3>1, <3>2 DEF Fetch
  <2> QED
    BY <1>4, <2>1 DEF Fetch, ReadTypes, dealVars
<1>5. CASE FetchItems
  <2>1. Head(rows) \in Orders /\ Tail(rows) \in Seq(Orders)
    BY <1>5, TailFacts DEF FetchItems, ReadTypes
  <2>2. items[Head(rows)] \in Seq(0 .. MaxInt) /\ <<>> \in Seq(0 .. MaxInt)
    BY <1>0, <2>1 DEF OrderTypes
  <2>3. shown' \subseteq [order: Orders, items: Seq(0 .. MaxInt)]
    <3> DEFINE T == [order: Orders, items: Seq(0 .. MaxInt)]
    <3>1. Shown(Head(rows), items[Head(rows)]) \in T /\ Shown(Head(rows), <<>>) \in T
      BY <2>1, <2>2 DEF Shown
    <3>2. shown \subseteq T
      BY DEF ReadTypes
    <3> HIDE DEF T
    <3>3. shown' \subseteq T
      BY <1>5, <3>1, <3>2 DEF FetchItems
    <3> QED
      BY <3>3 DEF T
  <2> QED
    BY <1>5, <2>1, <2>3 DEF FetchItems, ReadTypes, dealVars
<1>6. CASE NextPage
  BY <1>6 DEF NextPage, ReadTypes, dealVars
<1>7. ASSUME NEW limit \in 1 .. Cardinality(Offers), NEW skip \in 0 .. Cardinality(Offers), ListDeals(limit, skip)
      PROVE  ReadTypes'
  <2>1. ask' \in Asks /\ reading' = "deals"
    BY <1>7 DEF ListDeals, AskFor, Asks
  <2>2. listed' \subseteq deals
    BY <1>7 DEF ListDeals, ActivePages, Active
  <2>3. at' \in 0 .. MaxTime
    BY <1>7 DEF ListDeals, DealsTypeOK
  <2> QED
    BY <1>7, <2>1, <2>2, <2>3 DEF ListDeals, ReadTypes, dealVars, listVars
<1>8. CASE CountDeals
  <2>1. total' \in Nat
    BY <1>8, ActiveFinite DEF CountDeals, CountActiveDeals, ReadTypes
  <2> QED
    BY <1>8, <2>1 DEF CountDeals, ReadTypes, dealVars, listVars
<1> QED
  BY <1>1, <1>2, <1>3, <1>4, <1>5, <1>6, <1>7, <1>8 DEF Read

\* What each query of the user reads next.
LEMMA ReaderNext ==
  ASSUME OrdersInv, ReadTypes, Reader, Read
  PROVE  Reader'
<1>0. UNCHANGED row
  BY ReadTimeFrame DEF orderVars
<1>1. ASSUME NEW o \in Orders, GetOrder(o) PROVE Reader'
  <2>1. /\ ask' = [what |-> "order", order |-> o] /\ shown' = {}
        /\ reading' = IF row[o] = None THEN "done" ELSE "last"
        /\ rows' = IF row[o] = None THEN <<>> ELSE <<o>>
    BY <1>1 DEF GetOrder, AskFor, Reader
  <2>2. ask' \in [what: {"order"}, order: Orders] /\ ~AsksOrders'
    BY <2>1 DEF AsksOrders
  <2>3. \A i \in DOMAIN rows' : row[rows'[i]] # None
    BY <2>1
  <2> QED
    BY <1>0, <2>1, <2>2, <2>3 DEF Reader
<1>2. ASSUME NEW status \in Statuses \cup {None}, StartWalk(status) PROVE Reader'
  <2>1. /\ ask' = [what |-> "orders", status |-> status] /\ shown' = {} /\ rows' = <<>>
        /\ reading' = "count" /\ page' = 1
    BY <1>2 DEF StartWalk, AskFor, Reader
  <2> QED
    BY <1>0, <2>1 DEF Reader, AsksOrders
<1>3. CASE Count
  BY <1>0, <1>3 DEF Count, Reader, AsksOrders
<1>4. CASE Fetch
  <2>1. reading = "page" /\ AsksOrders /\ page >= 1 /\ page \in Nat /\ rows = <<>>
    BY <1>4 DEF Fetch, Reader, ReadTypes
  <2>2. UNCHANGED <<ask, page, shown>> /\ reading' \in {"items", "last", "done"}
    BY <1>4 DEF Fetch
  <2>3. \A i \in DOMAIN rows' : row[rows'[i]] # None
    <3>1. CASE rows' = ListOrders(ask.status)
      <4>1. rows' \in Seq(OrdersOf(ask.status))
        BY <2>1, <3>1, InvDated, ListFacts DEF OrdersInv, OrderTypes
      <4>2. \A i \in DOMAIN rows' : rows'[i] \in OrdersOf(ask.status)
        BY <4>1
      <4> QED
        BY <4>2 DEF OrdersOf, Matches
    <3>2. CASE rows' = rows
      BY <2>1, <3>2
    <3> QED
      BY <1>4, <3>1, <3>2 DEF Fetch
  <2>4. AsksOrders'
    BY <2>1, <2>2 DEF AsksOrders
  <2> QED
    BY <1>0, <2>1, <2>2, <2>3, <2>4 DEF Reader
<1>5. CASE FetchItems
  <2>1. rows \in Seq(Orders) /\ rows # <<>> /\ rows' = Tail(rows)
    BY <1>5 DEF FetchItems, ReadTypes
  <2>2. Range(rows) = Range(rows') \cup {Head(rows)}
    BY <2>1, TailFacts
  <2>3. \A q \in Range(rows) : row[q] # None
    BY DEF Reader, Range
  <2>4. \A i \in DOMAIN rows' : row[rows'[i]] # None
    BY <2>2, <2>3 DEF Range
  <2>5. \A s \in shown' : s \in shown \/ s.order = Head(rows)
    BY <1>5 DEF FetchItems, Shown
  <2>6. \A s \in shown' : row[s.order] # None
    BY <2>2, <2>3, <2>5 DEF Reader
  <2>7. reading \in {"items", "last"} /\ UNCHANGED <<reading, ask, page>>
    BY <1>5 DEF FetchItems
  <2> QED
    BY <1>0, <2>4, <2>6, <2>7 DEF Reader, AsksOrders
<1>6. CASE NextPage
  <2>1. /\ rows = <<>> /\ UNCHANGED <<ask, rows, shown>>
        /\ \/ reading = "items" /\ page' = page + 1 /\ reading' = "count"
           \/ reading = "last" /\ reading' = "walked" /\ page' = page
    BY <1>6 DEF NextPage
  <2>2. AsksOrders' <=> AsksOrders
    BY <2>1 DEF AsksOrders
  <2>3. page \in Nat
    BY DEF ReadTypes
  <2>4. reading = "last" => ask \in Asks
    BY DEF Reader, AsksOrders, Asks
  <2> QED
    BY <1>0, <2>1, <2>2, <2>3, <2>4 DEF Reader
<1>7. ASSUME NEW limit \in 1 .. Cardinality(Offers), NEW skip \in 0 .. Cardinality(Offers), ListDeals(limit, skip)
      PROVE  Reader'
  <2>1. /\ ask' = [what |-> "deals", limit |-> limit, skip |-> skip] /\ reading' = "deals"
        /\ UNCHANGED <<rows, shown>>
    BY <1>7 DEF ListDeals, AskFor, listVars
  <2>2. limit \in Nat /\ skip \in Nat
    OBVIOUS
  <2>3. AsksDeals' /\ ~AsksOrders'
    BY <2>1, <2>2 DEF AsksDeals, AsksOrders
  <2> QED
    BY <1>0, <2>1, <2>3 DEF Reader
<1>8. CASE CountDeals
  BY <1>0, <1>8 DEF CountDeals, listVars, Reader, AsksOrders, AsksDeals
<1> QED
  BY <1>1, <1>2, <1>3, <1>4, <1>5, <1>6, <1>7, <1>8 DEF Read

\* The items shown of an order are all of its items.
LEMMA ShownWholeNext ==
  ASSUME OrdersInv, ReadTypes, Reader, ShownWhole, Read
  PROVE  ShownWhole'
<1>0. UNCHANGED cart
  BY ReadTimeFrame DEF orderVars
<1>1. CASE FetchItems
  <2> DEFINE o == Head(rows)
  <2>1. rows \in Seq(Orders) /\ rows # <<>>
    BY <1>1 DEF FetchItems, ReadTypes
  <2>2. o \in Orders /\ o \in Range(rows)
    BY <2>1, TailFacts
  <2>3. row[o] # None
    BY <2>2 DEF Reader, Range
  <2>4. items[o] = Subtotals(o) /\ Len(units[o]) = Len(cart[o])
    BY <2>2, <2>3 DEF OrdersInv, OneAmount, InOnePlace, Priced
  <2>5. Len(units[o]) <= Len(cart[o])
    BY <2>2 DEF OrdersInv, Staged
  <2>6. Len(items[o]) = Len(cart[o])
    BY <2>2, <2>4, <2>5, SubtotalsType DEF OrdersInv
  <2> HIDE DEF o
  <2>7. \A s \in shown' :
          \/ s \in shown
          \/ s = Shown(o, items[o])
          \/ ask.what = "orders" /\ s = Shown(o, <<>>)
    BY <1>1 DEF FetchItems, o
  <2>8. ask' = ask
    BY <1>1 DEF FetchItems
  <2> QED
    BY <1>0, <2>6, <2>7, <2>8 DEF ShownWhole, Shown
<1>2. ASSUME AskFor(ask', reading'), UNCHANGED shown PROVE ShownWhole'
  BY <1>2 DEF AskFor, Reader, ShownWhole
<1>3. ASSUME UNCHANGED <<ask, shown>> PROVE ShownWhole'
  BY <1>0, <1>3 DEF ShownWhole
<1>4. ASSUME NEW o \in Orders, GetOrder(o) PROVE ShownWhole'
  BY <1>2, <1>4 DEF GetOrder, AskFor
<1>5. ASSUME NEW status, StartWalk(status) PROVE ShownWhole'
  BY <1>2, <1>5 DEF StartWalk, AskFor
<1>6. ASSUME NEW limit, NEW skip, ListDeals(limit, skip) PROVE ShownWhole'
  BY <1>2, <1>6 DEF ListDeals, AskFor, listVars
<1>7. Count \/ Fetch \/ NextPage \/ CountDeals => UNCHANGED <<ask, shown>>
  BY DEF Count, Fetch, NextPage, CountDeals, listVars
<1> QED
  BY <1>1, <1>3, <1>4, <1>5, <1>6, <1>7 DEF Read

\* Nobody is missed: who is not on the pages up to this one has a rank beyond
\* them, and the last page is the one that no rank is beyond.
LEMMA WalkNext ==
  ASSUME OrdersInv, ReadTypes, Reader, Walk, Read
  PROVE  Walk'
<1>0. \A c : OrdersOf(c)' = OrdersOf(c) /\ \A o : Rank(o, c)' = Rank(o, c)
  BY ReadTimeFrame, SameLists
<1>1. ASSUME NEW o \in Orders, GetOrder(o) PROVE Walk'
  <2>1. ask' = [what |-> "order", order |-> o]
    BY <1>1 DEF GetOrder, AskFor
  <2>2. ~AsksOrders'
    BY <2>1 DEF AsksOrders
  <2> QED
    BY <2>2 DEF Walk
<1>2. ASSUME NEW status \in Statuses \cup {None}, StartWalk(status) PROVE Walk'
  <2>1. /\ ask'.status = status /\ page' = 1 /\ before' = OrdersOf(status) /\ reading' = "count"
    BY <1>2 DEF StartWalk, AskFor
  <2>2. (page' - 1) * PageSize = 0
    BY <2>1, NumberAssumption
  <2>3. \A o \in before' : 0 <= Rank(o, status)
    <3>1. created \in Seq(Orders) /\ IsInjective(created) /\ Dated(status)
      BY InvDated DEF OrdersInv, OrderTypes
    <3>2. \A o \in OrdersOf(status) : Rank(o, status) \in 0 .. Cardinality(OrdersOf(status)) - 1
      BY <3>1, RankFacts
    <3>3. Cardinality(OrdersOf(status)) \in Nat
      BY ListFinite
    <3> QED
      BY <2>1, <3>2, <3>3
  <2> QED
    BY <1>0, <2>1, <2>2, <2>3 DEF Walk
<1>3. CASE Count
  <2>1. UNCHANGED <<ask, page, rows, shown, before>> /\ reading = "count"
    BY <1>3 DEF Count
  <2>2. \/ reading' = "page" /\ total' = Cardinality(OrdersOf(ask.status))
        \/ reading' = "done"
    BY <1>3 DEF Count, CountOrders
  <2>3. (AsksOrders' <=> AsksOrders) /\ Passed' = Passed
    BY <2>1 DEF AsksOrders, Passed
  <2>4. Cardinality(OrdersOf(ask.status)) \in Nat
    BY ListFinite
  <2> QED
    BY <1>0, <2>1, <2>2, <2>3, <2>4 DEF Walk
<1>4. CASE Fetch
  <2>1. /\ UNCHANGED <<ask, page, shown, before>> /\ reading = "page" /\ rows = <<>>
        /\ AsksOrders /\ page \in Nat /\ page >= 1
    BY <1>4 DEF Fetch, Reader, ReadTypes
  <2> DEFINE c == ask.status
             n == Cardinality(OrdersOf(c))
  <2>2. SUFFICES ASSUME c \in Lasting PROVE Walk'
    BY <2>1 DEF Walk
  <2>3. before \subseteq OrdersOf(c) /\ \A o \in before : o \in Passed \/ Offset <= Rank(o, c)
    BY <2>1, <2>2 DEF Walk, Offset
  <2>4. CASE reading' = "done"
    BY <1>0, <2>1, <2>3, <2>4 DEF Walk
  <2>5. CASE reading' \in {"items", "last"}
    <3>1. rows' = ListOrders(c) /\ reading' = IF Len(rows') = PageSize THEN "items" ELSE "last"
      BY <1>4, <2>5 DEF Fetch
    <3>2. created \in Seq(Orders) /\ IsInjective(created) /\ Dated(c)
      BY InvDated DEF OrdersInv, OrderTypes
    <3>3. /\ Len(rows') \in Nat /\ Len(rows') <= PageSize
          /\ Len(rows') = PageSize \/ Len(rows') >= n - Offset
          /\ \A o \in OrdersOf(c) : Offset <= Rank(o, c) /\ Rank(o, c) < Offset + PageSize => o \in Range(rows')
      BY <2>1, <3>1, <3>2, ListFacts
    <3>4. \A o \in OrdersOf(c) : Rank(o, c) \in 0 .. n - 1
      BY <3>2, RankFacts
    <3>5. n \in Nat /\ PageSize \in Nat /\ Offset \in Nat /\ Offset + PageSize = page * PageSize
      BY <2>1, ListFinite, NumberAssumption, OffsetType
    <3>6. Passed = {s.order : s \in shown} /\ Passed' = Range(rows') \cup {s.order : s \in shown}
      BY <2>1 DEF Passed, Range
    <3> HIDE DEF n
    <3>7. ASSUME NEW o \in before, o \notin Passed' PROVE reading' = "items" /\ page * PageSize <= Rank(o, c)
      <4>1. o \in OrdersOf(c) /\ Offset <= Rank(o, c) /\ o \notin Range(rows')
        BY <2>3, <3>6, <3>7
      <4>2. Rank(o, c) \in 0 .. n - 1 /\ ~(Rank(o, c) < Offset + PageSize)
        BY <3>3, <3>4, <4>1
      <4>3. page * PageSize <= Rank(o, c)
        BY <3>5, <4>2
      <4>4. Len(rows') = PageSize
        BY <3>3, <3>5, <4>2
      <4> QED
        BY <3>1, <4>3, <4>4
    <3> QED
      BY <1>0, <2>1, <2>3, <2>5, <3>7 DEF Walk
  <2> QED
    BY <1>4, <2>4, <2>5 DEF Fetch
<1>5. CASE FetchItems
  <2>1. UNCHANGED <<reading, ask, page, before>> /\ reading \in {"items", "last"} /\ rows \in Seq(Orders) /\ rows # <<>> /\ rows' = Tail(rows)
    BY <1>5 DEF FetchItems, ReadTypes
  <2>2. SUFFICES ASSUME AsksOrders PROVE Walk'
    BY <2>1 DEF Walk, AsksOrders
  <2>3. ask.what = "orders"
    BY <2>2 DEF AsksOrders
  <2>4. PICK itemRows : shown' = shown \cup {Shown(Head(rows), itemRows)}
    BY <1>5, <2>3 DEF FetchItems
  <2>5. Range(rows) = Range(rows') \cup {Head(rows)}
    BY <2>1, TailFacts
  <2>6. Passed' = Passed
    <3>1. Shown(Head(rows), itemRows).order = Head(rows)
      BY DEF Shown
    <3>2. {s.order : s \in shown'} = {s.order : s \in shown} \cup {Head(rows)}
      BY <2>4, <3>1
    <3> QED
      BY <2>5, <3>2 DEF Passed
  <2> QED
    BY <1>0, <2>1, <2>2, <2>6 DEF Walk
<1>6. CASE NextPage
  <2>1. /\ rows = <<>> /\ UNCHANGED <<ask, rows, shown, before>>
        /\ \/ reading = "items" /\ page' = page + 1 /\ reading' = "count"
           \/ reading = "last" /\ reading' = "walked" /\ page' = page
    BY <1>6 DEF NextPage
  <2>2. (AsksOrders' <=> AsksOrders) /\ Passed' = Passed
    BY <2>1 DEF AsksOrders, Passed
  <2>3. page \in Nat /\ (page + 1) - 1 = page
    BY DEF ReadTypes
  <2> QED
    BY <1>0, <2>1, <2>2, <2>3 DEF Walk
<1>7. ASSUME NEW limit, NEW skip, ListDeals(limit, skip) PROVE Walk'
  <2>1. ask' = [what |-> "deals", limit |-> limit, skip |-> skip]
    BY <1>7 DEF ListDeals, AskFor
  <2>2. ~AsksOrders'
    BY <2>1 DEF AsksOrders
  <2> QED
    BY <2>2 DEF Walk
<1>8. CASE CountDeals
  <2>1. ask' = ask /\ ask \in [what: {"deals"}, limit: Nat, skip: Nat]
    BY <1>8 DEF CountDeals, Reader, AsksDeals
  <2>2. ~AsksOrders'
    BY <2>1 DEF AsksOrders
  <2> QED
    BY <2>2 DEF Walk
<1> QED
  BY <1>1, <1>2, <1>3, <1>4, <1>5, <1>6, <1>7, <1>8 DEF Read

\* A page of deals lies within the deals active at the time it is asked for,
\* and that time is the one of the count.
LEMMA DealsPageNext ==
  ASSUME DealsTypeOK, ReadTypes, Reader, DealsPage, Read
  PROVE  DealsPage' /\ ActiveTotalCoversPage'
<1>1. ASSUME NEW limit \in 1 .. Cardinality(Offers), NEW skip \in 0 .. Cardinality(Offers), ListDeals(limit, skip)
      PROVE  DealsPage' /\ ActiveTotalCoversPage'
  <2>1. /\ ask'.skip = skip /\ at' = now /\ reading' = "deals" /\ deals' = deals
        /\ listed' \in ActivePages(now, limit, skip)
    BY <1>1 DEF ListDeals, AskFor, dealVars
  <2> DEFINE n == Cardinality(Active(now))
  <2>2. n \in Nat /\ IsFiniteSet(Active(now))
    BY ActiveFinite
  <2>3. listed' \in SUBSET Active(now)
    BY <2>1 DEF ActivePages
  <2>4. Cardinality(listed') = LET rest == n - skip IN IF rest < 0 THEN 0 ELSE IF rest < limit THEN rest ELSE limit
    BY <2>1 DEF ActivePages
  <2>5. IsFiniteSet(listed')
    BY <2>2, <2>3, FS_Subset
  <2>6. listed' = {} \/ Cardinality(listed') # 0
    BY <2>5, FS_EmptySet
  <2> HIDE DEF n
  <2>7. listed' = {} \/ skip + Cardinality(listed') <= n
    BY <2>2, <2>4, <2>6
  <2>8. Active(at)' = Active(now)
    BY <2>1 DEF Active
  <2> QED
    BY <2>1, <2>7, <2>8 DEF DealsPage, ActiveTotalCoversPage, n
<1>2. CASE CountDeals
  <2>1. /\ reading = "deals" /\ UNCHANGED <<ask, at, listed, deals>>
        /\ \/ reading' = "listed" /\ total' = Cardinality(Active(at))
           \/ reading' = "done"
    BY <1>2 DEF CountDeals, CountActiveDeals, dealVars
  <2>2. Active(at)' = Active(at)
    BY <2>1 DEF Active
  <2> QED
    BY <2>1, <2>2 DEF DealsPage, ActiveTotalCoversPage
<1>3. ASSUME reading' \notin {"deals", "listed"} PROVE DealsPage' /\ ActiveTotalCoversPage'
  BY <1>3 DEF DealsPage, ActiveTotalCoversPage
<1>4. ASSUME NEW o, GetOrder(o) PROVE reading' \notin {"deals", "listed"}
  BY <1>4 DEF GetOrder, AskFor
<1>5. ASSUME NEW status, StartWalk(status) PROVE reading' \notin {"deals", "listed"}
  BY <1>5 DEF StartWalk, AskFor
<1>6. Count \/ Fetch \/ FetchItems \/ NextPage => reading' \notin {"deals", "listed"}
  BY DEF Count, Fetch, FetchItems, NextPage
<1> QED
  BY <1>1, <1>2, <1>3, <1>4, <1>5, <1>6 DEF Read

-----------------------------------------------------------------------------
(***************************************************************************)
(* The theorems.                                                           *)
(***************************************************************************)
LEMMA InitInv == Init => IInv
BY ReadInit, OrdersInit, InvParts

LEMMA NextInv == IInv /\ [Next]_vars => IInv'
<1> SUFFICES ASSUME IInv, [Next]_vars PROVE IInv'
  OBVIOUS
<1>1. DealsTypeOK /\ DealsValid /\ OrdersInv /\ ReadInv
  BY InvParts
<1>2. DealsTypeOK' /\ DealsValid' /\ OrdersInv'
  BY <1>1, DealsNext, OrdersNext
<1>3. ReadInv'
  <2>1. CASE Read
    <3>1. ReadTypes'
      BY <1>1, <2>1, ReadTypesNext DEF ReadInv
    <3>2. Reader' /\ ShownWhole' /\ Walk'
      BY <1>1, <2>1, ReaderNext, ShownWholeNext, WalkNext DEF ReadInv
    <3>3. DealsPage' /\ ActiveTotalCoversPage'
      BY <1>1, <2>1, DealsPageNext DEF ReadInv
    <3> QED
      BY <3>1, <3>2, <3>3 DEF ReadInv
  <2>2. CASE UNCHANGED readVars
    BY <1>1, <2>2, ReadKept
  <2>3. ASSUME NEW o \in Orders, Place(o) \/ ConfirmOrder(o) \/ CancelOrder(o) PROVE UNCHANGED readVars
    BY <2>3 DEF Place, Begin, Price, Refuse, Deduct, BeginOrder, WriteOrder, Enqueue, ConfirmOrder, CancelOrder, SetStatus
  <2>4. Dequeue \/ ProcessOrder \/ Time \/ UNCHANGED vars => UNCHANGED readVars
    BY DEF Dequeue, ProcessOrder, Time, vars
  <2> QED
    BY <2>1, <2>2, <2>3, <2>4 DEF Next
<1> QED
  BY <1>2, <1>3, InvParts, PTL

\* The inductive invariant holds of every state, whatever is placed, written,
\* cancelled and read meanwhile.
THEOREM Invariance == Spec => []IInv
BY InitInv, NextInv, PTL DEF Spec

\* Every variable keeps to its type: no row holds a negative amount.
THEOREM TypeCorrect == Spec => []TypeOK
<1>1. IInv => TypeOK
  BY DEF IInv
<1> QED
  BY <1>1, Invariance, PTL

\* One order has one price: row, items and answer agree, whoever writes it.
THEOREM OnePrice == Spec => []AmountsAgree
<1>1. IInv => AmountsAgree
  <2> SUFFICES ASSUME IInv, NEW o \in Orders, row[o] # None
               PROVE  /\ row[o].total = SumOf(items[o])
                      /\ answer[o] # None => answer[o] = [total |-> row[o].total, items |-> items[o]]
    BY DEF AmountsAgree
  <2> QED
    BY DEF IInv, OneAmount, Amounts, TotalAmount
<1> QED
  BY <1>1, Invariance, PTL

\* An order is shown with all of its items.
THEOREM WholeOrders == Spec => []ShownWhole
<1>1. IInv => ShownWhole
  BY DEF IInv
<1> QED
  BY <1>1, Invariance, PTL

\* A walk through all pages shows every order there was when it began, for any
\* size of a page and any number of orders placed and cancelled on the way.
THEOREM NothingMissed == Spec => []WalkMissesNothing
<1>1. IInv => WalkMissesNothing
  <2> SUFFICES ASSUME IInv, reading = "walked", ask.what = "orders", ask.status \in Lasting
               PROVE  before \subseteq {s.order : s \in shown}
    BY DEF WalkMissesNothing
  <2>1. Reader /\ Walk
    BY DEF IInv
  <2>2. ask \in Asks /\ rows = <<>>
    BY <2>1 DEF Reader
  <2>3. AsksOrders
    BY <2>2 DEF Asks, AsksOrders
  <2>4. before \subseteq Passed
    BY <2>1, <2>3 DEF Walk
  <2> QED
    BY <2>2, <2>4 DEF Passed, Range
<1> QED
  BY <1>1, Invariance, PTL

\* A page is as long as the total counted before it promises.
THEOREM PageFull == Spec => PageNotShort
<1>1. ASSUME IInv, Next, reading = "page", reading' \in {"items", "last"}, ask.status \in Lasting
      PROVE  Len(rows') >= Min({PageSize, total - Offset})
  <2>1. OrdersInv /\ ReadTypes /\ Reader /\ Walk
    BY <1>1, InvParts DEF ReadInv
  <2>2. Fetch
    <3>1. ASSUME NEW o \in Orders, Place(o) \/ ConfirmOrder(o) \/ CancelOrder(o) PROVE UNCHANGED reading
      BY <3>1 DEF Place, Begin, Price, Refuse, Deduct, BeginOrder, WriteOrder, Enqueue,
                  ConfirmOrder, CancelOrder, SetStatus, readVars
    <3>2. Dequeue \/ ProcessOrder \/ Time => UNCHANGED reading
      BY DEF Dequeue, ProcessOrder, Time, readVars
    <3>3. Read => Fetch
      BY <1>1 DEF Read, GetOrder, StartWalk, AskFor, Count, FetchItems, NextPage, ListDeals, CountDeals
    <3> QED
      BY <1>1, <3>1, <3>2, <3>3 DEF Next
  <2> DEFINE c == ask.status
             n == Cardinality(OrdersOf(c))
  <2>3. AsksOrders /\ page \in Nat /\ page >= 1 /\ total \in Nat /\ total <= n
    BY <1>1, <2>1 DEF Reader, ReadTypes, Walk
  <2>4. rows' = ListOrders(c)
    BY <1>1, <2>2 DEF Fetch
  <2>5. created \in Seq(Orders) /\ IsInjective(created) /\ Dated(c)
    BY <2>1, InvDated DEF OrdersInv, OrderTypes
  <2>6. Len(rows') \in Nat /\ (Len(rows') = PageSize \/ Len(rows') >= n - Offset)
    BY <2>3, <2>4, <2>5, ListFacts
  <2>7. n \in Nat /\ Offset \in Nat /\ PageSize \in Nat
    BY <2>3, ListFinite, OffsetType, NumberAssumption
  <2>8. Min({PageSize, total - Offset}) = IF PageSize <= total - Offset THEN PageSize ELSE total - Offset
    <3>1. PageSize \in Int /\ total - Offset \in Int
      BY <2>3, <2>7
    <3> QED
      BY <3>1, MinOfTwo
  <2> HIDE DEF n
  <2> QED
    BY <2>3, <2>6, <2>7, <2>8
<1>2. IInv /\ [Next]_vars =>
        [(reading = "page" /\ reading' \in {"items", "last"} /\ ask.status \in Lasting)
           => Len(rows') >= Min({PageSize, total - Offset})]_vars
  BY <1>1
<1> QED
  BY <1>2, Invariance, PTL DEF Spec, PageNotShort

\* The total of the active deals covers their page, for any deals.
THEOREM ActiveTotalCovers == Spec => []ActiveTotalCoversPage
<1>1. IInv => ActiveTotalCoversPage
  BY DEF IInv
<1> QED
  BY <1>1, Invariance, PTL
=============================================================================
