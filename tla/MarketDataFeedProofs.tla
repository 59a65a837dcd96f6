------------------------- MODULE MarketDataFeedProofs -------------------------
(***************************************************************************)
(* Proofs about the live feed, for any instruments, ids, prices and        *)
(* quantities, any queue, batch and number of events, and a network that   *)
(* loses, repeats and reorders datagrams as it likes.                      *)
(*                                                                         *)
(* The argument: what is under way is nothing but events that happened,    *)
(* each under its own number (UnderWay), and each could be announced when  *)
(* it was (Announced).  A trader's book keeps its index and its levels     *)
(* naming the same orders, whatever it is told (Consistent, BookFollows);  *)
(* told an event that could be announced to the orders it holds, it        *)
(* refuses nothing and moves as the exchange does.  A frame that the       *)
(* validator finds in order is the next event or the first one received,   *)
(* so that a subscriber which has counted no failure has applied all       *)
(* events since (HolesAreCounted), and one that was there from event 1     *)
(* holds what rests at the exchange after the last it applied (Mirrored).  *)
(* OrdersAfter is a recursive function: its equations are proved first, by *)
(* the smallest number at which they could fail.                           *)
(***************************************************************************)
EXTENDS MarketDataFeed, CommonLemmas
-----------------------------------------------------------------------------
(***************************************************************************)
(* The sender's view, event by event.                                      *)
(***************************************************************************)
\* What event e does to the orders of instrument i.
Moved(orders, e, i) == IF e.instrument = i THEN AfterEvent(orders, e) ELSE orders

\* One unfolding of the recursion behind OrdersAfter.
Course(feed, n, i, g) ==
  [k \in 0..n |-> IF k = 0 THEN {} ELSE Moved(g[k - 1], feed[k], i)]

\* OrdersAfter picks a solution of its recursion.
LEMMA OrdersAfterDef ==
  ASSUME NEW feed, NEW n, NEW i
  PROVE  OrdersAfter(feed, n, i) = (CHOOSE g : g = Course(feed, n, i, g))[n]
  BY DEF OrdersAfter, Course, Moved

\* A set of numbers that is not empty has a smallest member.
LEMMA SmallestNumber ==
  ASSUME NEW T, T \subseteq Nat, T # {}
  PROVE  \E n \in T : \A m \in T : n <= m
<1>1. PICK n \in T : \A m \in T : ~(<<m, n>> \in OpToRel(<, Nat))
  BY NatLessThanWellFounded, WFMin
<1>2. \A m \in T : n <= m
  <2> TAKE m \in T
  <2>1. ~(m < n)
    BY <1>1 DEF OpToRel
  <2> QED
    BY <2>1
<1> QED
  BY <1>2

\* The recursion has a solution, of any length.
LEMMA CourseExists ==
  ASSUME NEW feed, NEW i, NEW n \in Nat
  PROVE  \E g : g = Course(feed, n, i, g)
<1> DEFINE Has(k) == \E g : g = Course(feed, k, i, g)
           T == {k \in Nat : ~Has(k)}
<1> SUFFICES ASSUME T # {} PROVE FALSE
  OBVIOUS
<1>1. PICK m \in T : \A k \in T : m <= k
  <2>1. T \subseteq Nat
    OBVIOUS
  <2> HIDE DEF T
  <2> QED BY <2>1, SmallestNumber
<1>2. CASE m = 0
  <2> DEFINE G == [k \in 0..0 |-> {}]
  <2>1. G = Course(feed, 0, i, G)
    BY DEF Course
  <2> HIDE DEF G
  <2>2. Has(0)
    BY <2>1
  <2> QED BY <1>1, <1>2, <2>2
<1>3. CASE m # 0
  <2>1. m - 1 \in Nat /\ m \in Nat /\ ~(m <= m - 1)
    BY <1>3
  <2>2. PICK g : g = Course(feed, m - 1, i, g)
    BY <1>1, <2>1
  <2> DEFINE G == [k \in 0..m |-> IF k < m THEN g[k] ELSE Moved(g[m - 1], feed[m], i)]
  <2>3. ASSUME NEW k \in 0..m
        PROVE  G[k] = Course(feed, m, i, G)[k]
    <3>1. CASE k = 0
      BY <2>1, <2>2, <3>1 DEF Course
    <3>2. CASE k # 0 /\ k < m
      <4>1. k \in 0..(m - 1) /\ k - 1 \in 0..(m - 1) /\ k - 1 < m /\ k - 1 \in 0..m
        BY <2>1, <3>2
      <4>2. g[k] = Moved(g[k - 1], feed[k], i)
        BY <2>2, <3>2, <4>1 DEF Course
      <4>3. G[k] = g[k] /\ G[k - 1] = g[k - 1]
        BY <3>2, <4>1
      <4>4. Course(feed, m, i, G)[k] = Moved(G[k - 1], feed[k], i)
        <5> HIDE DEF G
        <5> QED BY <3>2 DEF Course
      <4> QED BY <4>2, <4>3, <4>4
    <3>3. CASE k = m
      <4>1. k - 1 \in 0..m /\ k - 1 < m /\ k # 0
        BY <2>1, <3>3
      <4>2. G[k] = Moved(g[k - 1], feed[k], i) /\ G[k - 1] = g[k - 1]
        BY <3>3, <4>1
      <4>3. Course(feed, m, i, G)[k] = Moved(G[k - 1], feed[k], i)
        <5> HIDE DEF G
        <5> QED BY <4>1 DEF Course
      <4> QED BY <4>2, <4>3
    <3> QED BY <2>1, <3>1, <3>2, <3>3
  <2>4. G = Course(feed, m, i, G)
    <3>1. Course(feed, m, i, G) = [k \in 0..m |-> Course(feed, m, i, G)[k]]
      <4> HIDE DEF G
      <4> QED BY DEF Course
    <3> QED BY <2>3, <3>1
  <2>5. Has(m)
    <3> HIDE DEF G
    <3> QED BY <2>4
  <2> QED BY <1>1, <2>5
<1> QED
  BY <1>2, <1>3

\* Two courses agree as far as their feeds do.
LEMMA CoursesAgree ==
  ASSUME NEW f, NEW h, NEW i, NEW a \in Nat, NEW b \in Nat,
         NEW g, g = Course(f, a, i, g), NEW r, r = Course(h, b, i, r),
         NEW n \in Nat, n <= a, n <= b, \A k \in 1..n : f[k] = h[k]
  PROVE  g[n] = r[n]
<1> DEFINE T == {k \in 0..n : g[k] # r[k]}
<1> SUFFICES ASSUME T # {} PROVE FALSE
  OBVIOUS
<1>1. PICK m \in T : \A k \in T : m <= k
  <2>1. T \subseteq Nat
    OBVIOUS
  <2> HIDE DEF T
  <2> QED BY <2>1, SmallestNumber
<1>2. m \in 0..n /\ m \in 0..a /\ m \in 0..b /\ g[m] # r[m]
  BY <1>1
<1>3. m # 0
  <2>1. 0 \in 0..a /\ 0 \in 0..b
    OBVIOUS
  <2>2. g[0] = {} /\ r[0] = {}
    BY <2>1 DEF Course
  <2> QED BY <1>2, <2>2
<1>4. m - 1 \in 0..n /\ ~(m <= m - 1) /\ m \in 1..n
  BY <1>2, <1>3
<1>5. g[m - 1] = r[m - 1]
  BY <1>1, <1>4
<1>6. g[m] = Moved(g[m - 1], f[m], i)
  BY <1>2, <1>3 DEF Course
<1>7. r[m] = Moved(r[m - 1], h[m], i)
  BY <1>2, <1>3 DEF Course
<1>8. f[m] = h[m]
  BY <1>4
<1> QED
  BY <1>2, <1>5, <1>6, <1>7, <1>8

\* Nothing rests before the first event.
LEMMA OrdersAfterNone ==
  ASSUME NEW feed, NEW i
  PROVE  OrdersAfter(feed, 0, i) = {}
<1>1. PICK g : g = (CHOOSE r : r = Course(feed, 0, i, r))
  OBVIOUS
<1>2. g = Course(feed, 0, i, g)
  BY <1>1, CourseExists
<1>3. g[0] = {}
  <2>1. 0 \in 0..0
    OBVIOUS
  <2> QED BY <1>2, <2>1 DEF Course
<1> QED
  BY <1>1, <1>3, OrdersAfterDef

\* Every event moves the orders of its instrument.
LEMMA OrdersAfterNext ==
  ASSUME NEW feed, NEW i, NEW n \in Nat
  PROVE  OrdersAfter(feed, n + 1, i) = Moved(OrdersAfter(feed, n, i), feed[n + 1], i)
<1>1. PICK g : g = (CHOOSE r : r = Course(feed, n + 1, i, r))
  OBVIOUS
<1>2. PICK h : h = (CHOOSE r : r = Course(feed, n, i, r))
  OBVIOUS
<1>3. g = Course(feed, n + 1, i, g)
  BY <1>1, CourseExists
<1>4. h = Course(feed, n, i, h)
  BY <1>2, CourseExists
<1>5. g[n] = h[n]
  BY <1>3, <1>4, CoursesAgree
<1>6. g[n + 1] = Moved(g[n], feed[n + 1], i)
  <2>1. n + 1 \in 0..(n + 1) /\ n + 1 # 0 /\ (n + 1) - 1 = n
    OBVIOUS
  <2> QED BY <1>3, <2>1 DEF Course
<1>7. OrdersAfter(feed, n + 1, i) = g[n + 1]
  BY <1>1, OrdersAfterDef
<1>8. OrdersAfter(feed, n, i) = h[n]
  BY <1>2, OrdersAfterDef
<1> QED
  BY <1>5, <1>6, <1>7, <1>8

\* What rests after n events depends on no later one.
LEMMA OrdersAfterSame ==
  ASSUME NEW f, NEW h, NEW i, NEW n \in Nat, \A k \in 1..n : f[k] = h[k]
  PROVE  OrdersAfter(f, n, i) = OrdersAfter(h, n, i)
<1>1. PICK g : g = (CHOOSE r : r = Course(f, n, i, r))
  OBVIOUS
<1>2. PICK s : s = (CHOOSE r : r = Course(h, n, i, r))
  OBVIOUS
<1>3. g = Course(f, n, i, g)
  BY <1>1, CourseExists
<1>4. s = Course(h, n, i, s)
  BY <1>2, CourseExists
<1>5. g[n] = s[n]
  BY <1>3, <1>4, CoursesAgree
<1> QED
  BY <1>1, <1>2, <1>5, OrdersAfterDef
-----------------------------------------------------------------------------
(***************************************************************************)
(* The trader's book.  Consistent is what every book keeps, whatever it is *)
(* told; a level is looked at through the entries it holds.                *)
(***************************************************************************)
Entry == [id : OrderIds, quantity : Quantities]

Unique(line) == \A j, k \in DOMAIN line : line[j].id = line[k].id => j = k

Indexed(levels, index) ==
  /\ \A l \in Level : \A x \in Range(levels[l]) : x.id \in DOMAIN index /\ index[x.id] = l
  /\ \A id \in DOMAIN index : \E x \in Range(levels[index[id]]) : x.id = id

Consistent(book) ==
  /\ book \in Book
  /\ \A l \in Level : Unique(book.levels[l])
  /\ Indexed(book.levels, book.index)

\* The order that entry x of level l is.
OrderAt(l, x) ==
  [order_id |-> x.id, side |-> l[1], price |-> l[2], quantity |-> x.quantity]

\* The parts of a book.
LEMMA BookIs ==
  ASSUME NEW book \in Book
  PROVE  /\ book = [levels |-> book.levels, index |-> book.index]
         /\ book.levels \in [Level -> Seq(Entry)]
         /\ DOMAIN book.index \subseteq OrderIds
         /\ book.index \in [DOMAIN book.index -> Level]
<1>1. /\ book = [levels |-> book.levels, index |-> book.index]
      /\ book.levels \in [Level -> Seq(Entry)]
      /\ book.index \in UNION {[S -> Level] : S \in SUBSET OrderIds}
  BY DEF Book, Entry
<1>2. PICK S \in SUBSET OrderIds : book.index \in [S -> Level]
  BY <1>1, Zenon
<1> QED
  BY <1>1, <1>2

\* What it takes to be a book.
LEMMA BookOf ==
  ASSUME NEW levels \in [Level -> Seq(Entry)], NEW D \in SUBSET OrderIds,
         NEW index \in [D -> Level]
  PROVE  [levels |-> levels, index |-> index] \in Book
<1>1. index \in UNION {[S -> Level] : S \in SUBSET OrderIds}
  BY Zenon
<1> QED
  BY <1>1 DEF Book, Entry

\* The parts of one level.
LEMMA LevelIs ==
  ASSUME NEW book \in Book, NEW l \in Level
  PROVE  /\ book.levels[l] \in Seq(Entry)
         /\ DOMAIN book.levels[l] = 1..Len(book.levels[l])
         /\ Len(book.levels[l]) \in Nat
         /\ Range(book.levels[l]) \subseteq Entry
         /\ l[1] \in Sides /\ l[2] \in Prices /\ l = <<l[1], l[2]>>
<1>1. book.levels[l] \in Seq(Entry)
  BY BookIs
<1>2. l[1] \in Sides /\ l[2] \in Prices /\ l = <<l[1], l[2]>>
  BY DEF Level
<1> QED
  BY <1>1, <1>2 DEF Range

\* The two ways to say that an order is in the book.
LEMMA RestingIs ==
  ASSUME NEW book
  PROVE  RestingOrders(book) =
           UNION {{OrderAt(l, x) : x \in Range(book.levels[l])} : l \in Level}
  BY DEF RestingOrders, OrderAt, Range

\* An order rests exactly where an entry for it stands.
LEMMA RestsAt ==
  ASSUME NEW book
  PROVE  \A o : o \in RestingOrders(book) <=>
                  \E l \in Level : \E x \in Range(book.levels[l]) : o = OrderAt(l, x)
<1>1. ASSUME NEW o \in RestingOrders(book)
      PROVE  \E l \in Level : \E x \in Range(book.levels[l]) : o = OrderAt(l, x)
  BY RestingIs
<1>2. ASSUME NEW l \in Level, NEW x \in Range(book.levels[l])
      PROVE  OrderAt(l, x) \in RestingOrders(book)
  BY RestingIs
<1> QED
  BY <1>1, <1>2, Zenon

\* IndexMatchesLevels is the part of Consistent that is not a matter of types.
LEMMA ConsistentMatches ==
  ASSUME NEW book \in Book
  PROVE  IndexMatchesLevels(book) <=> Consistent(book)
  BY DEF IndexMatchesLevels, Consistent, Indexed, Unique, Range

\* The index names each resting order at its level, and nothing else.
LEMMA IndexedRests ==
  ASSUME NEW book, Consistent(book)
  PROVE  /\ \A o \in RestingOrders(book) :
              /\ o.order_id \in DOMAIN book.index
              /\ book.index[o.order_id] = <<o.side, o.price>>
         /\ \A id \in DOMAIN book.index :
              \E o \in RestingOrders(book) : o.order_id = id
<1>1. book \in Book
  BY DEF Consistent
<1>2. ASSUME NEW o \in RestingOrders(book)
      PROVE  /\ o.order_id \in DOMAIN book.index
             /\ book.index[o.order_id] = <<o.side, o.price>>
  <2>1. PICK l \in Level : \E x \in Range(book.levels[l]) : o = OrderAt(l, x)
    BY RestsAt
  <2>4. PICK x \in Range(book.levels[l]) : o = OrderAt(l, x)
    BY <2>1
  <2>2. o.order_id = x.id /\ o.side = l[1] /\ o.price = l[2]
    BY <2>4 DEF OrderAt
  <2>3. l = <<l[1], l[2]>>
    BY <1>1, LevelIs
  <2> QED BY <2>2, <2>3 DEF Consistent, Indexed
<1>3. ASSUME NEW id \in DOMAIN book.index
      PROVE  \E o \in RestingOrders(book) : o.order_id = id
  <2>1. PICK l \in Level : l = book.index[id]
    BY <1>1, BookIs
  <2>2. PICK x \in Range(book.levels[l]) : x.id = id
    BY <2>1 DEF Consistent, Indexed
  <2>3. OrderAt(l, x) \in RestingOrders(book)
    BY RestsAt
  <2>4. OrderAt(l, x).order_id = id
    BY <2>2 DEF OrderAt
  <2> QED BY <2>3, <2>4
<1> QED
  BY <1>2, <1>3

\* PriceLevel::add of an order that is new to the level.
LEMMA Appended ==
  ASSUME NEW line \in Seq(Entry), Unique(line), NEW x \in Entry,
         \A y \in Range(line) : y.id # x.id
  PROVE  /\ Append(line, x) \in Seq(Entry) /\ Unique(Append(line, x))
         /\ Range(Append(line, x)) = Range(line) \cup {x}
<1>1. PICK n \in Nat : n = Len(line) /\ DOMAIN line = 1..n
  OBVIOUS
<1>2. PICK s : s = Append(line, x)
  OBVIOUS
<1>3. /\ s \in Seq(Entry) /\ DOMAIN s = 1..(n + 1)
      /\ \A k \in 1..n : s[k] = line[k]
      /\ s[n + 1] = x
  BY <1>1, <1>2
<1>4. \A k \in 1..(n + 1) : k \in 1..n \/ k = n + 1
  BY <1>1
<1>5. Range(s) = Range(line) \cup {x}
  <2>1. Range(s) \subseteq Range(line) \cup {x}
    BY <1>1, <1>3, <1>4 DEF Range
  <2>2. Range(line) \subseteq Range(s)
    BY <1>1, <1>3 DEF Range
  <2>3. x \in Range(s)
    <3>1. n + 1 \in DOMAIN s
      BY <1>3
    <3> QED BY <1>3, <3>1 DEF Range
  <2> QED BY <2>1, <2>2, <2>3
<1>6. \A k \in 1..n : line[k].id # x.id
  BY <1>1 DEF Range
<1>7. Unique(s)
  <2> SUFFICES ASSUME NEW j \in 1..(n + 1), NEW k \in 1..(n + 1), s[j].id = s[k].id
               PROVE  j = k
    BY <1>3 DEF Unique
  <2>1. CASE j \in 1..n /\ k \in 1..n
    BY <1>1, <1>3, <2>1 DEF Unique
  <2>2. CASE j \in 1..n /\ k = n + 1
    BY <1>3, <1>6, <2>2
  <2>3. CASE j = n + 1 /\ k \in 1..n
    BY <1>3, <1>6, <2>3
  <2> QED BY <1>4, <2>1, <2>2, <2>3
<1> QED
  BY <1>2, <1>3, <1>5, <1>7

\* Taking an order out of its level leaves all others, and none twice.
LEMMA Removed ==
  ASSUME NEW line \in Seq(Entry), Unique(line), NEW p \in DOMAIN line
  PROVE  /\ RemoveAt(line, p) \in Seq(Entry) /\ Unique(RemoveAt(line, p))
         /\ Range(RemoveAt(line, p)) = {x \in Range(line) : x.id # line[p].id}
<1>1. PICK n \in Nat : n = Len(line) /\ DOMAIN line = 1..n /\ p \in 1..n
  OBVIOUS
<1>2. PICK before : before = SubSeq(line, 1, p - 1)
  OBVIOUS
<1>3. PICK after : after = SubSeq(line, p + 1, n)
  OBVIOUS
<1>4. /\ before \in Seq(Entry) /\ Len(before) = p - 1
      /\ \A j \in 1..(p - 1) : before[j] = line[j]
  BY <1>1, <1>2
<1>5. /\ after \in Seq(Entry) /\ Len(after) = n - p
      /\ \A j \in 1..(n - p) : after[j] = line[p + j]
  BY <1>1, <1>3
<1>6. PICK r : r = RemoveAt(line, p)
  OBVIOUS
<1>7. r = before \o after
  BY <1>1, <1>2, <1>3, <1>6 DEF RemoveAt
<1>8. r \in Seq(Entry) /\ Len(r) = n - 1 /\ DOMAIN r = 1..(n - 1)
  BY <1>1, <1>4, <1>5, <1>7
<1>9. \A j \in 1..(n - 1) : r[j] = line[IF j < p THEN j ELSE j + 1]
  <2> TAKE j \in 1..(n - 1)
  <2>1. CASE j < p
    <3>1. j \in 1..(p - 1)
      BY <1>1, <2>1
    <3>2. r[j] = before[j]
      BY <1>1, <1>4, <1>5, <1>7, <3>1
    <3> QED BY <1>4, <2>1, <3>1, <3>2
  <2>2. CASE ~(j < p)
    <3>1. j - (p - 1) \in 1..(n - p) /\ p + (j - (p - 1)) = j + 1
      BY <1>1, <2>2
    <3>2. r[j] = after[j - Len(before)]
      <4>1. j \in 1..(Len(before) + Len(after)) /\ ~(j <= Len(before))
        BY <1>1, <1>4, <1>5, <2>2
      <4> QED BY <1>4, <1>5, <1>7, <4>1, ConcatProperties
    <3> QED BY <1>4, <1>5, <2>2, <3>1, <3>2
  <2> QED
    BY <2>1, <2>2
<1> DEFINE from(j) == IF j < p THEN j ELSE j + 1
<1>10. \A j \in 1..(n - 1) : from(j) \in 1..n /\ from(j) # p
  BY <1>1
<1>11. \A j, k \in 1..(n - 1) : from(j) = from(k) => j = k
  BY <1>1
<1>12. \A k \in 1..n : k # p => \E j \in 1..(n - 1) : from(j) = k
  <2> SUFFICES ASSUME NEW k \in 1..n, k # p
               PROVE  \E j \in 1..(n - 1) : from(j) = k
    OBVIOUS
  <2>1. CASE k < p
    <3>1. k \in 1..(n - 1) /\ from(k) = k
      BY <1>1, <2>1
    <3> QED BY <3>1
  <2>2. CASE k > p
    <3>1. k - 1 \in 1..(n - 1) /\ from(k - 1) = k
      BY <1>1, <2>2
    <3> QED BY <3>1
  <2> QED BY <1>1, <2>1, <2>2
<1>13. \A j \in 1..(n - 1) : r[j] = line[from(j)]
  BY <1>9
<1> HIDE DEF from
<1>14. Unique(r)
  <2> SUFFICES ASSUME NEW j \in 1..(n - 1), NEW k \in 1..(n - 1), r[j].id = r[k].id
               PROVE  j = k
    BY <1>8 DEF Unique
  <2>1. line[from(j)].id = line[from(k)].id
    BY <1>13
  <2>2. from(j) = from(k)
    BY <1>1, <1>10, <2>1 DEF Unique
  <2> QED BY <1>11, <2>2
<1>15. Range(r) = {x \in Range(line) : x.id # line[p].id}
  <2>1. ASSUME NEW j \in 1..(n - 1)
        PROVE  r[j] \in Range(line) /\ r[j].id # line[p].id
    <3>1. from(j) \in DOMAIN line /\ from(j) # p /\ r[j] = line[from(j)]
      BY <1>1, <1>10, <1>13
    <3>2. line[from(j)].id # line[p].id
      BY <1>1, <3>1 DEF Unique
    <3> QED BY <3>1, <3>2 DEF Range
  <2>2. ASSUME NEW x \in Range(line), x.id # line[p].id
        PROVE  x \in Range(r)
    <3>1. PICK k \in 1..n : x = line[k]
      BY <1>1 DEF Range
    <3>2. k # p
      BY <2>2, <3>1
    <3>3. PICK j \in 1..(n - 1) : from(j) = k
      BY <1>12, <3>2
    <3>4. r[j] = x /\ j \in DOMAIN r
      BY <1>8, <1>13, <3>1, <3>3
    <3> QED BY <3>4 DEF Range
  <2>3. Range(r) \subseteq {x \in Range(line) : x.id # line[p].id}
    BY <1>8, <2>1 DEF Range
  <2> QED BY <2>2, <2>3
<1> QED
  BY <1>6, <1>8, <1>14, <1>15

\* insert_at of a new id keeps a book consistent and adds one order.
LEMMA Inserted ==
  ASSUME NEW book, Consistent(book), NEW side \in Sides, NEW price \in Prices,
         NEW id \in OrderIds, id \notin DOMAIN book.index, NEW quantity \in Quantities
  PROVE  /\ Consistent(InsertOrder(book, side, id, price, quantity))
         /\ RestingOrders(InsertOrder(book, side, id, price, quantity)) =
              RestingOrders(book)
                \cup {[order_id |-> id, side |-> side, price |-> price,
                       quantity |-> quantity]}
<1>1. PICK l : l = <<side, price>>
  OBVIOUS
<1>2. l \in Level /\ l[1] = side /\ l[2] = price
  BY <1>1 DEF Level
<1>3. PICK x \in Entry : x = [id |-> id, quantity |-> quantity]
  BY DEF Entry
<1>4. x.id = id /\ x.quantity = quantity
  BY <1>3
<1>5. PICK old : old = book.levels
  OBVIOUS
<1>6. PICK index : index = book.index
  OBVIOUS
<1>7. PICK levels : levels = [old EXCEPT ![l] = Append(old[l], x)]
  OBVIOUS
<1>8. PICK at : at = InsertOrAssign(index, id, l)
  OBVIOUS
<1>9. PICK new : new = InsertOrder(book, side, id, price, quantity)
  OBVIOUS
<1>10. new = [levels |-> levels, index |-> at]
  BY <1>1, <1>3, <1>5, <1>6, <1>7, <1>8, <1>9 DEF InsertOrder
<1>11. /\ old \in [Level -> Seq(Entry)] /\ DOMAIN index \subseteq OrderIds
       /\ index \in [DOMAIN index -> Level] /\ book \in Book
  BY <1>5, <1>6, BookIs DEF Consistent
<1>12. /\ \A k \in Level : Unique(old[k])
       /\ \A k \in Level : \A y \in Range(old[k]) : y.id \in DOMAIN index /\ index[y.id] = k
       /\ \A j \in DOMAIN index : \E y \in Range(old[index[j]]) : y.id = j
  BY <1>5, <1>6 DEF Consistent, Indexed
<1>13. /\ Append(old[l], x) \in Seq(Entry) /\ Unique(Append(old[l], x))
       /\ Range(Append(old[l], x)) = Range(old[l]) \cup {x}
  <2>1. \A y \in Range(old[l]) : y.id # x.id
    BY <1>2, <1>4, <1>6, <1>12
  <2>2. old[l] \in Seq(Entry) /\ Unique(old[l])
    BY <1>2, <1>11, <1>12
  <2> QED BY <2>1, <2>2, Appended
<1>14. /\ levels \in [Level -> Seq(Entry)]
       /\ levels[l] = Append(old[l], x)
       /\ \A k \in Level : k # l => levels[k] = old[k]
  BY <1>2, <1>7, <1>11, <1>13
<1>15. /\ DOMAIN at = DOMAIN index \cup {id} /\ at[id] = l
       /\ \A j \in DOMAIN index : at[j] = index[j]
       /\ at \in [DOMAIN index \cup {id} -> Level]
  BY <1>2, <1>6, <1>8, <1>11 DEF InsertOrAssign
<1>16. new \in Book
  <2>1. DOMAIN index \cup {id} \in SUBSET OrderIds
    BY <1>11
  <2> QED BY <1>10, <1>14, <1>15, <2>1, BookOf
<1>17. \A k \in Level : Unique(levels[k])
  BY <1>12, <1>13, <1>14
<1>18. \A k \in Level :
         /\ Range(old[k]) \subseteq Range(levels[k])
         /\ \A y \in Range(levels[k]) : y \in Range(old[k]) \/ (k = l /\ y = x)
  BY <1>13, <1>14
<1>19. Indexed(levels, at)
  <2>1. ASSUME NEW k \in Level, NEW y \in Range(levels[k])
        PROVE  y.id \in DOMAIN at /\ at[y.id] = k
    BY <1>4, <1>12, <1>15, <1>18
  <2>2. ASSUME NEW j \in DOMAIN at
        PROVE  \E y \in Range(levels[at[j]]) : y.id = j
    <3>1. CASE j \in DOMAIN index
      <4>1. PICK y \in Range(old[index[j]]) : y.id = j
        BY <1>12, <3>1
      <4>2. at[j] = index[j] /\ index[j] \in Level
        BY <1>11, <1>15, <3>1
      <4>3. y \in Range(levels[at[j]])
        BY <1>18, <4>1, <4>2
      <4> QED BY <4>1, <4>3
    <3>2. CASE j = id
      <4>1. at[j] = l /\ x \in Range(levels[l])
        BY <1>13, <1>14, <1>15, <3>2
      <4> QED BY <1>4, <3>2, <4>1
    <3> QED BY <1>15, <3>1, <3>2
  <2> QED BY <2>1, <2>2 DEF Indexed
<1>20. new.levels = levels /\ new.index = at
  BY <1>10
<1>21. Consistent(new)
  BY <1>16, <1>17, <1>19, <1>20 DEF Consistent
<1>22. OrderAt(l, x) = [order_id |-> id, side |-> side, price |-> price,
                        quantity |-> quantity]
  BY <1>2, <1>4 DEF OrderAt
<1>23. RestingOrders(new) = RestingOrders(book) \cup {OrderAt(l, x)}
  <2>1. ASSUME NEW o \in RestingOrders(new)
        PROVE  o \in RestingOrders(book) \/ o = OrderAt(l, x)
    <3>1. PICK k \in Level : \E y \in Range(levels[k]) : o = OrderAt(k, y)
      BY <1>20, RestsAt
    <3>2. PICK y \in Range(levels[k]) : o = OrderAt(k, y)
      BY <3>1
    <3>3. CASE y \in Range(old[k])
      BY <1>5, <3>2, <3>3, RestsAt
    <3> QED BY <1>18, <3>2, <3>3
  <2>2. ASSUME NEW o \in RestingOrders(book)
        PROVE  o \in RestingOrders(new)
    <3>1. PICK k \in Level : \E y \in Range(old[k]) : o = OrderAt(k, y)
      BY <1>5, RestsAt
    <3>2. PICK y \in Range(old[k]) : o = OrderAt(k, y)
      BY <3>1
    <3>3. y \in Range(levels[k])
      BY <1>18
    <3> QED BY <1>20, <3>2, <3>3, RestsAt
  <2>3. OrderAt(l, x) \in RestingOrders(new)
    <3>1. x \in Range(levels[l])
      BY <1>13, <1>14
    <3> QED BY <1>2, <1>20, <3>1, RestsAt
  <2> QED BY <2>1, <2>2, <2>3
<1> QED
  BY <1>9, <1>21, <1>22, <1>23

\* erase_at of a known id keeps a book consistent and takes out one order.
LEMMA Erased ==
  ASSUME NEW book, Consistent(book), NEW id \in DOMAIN book.index
  PROVE  /\ Consistent(EraseOrder(book, id))
         /\ DOMAIN EraseOrder(book, id).index = DOMAIN book.index \ {id}
         /\ RestingOrders(EraseOrder(book, id)) =
              {o \in RestingOrders(book) : o.order_id # id}
<1>1. PICK old : old = book.levels
  OBVIOUS
<1>2. PICK index : index = book.index
  OBVIOUS
<1>3. /\ old \in [Level -> Seq(Entry)] /\ DOMAIN index \subseteq OrderIds
      /\ index \in [DOMAIN index -> Level] /\ book \in Book
  BY <1>1, <1>2, BookIs DEF Consistent
<1>4. /\ \A k \in Level : Unique(old[k])
      /\ \A k \in Level : \A y \in Range(old[k]) : y.id \in DOMAIN index /\ index[y.id] = k
      /\ \A j \in DOMAIN index : \E y \in Range(old[index[j]]) : y.id = j
  BY <1>1, <1>2 DEF Consistent, Indexed
<1>5. PICK l \in Level : l = index[id]
  BY <1>2, <1>3
<1>6. PICK p : p = Position(old[l], id)
  OBVIOUS
<1>7. p \in DOMAIN old[l] /\ old[l][p].id = id
  <2>1. \E k \in DOMAIN old[l] : old[l][k].id = id
    BY <1>2, <1>4, <1>5 DEF Range
  <2> QED BY <1>6, <2>1 DEF Position
<1>8. PICK rest : rest = RemoveAt(old[l], p)
  OBVIOUS
<1>9. /\ rest \in Seq(Entry) /\ Unique(rest)
      /\ Range(rest) = {x \in Range(old[l]) : x.id # id}
  BY <1>3, <1>4, <1>7, <1>8, Removed
<1>10. PICK levels : levels = [old EXCEPT ![l] = rest]
  OBVIOUS
<1>11. PICK at : at = Erase(index, id)
  OBVIOUS
<1>12. PICK new : new = EraseOrder(book, id)
  OBVIOUS
<1>13. new = [levels |-> levels, index |-> at]
  BY <1>1, <1>2, <1>5, <1>6, <1>8, <1>10, <1>11, <1>12 DEF EraseOrder
<1>14. /\ levels \in [Level -> Seq(Entry)] /\ levels[l] = rest
       /\ \A k \in Level : k # l => levels[k] = old[k]
  BY <1>3, <1>9, <1>10
<1>15. /\ DOMAIN at = DOMAIN index \ {id}
       /\ \A j \in DOMAIN index \ {id} : at[j] = index[j]
       /\ at \in [DOMAIN index \ {id} -> Level]
  BY <1>3, <1>11 DEF Erase
<1>16. new \in Book
  <2>1. DOMAIN index \ {id} \in SUBSET OrderIds
    BY <1>3
  <2> QED BY <1>13, <1>14, <1>15, <2>1, BookOf
<1>17. \A k \in Level : Unique(levels[k])
  BY <1>4, <1>9, <1>14
<1>18. \A k \in Level : Range(levels[k]) = {x \in Range(old[k]) : x.id # id}
  <2> TAKE k \in Level
  <2>1. CASE k = l
    BY <1>9, <1>14, <2>1
  <2>2. CASE k # l
    <3>1. \A x \in Range(old[k]) : x.id # id
      BY <1>4, <1>5, <2>2
    <3> QED BY <1>14, <2>2, <3>1
  <2> QED BY <2>1, <2>2
<1>19. Indexed(levels, at)
  <2>1. ASSUME NEW k \in Level, NEW y \in Range(levels[k])
        PROVE  y.id \in DOMAIN at /\ at[y.id] = k
    <3>1. y \in Range(old[k]) /\ y.id # id
      BY <1>18
    <3> QED BY <1>4, <1>15, <3>1
  <2>2. ASSUME NEW j \in DOMAIN at
        PROVE  \E y \in Range(levels[at[j]]) : y.id = j
    <3>1. j \in DOMAIN index /\ j # id /\ at[j] = index[j] /\ index[j] \in Level
      BY <1>3, <1>15
    <3>2. PICK y \in Range(old[index[j]]) : y.id = j
      BY <1>4, <3>1
    <3>3. y \in Range(levels[at[j]])
      BY <1>18, <3>1, <3>2
    <3> QED BY <3>2, <3>3
  <2> QED BY <2>1, <2>2 DEF Indexed
<1>20. new.levels = levels /\ new.index = at
  BY <1>13
<1>21. Consistent(new)
  BY <1>16, <1>17, <1>19, <1>20 DEF Consistent
<1>22. RestingOrders(new) = {o \in RestingOrders(book) : o.order_id # id}
  <2>1. ASSUME NEW o \in RestingOrders(new)
        PROVE  o \in RestingOrders(book) /\ o.order_id # id
    <3>1. PICK k \in Level : \E y \in Range(levels[k]) : o = OrderAt(k, y)
      BY <1>20, RestsAt
    <3>2. PICK y \in Range(levels[k]) : o = OrderAt(k, y)
      BY <3>1
    <3>3. y \in Range(old[k]) /\ y.id # id
      BY <1>18
    <3>4. o.order_id = y.id
      BY <3>2 DEF OrderAt
    <3> QED BY <1>1, <3>2, <3>3, <3>4, RestsAt
  <2>2. ASSUME NEW o \in RestingOrders(book), o.order_id # id
        PROVE  o \in RestingOrders(new)
    <3>1. PICK k \in Level : \E y \in Range(old[k]) : o = OrderAt(k, y)
      BY <1>1, RestsAt
    <3>2. PICK y \in Range(old[k]) : o = OrderAt(k, y)
      BY <3>1
    <3>3. o.order_id = y.id
      BY <3>2 DEF OrderAt
    <3>4. y \in Range(levels[k])
      BY <1>18, <2>2, <3>3
    <3> QED BY <1>20, <3>2, <3>4, RestsAt
  <2> QED BY <2>1, <2>2
<1> QED
  BY <1>2, <1>12, <1>15, <1>20, <1>21, <1>22
-----------------------------------------------------------------------------
(***************************************************************************)
(* Events, the frames that carry them, and what they do to a book.         *)
(***************************************************************************)
Additions ==
  [type : {"AddOrder"}, instrument : Instruments, order_id : OrderIds,
   side : Sides, price : Prices, quantity : Quantities]

Reductions ==
  [type : {"ModifyOrder"}, instrument : Instruments, order_id : OrderIds,
   price : Prices, quantity : Quantities]

Removals == [type : {"CancelOrder"}, instrument : Instruments, order_id : OrderIds]

Executions ==
  [type : {"Trade"}, instrument : Instruments, price : Prices, quantity : Quantities]

Events == Additions \cup Reductions \cup Removals \cup Executions

RestingOrder == [order_id : OrderIds, side : Sides, price : Prices, quantity : Quantities]

\* The exchange announces e only when this is what rests.
Announceable(e, resting) ==
  /\ e.type = "AddOrder" => \A o \in resting : o.order_id # e.order_id
  /\ e.type \in {"CancelOrder", "ModifyOrder"} =>
       \E o \in resting : o.order_id = e.order_id

\* Frame f says e, and that it was event n.
Carries(f, n, e) ==
  /\ f.seq = n /\ f.type = e.type /\ f.instrument = e.instrument
  /\ e.type # "Trade" => f.order_id = e.order_id
  /\ e.type # "CancelOrder" => f.price = e.price /\ f.quantity = e.quantity
  /\ e.type = "AddOrder" => f.side = e.side

\* The fields an event has.
LEMMA EventIs ==
  ASSUME NEW e \in Events
  PROVE  /\ e.type \in {"AddOrder", "ModifyOrder", "CancelOrder", "Trade"}
         /\ e.instrument \in Instruments
         /\ e.type # "Trade" => e.order_id \in OrderIds
         /\ e.type # "CancelOrder" => e.price \in Prices /\ e.quantity \in Quantities
         /\ e.type = "AddOrder" => e.side \in Sides
<1>1. CASE e \in Additions
  BY <1>1 DEF Additions
<1>2. CASE e \in Reductions
  BY <1>2 DEF Reductions
<1>3. CASE e \in Removals
  BY <1>3 DEF Removals
<1>4. CASE e \in Executions
  BY <1>4 DEF Executions
<1> QED
  BY <1>1, <1>2, <1>3, <1>4 DEF Events

\* Numbering an event changes nothing else about it.
LEMMA FrameCarries ==
  ASSUME NEW e \in Events, NEW n
  PROVE  Carries(Numbered(e, n), n, e)
<1>1. PICK f : f = Numbered(e, n)
  OBVIOUS
<1>2. f = [x \in DOMAIN e \cup {"seq"} |-> IF x = "seq" THEN n ELSE e[x]]
  BY <1>1 DEF Numbered
<1> SUFFICES Carries(f, n, e)
  BY <1>1
<1>3. f.seq = n
  BY <1>2
<1>4. CASE e \in Additions
  <2>1. DOMAIN e = {"type", "instrument", "order_id", "side", "price", "quantity"}
    BY <1>4 DEF Additions
  <2>2. e.type = "AddOrder"
    BY <1>4 DEF Additions
  <2>3. /\ f["type"] = e["type"] /\ f["instrument"] = e["instrument"]
        /\ f["order_id"] = e["order_id"] /\ f["side"] = e["side"]
        /\ f["price"] = e["price"] /\ f["quantity"] = e["quantity"]
    BY <1>2, <2>1
  <2> QED BY <1>3, <2>2, <2>3 DEF Carries
<1>5. CASE e \in Reductions
  <2>1. DOMAIN e = {"type", "instrument", "order_id", "price", "quantity"}
    BY <1>5 DEF Reductions
  <2>2. e.type = "ModifyOrder"
    BY <1>5 DEF Reductions
  <2>3. /\ f["type"] = e["type"] /\ f["instrument"] = e["instrument"]
        /\ f["order_id"] = e["order_id"]
        /\ f["price"] = e["price"] /\ f["quantity"] = e["quantity"]
    BY <1>2, <2>1
  <2> QED BY <1>3, <2>2, <2>3 DEF Carries
<1>6. CASE e \in Removals
  <2>1. DOMAIN e = {"type", "instrument", "order_id"}
    BY <1>6 DEF Removals
  <2>2. e.type = "CancelOrder"
    BY <1>6 DEF Removals
  <2>3. /\ f["type"] = e["type"] /\ f["instrument"] = e["instrument"]
        /\ f["order_id"] = e["order_id"]
    BY <1>2, <2>1
  <2> QED BY <1>3, <2>2, <2>3 DEF Carries
<1>7. CASE e \in Executions
  <2>1. DOMAIN e = {"type", "instrument", "price", "quantity"}
    BY <1>7 DEF Executions
  <2>2. e.type = "Trade"
    BY <1>7 DEF Executions
  <2>3. /\ f["type"] = e["type"] /\ f["instrument"] = e["instrument"]
        /\ f["price"] = e["price"] /\ f["quantity"] = e["quantity"]
    BY <1>2, <2>1
  <2> QED BY <1>3, <2>2, <2>3 DEF Carries
<1> QED
  BY <1>4, <1>5, <1>6, <1>7 DEF Events

\* A book does to a frame what it would do to its event.
LEMMA CarriedOver ==
  ASSUME NEW e \in Events, NEW f, NEW n, Carries(f, n, e), NEW book
  PROVE  /\ Refuses(book, f) = Refuses(book, e)
         /\ ChangedBook(book, f) = ChangedBook(book, e)
<1>1. CASE e.type = "AddOrder"
  BY <1>1 DEF Carries, Refuses, ChangedBook, AddOrder
<1>2. CASE e.type = "ModifyOrder"
  BY <1>2 DEF Carries, Refuses, ChangedBook, ModifyOrder
<1>3. CASE e.type = "CancelOrder"
  BY <1>3 DEF Carries, Refuses, ChangedBook, CancelOrder
<1>4. CASE e.type = "Trade"
  BY <1>4 DEF Carries, Refuses, ChangedBook
<1> QED
  BY <1>1, <1>2, <1>3, <1>4, EventIs

\* What rests in a book is a record with four fields.
LEMMA RestingTyped ==
  ASSUME NEW book \in Book
  PROVE  \A o \in RestingOrders(book) :
           /\ o \in RestingOrder
           /\ o = [order_id |-> o.order_id, side |-> o.side, price |-> o.price,
                   quantity |-> o.quantity]
<1> TAKE o \in RestingOrders(book)
<1>1. PICK l \in Level : \E x \in Range(book.levels[l]) : o = OrderAt(l, x)
  BY RestsAt
<1>2. PICK x \in Range(book.levels[l]) : o = OrderAt(l, x)
  BY <1>1
<1>3. x \in Entry /\ l[1] \in Sides /\ l[2] \in Prices
  BY LevelIs
<1>4. x.id \in OrderIds /\ x.quantity \in Quantities
  BY <1>3 DEF Entry
<1> QED
  BY <1>2, <1>3, <1>4 DEF OrderAt, RestingOrder

\* A resting order with another price and quantity.
Repriced(x, price, quantity) == [x EXCEPT !.price = price, !.quantity = quantity]

\* The fields of a modified order.
LEMMA RepricedIs ==
  ASSUME NEW id, NEW side, NEW p, NEW q, NEW price, NEW quantity,
         NEW x, x = [order_id |-> id, side |-> side, price |-> p, quantity |-> q]
  PROVE  Repriced(x, price, quantity) =
           [order_id |-> id, side |-> side, price |-> price, quantity |-> quantity]
<1>1. PICK y : y = [x EXCEPT !.price = price, !.quantity = quantity]
  OBVIOUS
<1>2. x \in [order_id : {id}, side : {side}, price : {p}, quantity : {q}]
  OBVIOUS
<1>3. y \in [order_id : {id}, side : {side}, price : {price}, quantity : {quantity}]
  BY <1>1, <1>2
<1>4. y = [order_id |-> id, side |-> side, price |-> price, quantity |-> quantity]
  BY <1>3
<1> QED
  BY <1>1, <1>4 DEF Repriced

\* The book after an event, refused or not.
Answered(book, e) == IF Refuses(book, e) THEN book ELSE ChangedBook(book, e)

\* Whatever a book is told, its index keeps matching its levels; and told what
\* the exchange could announce, it refuses nothing and follows.
LEMMA BookFollows ==
  ASSUME NEW e \in Events, NEW book, Consistent(book)
  PROVE  /\ Consistent(Answered(book, e))
         /\ Announceable(e, RestingOrders(book)) =>
              /\ ~Refuses(book, e)
              /\ RestingOrders(Answered(book, e)) = AfterEvent(RestingOrders(book), e)
<1>1. PICK resting : resting = RestingOrders(book)
  OBVIOUS
<1>2. /\ \A o \in resting : /\ o.order_id \in DOMAIN book.index
                            /\ book.index[o.order_id] = <<o.side, o.price>>
      /\ \A id \in DOMAIN book.index : \E o \in resting : o.order_id = id
  BY <1>1, IndexedRests
<1>3. /\ e.type \in {"AddOrder", "ModifyOrder", "CancelOrder", "Trade"}
      /\ e.type # "Trade" => e.order_id \in OrderIds
      /\ e.type # "CancelOrder" => /\ e.price \in Prices /\ e.quantity \in Quantities
                                   /\ e.price > 0 /\ e.quantity # 0
      /\ e.type = "AddOrder" => e.side \in Sides
  <2>1. \A p \in Prices : p \in Nat /\ p > 0
    BY BookAssumption
  <2>2. \A q \in Quantities : q # 0
    BY BookAssumption
  <2> QED BY <2>1, <2>2, EventIs
<1>4. CASE e.type = "AddOrder"
  <2>1. Refuses(book, e) <=> e.order_id \in DOMAIN book.index
    BY <1>3, <1>4, BookAssumption DEF Refuses
  <2>2. CASE e.order_id \in DOMAIN book.index
    <3>1. ~Announceable(e, resting)
      BY <1>2, <1>4, <2>2 DEF Announceable
    <3>2. Answered(book, e) = book
      BY <2>1, <2>2 DEF Answered
    <3> QED BY <1>1, <3>1, <3>2
  <2>3. CASE e.order_id \notin DOMAIN book.index
    <3>1. Answered(book, e) = InsertOrder(book, e.side, e.order_id, e.price, e.quantity)
      BY <1>4, <2>1, <2>3 DEF Answered, ChangedBook, AddOrder
    <3>2. AfterEvent(resting, e) =
            resting \cup {[order_id |-> e.order_id, side |-> e.side, price |-> e.price,
                           quantity |-> e.quantity]}
      BY <1>4 DEF AfterEvent
    <3> QED BY <1>1, <1>3, <1>4, <2>1, <2>3, <3>1, <3>2, Inserted
  <2> QED BY <2>2, <2>3
<1>5. CASE e.type = "CancelOrder"
  <2>1. Refuses(book, e) <=> e.order_id \notin DOMAIN book.index
    BY <1>5 DEF Refuses
  <2>2. CASE e.order_id \notin DOMAIN book.index
    <3>1. ~Announceable(e, resting)
      BY <1>2, <1>5, <2>2 DEF Announceable
    <3>2. Answered(book, e) = book
      BY <2>1, <2>2 DEF Answered
    <3> QED BY <1>1, <3>1, <3>2
  <2>3. CASE e.order_id \in DOMAIN book.index
    <3>1. Answered(book, e) = EraseOrder(book, e.order_id)
      BY <1>5, <2>1, <2>3 DEF Answered, ChangedBook, CancelOrder
    <3>2. AfterEvent(resting, e) = {o \in resting : o.order_id # e.order_id}
      BY <1>5 DEF AfterEvent
    <3> QED BY <1>1, <2>1, <2>3, <3>1, <3>2, Erased
  <2> QED BY <2>2, <2>3
<1>6. CASE e.type = "ModifyOrder"
  <2>1. Refuses(book, e) <=> e.order_id \notin DOMAIN book.index
    BY <1>3, <1>6, BookAssumption DEF Refuses
  <2>2. CASE e.order_id \notin DOMAIN book.index
    <3>1. ~Announceable(e, resting)
      BY <1>2, <1>6, <2>2 DEF Announceable
    <3>2. Answered(book, e) = book
      BY <2>1, <2>2 DEF Answered
    <3> QED BY <1>1, <3>1, <3>2
  <2>3. CASE e.order_id \in DOMAIN book.index
    <3>1. PICK without : without = EraseOrder(book, e.order_id)
      OBVIOUS
    <3>2. PICK side : side = book.index[e.order_id][1]
      OBVIOUS
    <3>3. Answered(book, e) = InsertOrder(without, side, e.order_id, e.price, e.quantity)
      BY <1>6, <2>1, <2>3, <3>1, <3>2 DEF Answered, ChangedBook, ModifyOrder
    <3>4. /\ Consistent(without) /\ e.order_id \notin DOMAIN without.index
          /\ RestingOrders(without) = {o \in resting : o.order_id # e.order_id}
      BY <1>1, <2>3, <3>1, Erased
    <3>5. side \in Sides
      <4>1. book.index[e.order_id] \in Level
        BY <2>3, BookIs DEF Consistent
      <4> QED BY <3>2, <4>1 DEF Level
    <3>6. PICK o : o = [order_id |-> e.order_id, side |-> side, price |-> e.price,
                        quantity |-> e.quantity]
      OBVIOUS
    <3>7. /\ Consistent(Answered(book, e))
          /\ RestingOrders(Answered(book, e)) =
               {x \in resting : x.order_id # e.order_id} \cup {o}
      BY <1>3, <1>6, <3>3, <3>4, <3>5, <3>6, Inserted
    <3>8. AfterEvent(resting, e) =
            {x \in resting : x.order_id # e.order_id}
              \cup {Repriced(x, e.price, e.quantity) :
                      x \in resting \ {x \in resting : x.order_id # e.order_id}}
      BY <1>6 DEF AfterEvent, Repriced
    <3>9. ASSUME NEW x \in resting, x.order_id = e.order_id
          PROVE  Repriced(x, e.price, e.quantity) = o
      <4>1. x.side = side
        BY <1>2, <3>2, <3>9
      <4>2. x = [order_id |-> x.order_id, side |-> x.side, price |-> x.price,
                 quantity |-> x.quantity]
        BY <1>1, RestingTyped DEF Consistent
      <4>3. Repriced(x, e.price, e.quantity) =
              [order_id |-> x.order_id, side |-> x.side, price |-> e.price,
               quantity |-> e.quantity]
        BY <4>2, RepricedIs
      <4> QED BY <3>6, <3>9, <4>1, <4>3
    <3>10. PICK y \in resting : y.order_id = e.order_id
      BY <1>2, <2>3
    <3>11. {Repriced(x, e.price, e.quantity) :
              x \in resting \ {x \in resting : x.order_id # e.order_id}} = {o}
      <4>1. \A x \in resting \ {x \in resting : x.order_id # e.order_id} :
              Repriced(x, e.price, e.quantity) = o
        BY <3>9
      <4>2. y \in resting \ {x \in resting : x.order_id # e.order_id}
        BY <3>10
      <4> QED BY <4>1, <4>2
    <3> QED BY <1>1, <2>1, <2>3, <3>7, <3>8, <3>11
  <2> QED BY <2>2, <2>3
<1>7. CASE e.type = "Trade"
  <2>1. ~Refuses(book, e)
    BY <1>7 DEF Refuses
  <2>2. Answered(book, e) = book
    BY <1>7, <2>1 DEF Answered, ChangedBook
  <2>3. AfterEvent(resting, e) = resting
    BY <1>7 DEF AfterEvent
  <2> QED BY <1>1, <2>1, <2>2, <2>3
<1> QED
  BY <1>3, <1>4, <1>5, <1>6, <1>7
-----------------------------------------------------------------------------
(***************************************************************************)
(* One frame applied to an outcome.                                        *)
(***************************************************************************)
Stats == [trade_count : Nat, traded_quantity : Nat, last_trade_price : Nat]

Books == [Instruments -> [book : Book, trades : Stats]]

Counted(stats, e) == IF e.type = "Trade" THEN RecordTrade(stats, e) ELSE stats

\* A frame changes the book and the statistics of its instrument only.
LEMMA BooksAfter ==
  ASSUME NEW books \in Books, NEW e, e.instrument \in Instruments
  PROVE  /\ ApplyToBooks(books, e)[e.instrument] =
              [book   |-> Answered(books[e.instrument].book, e),
               trades |-> Counted(books[e.instrument].trades, e)]
         /\ \A i \in Instruments : i # e.instrument => ApplyToBooks(books, e)[i] = books[i]
         /\ DOMAIN ApplyToBooks(books, e) = Instruments
         /\ ApplyToBooks(books, e) =
              [i \in Instruments |-> ApplyToBooks(books, e)[i]]
<1>1. PICK i \in Instruments : i = e.instrument
  OBVIOUS
<1>2. PICK b, s : /\ b = Answered(books[i].book, e) /\ s = Counted(books[i].trades, e)
  OBVIOUS
<1>3. ApplyToBooks(books, e) = [books EXCEPT ![i].book = b, ![i].trades = s]
  BY <1>1, <1>2 DEF ApplyToBooks, Answered, Counted, Books
<1>4. books[i] \in [book : Book, trades : Stats]
  BY DEF Books
<1>5. [books EXCEPT ![i].book = b, ![i].trades = s][i] = [book |-> b, trades |-> s]
  BY <1>4 DEF Books
<1> QED
  BY <1>1, <1>2, <1>3, <1>5 DEF Books

\* Trade statistics stay naturals.
LEMMA StatsTyped ==
  ASSUME NEW e \in Events, NEW f, NEW n, Carries(f, n, e), NEW stats \in Stats
  PROVE  Counted(stats, f) \in Stats
<1>1. CASE e.type = "Trade"
  <2>1. f.price \in Nat /\ f.quantity \in Nat /\ f.type = "Trade"
    BY <1>1, EventIs, BookAssumption DEF Carries
  <2> QED BY <2>1 DEF Counted, RecordTrade, Stats
<1>2. CASE e.type # "Trade"
  BY <1>2 DEF Counted, Carries
<1> QED
  BY <1>1, <1>2

\* All books stay consistent, and one takes the event.
LEMMA BooksTyped ==
  ASSUME NEW books \in Books, NEW e \in Events, NEW f, NEW n, Carries(f, n, e),
         \A i \in Instruments : Consistent(books[i].book)
  PROVE  /\ ApplyToBooks(books, f) \in Books
         /\ \A i \in Instruments :
              /\ Consistent(ApplyToBooks(books, f)[i].book)
              /\ i # e.instrument => ApplyToBooks(books, f)[i].book = books[i].book
         /\ ApplyToBooks(books, f)[e.instrument].book = Answered(books[e.instrument].book, e)
<1>1. PICK i \in Instruments : i = e.instrument /\ i = f.instrument
  BY EventIs DEF Carries
<1>2. PICK after : after = ApplyToBooks(books, f)
  OBVIOUS
<1>3. books[i].book \in Book /\ books[i].trades \in Stats /\ Consistent(books[i].book)
  BY DEF Books
<1>4. Answered(books[i].book, f) = Answered(books[i].book, e)
  BY CarriedOver DEF Answered
<1>5. PICK b, s : /\ b = Answered(books[i].book, e) /\ s = Counted(books[i].trades, f)
  OBVIOUS
<1>6. Consistent(b) /\ b \in Book
  BY <1>3, <1>5, BookFollows DEF Consistent
<1>7. s \in Stats
  BY <1>3, <1>5, StatsTyped
<1>8. /\ after[i] = [book |-> b, trades |-> s]
      /\ \A j \in Instruments : j # i => after[j] = books[j]
      /\ after = [j \in Instruments |-> after[j]]
  BY <1>1, <1>2, <1>4, <1>5, BooksAfter
<1>9. \A j \in Instruments : after[j] \in [book : Book, trades : Stats]
  <2> TAKE j \in Instruments
  <2>1. CASE j = i
    BY <1>6, <1>7, <1>8, <2>1
  <2>2. CASE j # i
    BY <1>8, <2>2 DEF Books
  <2> QED BY <2>1, <2>2
<1>10. after \in Books
  BY <1>8, <1>9 DEF Books
<1>11. \A j \in Instruments : Consistent(after[j].book)
  <2> TAKE j \in Instruments
  <2>1. CASE j = i
    BY <1>6, <1>8, <2>1
  <2>2. CASE j # i
    BY <1>8, <2>2
  <2> QED BY <2>1, <2>2
<1> QED
  BY <1>1, <1>2, <1>5, <1>8, <1>10, <1>11

Shape(B, N, F) ==
  [books : B, last_seen : N, last_sequence_number : N,
   messages_processed : N, sequence_failures : N, decode_failures : N,
   book_errors : N, recoveries : N, stopped_early : F]

\* Outcome as a set of records over named sets.
LEMMA OutcomeShape ==
  \E B, N, F : B = Books /\ N = Nat /\ F = BOOLEAN /\ Outcome = Shape(B, N, F)
  BY DEF Outcome, Shape, Books, Stats

\* The updates of an outcome, field by field.
Seen(o, x, y) == [o EXCEPT !.last_seen = x, !.sequence_failures = y]

Applied(o, x, y, z, b) ==
  [o EXCEPT !.messages_processed = x, !.last_sequence_number = y,
            !.book_errors = z, !.books = b]

Undecoded(o, x, y) == [o EXCEPT !.decode_failures = x, !.stopped_early = y]

\* The validator's update of an outcome.
LEMMA ShapeSeen ==
  ASSUME NEW B, NEW N, NEW F, NEW o \in Shape(B, N, F), NEW x \in N, NEW y \in N,
         NEW p, p = Seen(o, x, y)
  PROVE  /\ p \in Shape(B, N, F) /\ p.last_seen = x /\ p.sequence_failures = y
         /\ p.books = o.books /\ p.messages_processed = o.messages_processed
         /\ p.book_errors = o.book_errors
  BY DEF Shape, Seen

\* The update of an outcome by an event that was applied.
LEMMA ShapeApplied ==
  ASSUME NEW B, NEW N, NEW F, NEW o \in Shape(B, N, F), NEW x \in N, NEW y \in N,
         NEW z \in N, NEW b \in B,
         NEW p, p = Applied(o, x, y, z, b)
  PROVE  /\ p \in Shape(B, N, F) /\ p.messages_processed = x /\ p.book_errors = z
         /\ p.books = b /\ p.last_seen = o.last_seen
         /\ p.sequence_failures = o.sequence_failures
  BY DEF Shape, Applied

\* The update of an outcome by a frame that does not decode.
LEMMA ShapeUndecoded ==
  ASSUME NEW B, NEW N, NEW F, NEW o \in Shape(B, N, F), NEW x \in N, NEW y \in F,
         NEW p, p = Undecoded(o, x, y)
  PROVE  /\ p \in Shape(B, N, F) /\ p.books = o.books /\ p.last_seen = o.last_seen
         /\ p.messages_processed = o.messages_processed
         /\ p.sequence_failures = o.sequence_failures /\ p.book_errors = o.book_errors
  BY DEF Shape, Undecoded

\* The fields of an outcome.
LEMMA OutcomeIs ==
  ASSUME NEW o \in Outcome
  PROVE  /\ o.books \in Books
         /\ o.last_seen \in Nat /\ o.last_sequence_number \in Nat
         /\ o.messages_processed \in Nat /\ o.sequence_failures \in Nat
         /\ o.decode_failures \in Nat /\ o.book_errors \in Nat /\ o.recoveries \in Nat
         /\ o.stopped_early \in BOOLEAN
  BY OutcomeShape DEF Shape

\* A frame that decodes is applied, in order or not; out of order, it is counted.
LEMMA FrameApplied ==
  ASSUME NEW o \in Outcome, NEW e \in Events, NEW f, NEW n \in Nat, Carries(f, n, e),
         \A i \in Instruments : Consistent(o.books[i].book)
  PROVE  LET p == ApplyDecoded(o, f, LiveOptions) IN
         /\ p \in Outcome
         /\ p.books = ApplyToBooks(o.books, f)
         /\ p.last_seen = Observe(o.last_seen, n)
         /\ p.messages_processed = o.messages_processed + 1
         /\ p.sequence_failures =
              o.sequence_failures + (IF Classify(o.last_seen, n) = "InOrder" THEN 0 ELSE 1)
         /\ p.book_errors = o.book_errors
              + (IF Refuses(o.books[e.instrument].book, e) THEN 1 ELSE 0)
<1>1. f.seq = n /\ f.instrument = e.instrument
  BY DEF Carries
<1>2. PICK last \in Nat : last = Observe(o.last_seen, n)
  BY OutcomeIs DEF Observe
<1>3. PICK wrong \in Nat : wrong = IF Classify(o.last_seen, n) = "InOrder" THEN 0 ELSE 1
  OBVIOUS
<1>4. PICK refused \in Nat :
        refused = IF Refuses(o.books[e.instrument].book, e) THEN 1 ELSE 0
  OBVIOUS
<1>5. PICK books \in Books : books = ApplyToBooks(o.books, f)
  BY OutcomeIs, BooksTyped
<1>6. PICK seen : seen = Seen(o, last, o.sequence_failures + wrong)
  OBVIOUS
<1>7. /\ seen \in Outcome /\ seen.books = o.books /\ seen.last_seen = last
      /\ seen.sequence_failures = o.sequence_failures + wrong
      /\ seen.messages_processed = o.messages_processed
      /\ seen.book_errors = o.book_errors
  <2>1. PICK B, N, F : B = Books /\ N = Nat /\ Outcome = Shape(B, N, F)
    BY OutcomeShape
  <2>2. o.sequence_failures + wrong \in N /\ last \in N /\ o \in Shape(B, N, F)
    BY <2>1, OutcomeIs
  <2>3. /\ seen \in Shape(B, N, F) /\ seen.last_seen = last
        /\ seen.sequence_failures = o.sequence_failures + wrong
        /\ seen.books = o.books /\ seen.messages_processed = o.messages_processed
        /\ seen.book_errors = o.book_errors
    BY <1>6, <2>2, ShapeSeen
  <2> QED BY <2>1, <2>3
<1>8. ApplyDecoded(o, f, LiveOptions) = ApplyEvent(seen, f)
  BY <1>1, <1>2, <1>3, <1>6 DEF ApplyDecoded, LiveOptions, Seen
<1>9. PICK p : p = ApplyDecoded(o, f, LiveOptions)
  OBVIOUS
<1>10. Refuses(seen.books[f.instrument].book, f) = Refuses(o.books[e.instrument].book, e)
  BY <1>1, <1>7, CarriedOver
<1>11. p = Applied(seen, seen.messages_processed + 1, n, seen.book_errors + refused, books)
  BY <1>1, <1>4, <1>5, <1>7, <1>8, <1>9, <1>10 DEF ApplyEvent, Applied
<1>12. /\ p \in Outcome /\ p.books = books /\ p.last_seen = seen.last_seen
       /\ p.messages_processed = seen.messages_processed + 1
       /\ p.sequence_failures = seen.sequence_failures
       /\ p.book_errors = seen.book_errors + refused
  <2>1. PICK B, N, F : B = Books /\ N = Nat /\ Outcome = Shape(B, N, F)
    BY OutcomeShape
  <2>2. /\ seen.messages_processed + 1 \in N /\ seen.book_errors + refused \in N
        /\ seen \in Shape(B, N, F) /\ n \in N /\ books \in B
    BY <1>7, <2>1, OutcomeIs
  <2>3. /\ p \in Shape(B, N, F) /\ p.messages_processed = seen.messages_processed + 1
        /\ p.book_errors = seen.book_errors + refused /\ p.books = books
        /\ p.last_seen = seen.last_seen /\ p.sequence_failures = seen.sequence_failures
    BY <1>11, <2>2, ShapeApplied
  <2> QED BY <2>1, <2>3
<1> QED
  BY <1>2, <1>3, <1>4, <1>5, <1>7, <1>9, <1>12

\* A frame that does not decode touches neither the books nor the validator.
LEMMA FrameUndecoded ==
  ASSUME NEW o \in Outcome
  PROVE  LET p == ApplyFrame(o, Undecodable, LiveOptions) IN
         /\ p \in Outcome /\ p.books = o.books /\ p.last_seen = o.last_seen
         /\ p.messages_processed = o.messages_processed
         /\ p.sequence_failures = o.sequence_failures /\ p.book_errors = o.book_errors
<1>1. PICK b : b = (o.stopped_early \/ LiveOptions.stop_on_decode_error)
  OBVIOUS
<1>2. b \in BOOLEAN
  BY <1>1, Zenon
<1>3. PICK p : p = ApplyFrame(o, Undecodable, LiveOptions)
  OBVIOUS
<1>4. p = Undecoded(o, o.decode_failures + 1, b)
  BY <1>1, <1>3 DEF ApplyFrame, Undecoded
<1>5. PICK B, N, F : N = Nat /\ F = BOOLEAN /\ Outcome = Shape(B, N, F)
  BY OutcomeShape
<1>6. o \in Shape(B, N, F) /\ o.decode_failures + 1 \in N /\ b \in F
  BY <1>2, <1>5, OutcomeIs
<1>7. /\ p \in Shape(B, N, F) /\ p.books = o.books /\ p.last_seen = o.last_seen
      /\ p.messages_processed = o.messages_processed
      /\ p.sequence_failures = o.sequence_failures /\ p.book_errors = o.book_errors
  BY <1>4, <1>6, ShapeUndecoded
<1> QED
  BY <1>3, <1>5, <1>7
-----------------------------------------------------------------------------
(***************************************************************************)
(* The inductive invariant.                                                *)
(***************************************************************************)
\* Every event could be announced when it was, and ids are used once.
Announced ==
  /\ published \in Seq(Events) /\ Len(published) <= MaxEvents
  /\ next_sequence = Len(published) + 1
  /\ \A n \in DOMAIN published :
       Announceable(published[n],
                    OrdersAfter(published, n - 1, published[n].instrument))
  /\ \A i \in Instruments :
       /\ Resting(i) \subseteq RestingOrder
       /\ \A o \in Resting(i) : o.order_id < NextOrderId

\* What may be under way: events that happened, each under its own number.
Frames == {Numbered(published[n], n) : n \in DOMAIN published}

UnderWay ==
  /\ queue \in Seq(Frames) /\ Len(queue) <= QueueCapacity
  /\ batch \in Seq(Frames) /\ Len(batch) <= MaxBatch
  /\ sent \in Seq(Seq(Frames))
  /\ inbox \in Seq(Frames)

Steady ==
  /\ dropped \in 0..Len(published) /\ arrivals \in 0..MaxArrivals
  /\ rpc \in {"drain", "check", "predicate", "falling", "asleep", "exited"}
  /\ stopRequested \in BOOLEAN

\* A subscriber that missed nothing since event 1 has the exchange's orders.
Mirrored ==
  out.sequence_failures = 0 /\ first \in {0, 1} =>
    /\ out.book_errors = 0
    /\ \A i \in Instruments :
         RestingOrders(out.books[i].book) = OrdersAfter(published, out.last_seen, i)

Received ==
  /\ out \in Outcome /\ out.last_seen <= Len(published)
  /\ first \in 0..Len(published)
  /\ first = 0 <=> out.last_seen = 0
  /\ \A i \in Instruments : Consistent(out.books[i].book)
  /\ HolesAreCounted
  /\ Mirrored

FeedInv == Announced /\ UnderWay /\ Steady /\ Received

\* An empty book is consistent and nothing rests in it.
LEMMA EmptyConsistent == Consistent(EmptyBook) /\ RestingOrders(EmptyBook) = {}
<1>1. PICK levels : levels = [l \in Level |-> << >>]
  OBVIOUS
<1>2. PICK index : index = << >>
  OBVIOUS
<1>3. DOMAIN index = {} /\ index \in [{} -> Level]
  BY <1>2
<1>4. /\ levels \in [Level -> Seq(Entry)]
      /\ \A l \in Level : levels[l] = << >> /\ DOMAIN levels[l] = {} /\ Range(levels[l]) = {}
  BY <1>1 DEF Range
<1>5. EmptyBook = [levels |-> levels, index |-> index]
  BY <1>1, <1>2 DEF EmptyBook
<1>6. EmptyBook \in Book
  <2>1. {} \in SUBSET OrderIds
    OBVIOUS
  <2> QED BY <1>3, <1>4, <1>5, <2>1, BookOf
<1>7. EmptyBook.levels = levels /\ EmptyBook.index = index
  BY <1>5
<1>8. \A l \in Level : Unique(levels[l])
  BY <1>4 DEF Unique
<1>9. Indexed(levels, index)
  BY <1>3, <1>4 DEF Indexed
<1>10. RestingOrders(EmptyBook) = {}
  BY <1>4, <1>7, RestsAt
<1> QED
  BY <1>6, <1>7, <1>8, <1>9, <1>10 DEF Consistent

\* Before the first event.
LEMMA FeedInit == Init => FeedInv
<1> SUFFICES ASSUME Init PROVE FeedInv
  OBVIOUS
<1>1. published = << >> /\ Len(published) = 0 /\ DOMAIN published = {}
  BY DEF Init
<1>2. \A i : OrdersAfter(published, 0, i) = {} /\ Resting(i) = {}
  BY <1>1, OrdersAfterNone DEF Resting
<1>3. Announced
  BY <1>1, <1>2, FeedAssumption DEF Init, Announced
<1>4. UnderWay /\ Steady
  <2>1. /\ queue = << >> /\ batch = << >> /\ sent = << >> /\ inbox = << >>
        /\ dropped = 0 /\ arrivals = 0 /\ rpc = "drain" /\ stopRequested = FALSE
    BY DEF Init
  <2>2. \A S : << >> \in Seq(S)
    OBVIOUS
  <2>3. Len(<< >>) = 0 /\ 0 <= QueueCapacity /\ 0 <= MaxBatch
    BY FeedAssumption
  <2>4. UnderWay
    BY <2>1, <2>2, <2>3 DEF UnderWay
  <2>5. 0 \in 0..Len(published) /\ 0 \in 0..MaxArrivals
    BY <1>1, FeedAssumption
  <2>6. Steady
    BY <2>1, <2>5 DEF Steady
  <2> QED BY <2>4, <2>6
<1>5. NoTrades \in Stats
  BY DEF NoTrades, Stats
<1>6. NoBooks \in Books /\ \A i \in Instruments : NoBooks[i].book = EmptyBook
  BY <1>5, EmptyConsistent DEF NoBooks, Books, Consistent
<1>7. /\ out.books = NoBooks /\ out.last_seen = 0 /\ out.sequence_failures = 0
      /\ out.book_errors = 0 /\ out.messages_processed = 0 /\ first = 0
  BY DEF Init, NewOutcome
<1>8. out \in Outcome
  <2>1. PICK B, N, F : B = Books /\ N = Nat /\ F = BOOLEAN /\ Outcome = Shape(B, N, F)
    BY OutcomeShape
  <2>2. NoBooks \in B /\ 0 \in N /\ FALSE \in F
    BY <1>6, <2>1
  <2>3. NewOutcome \in Shape(B, N, F)
    BY <2>2 DEF NewOutcome, Shape
  <2> QED BY <2>1, <2>3 DEF Init
<1>9. Received
  <2>1. out.last_seen <= Len(published) /\ first \in 0..Len(published)
    BY <1>1, <1>7
  <2>2. \A i \in Instruments : /\ Consistent(out.books[i].book)
                              /\ RestingOrders(out.books[i].book) = {}
    BY <1>6, <1>7, EmptyConsistent
  <2>3. HolesAreCounted
    BY <1>7 DEF HolesAreCounted
  <2>4. Mirrored
    BY <1>2, <1>7, <2>2 DEF Mirrored
  <2> QED BY <1>7, <1>8, <2>1, <2>2, <2>3, <2>4 DEF Received
<1> QED
  BY <1>3, <1>4, <1>9 DEF FeedInv

-----------------------------------------------------------------------------
(***************************************************************************)
(* publish().                                                              *)
(***************************************************************************)
\* The next id is a number: additions are finitely many.
LEMMA NextOrderIdIs ==
  ASSUME Announced
  PROVE  /\ NextOrderId \in Nat
         /\ IsFiniteSet({n \in DOMAIN published : published[n].type = "AddOrder"})
<1>1. PICK k \in Nat : DOMAIN published = 1..k
  BY DEF Announced
<1>2. IsFiniteSet(1..k)
  BY FS_Interval
<1>3. IsFiniteSet({n \in DOMAIN published : published[n].type = "AddOrder"})
  BY <1>1, <1>2, FS_Subset
<1>4. Cardinality({n \in DOMAIN published : published[n].type = "AddOrder"}) \in Nat
  BY <1>3, FS_CardinalityType
<1> QED
  BY <1>3, <1>4 DEF NextOrderId

\* The exchange announces only what it may.
LEMMA PublicEventIs ==
  ASSUME Announced, NEW i \in Instruments, NEW e \in PublicEvents(i)
  PROVE  /\ e \in Events /\ e.instrument = i
         /\ Announceable(e, Resting(i))
         /\ e.type = "AddOrder" => e.order_id = NextOrderId
<1>1. Resting(i) \subseteq RestingOrder
  BY DEF Announced
<1>2. NextOrderId \in Nat /\ \A o \in Resting(i) : o.order_id # NextOrderId
  <2>1. \A o \in Resting(i) : o.order_id < NextOrderId /\ o.order_id \in Nat
    BY <1>1, BookAssumption DEF Announced, RestingOrder
  <2> QED BY <2>1, NextOrderIdIs
<1>3. CASE e \in BookOrderAdded(i) /\ e.order_id \in OrderIds
  <2>1. PICK side \in Sides, price \in Prices, quantity \in Quantities :
          e = [type |-> "AddOrder", instrument |-> i, order_id |-> NextOrderId,
               side |-> side, price |-> price, quantity |-> quantity]
    BY <1>3 DEF BookOrderAdded
  <2>2. e \in Additions
    BY <1>3, <2>1 DEF Additions
  <2> QED BY <1>2, <2>1, <2>2 DEF Events, Announceable
<1>4. CASE e \in BookOrderReduced(i)
  <2>1. PICK o \in Resting(i), quantity \in Quantities :
          e = [type |-> "ModifyOrder", instrument |-> i, order_id |-> o.order_id,
               price |-> o.price, quantity |-> quantity]
    BY <1>4 DEF BookOrderReduced
  <2>2. e \in Reductions
    BY <1>1, <2>1 DEF Reductions, RestingOrder
  <2> QED BY <2>1, <2>2 DEF Events, Announceable
<1>5. CASE e \in BookOrderRemoved(i)
  <2>1. PICK o \in Resting(i) :
          e = [type |-> "CancelOrder", instrument |-> i, order_id |-> o.order_id]
    BY <1>5 DEF BookOrderRemoved
  <2>2. e \in Removals
    BY <1>1, <2>1 DEF Removals, RestingOrder
  <2> QED BY <2>1, <2>2 DEF Events, Announceable
<1>6. CASE e \in TradeExecuted(i)
  <2>1. PICK o \in Resting(i) :
          e = [type |-> "Trade", instrument |-> i, price |-> o.price,
               quantity |-> o.quantity]
    BY <1>6 DEF TradeExecuted
  <2>2. e \in Executions
    BY <1>1, <2>1 DEF Executions, RestingOrder
  <2> QED BY <2>1, <2>2 DEF Events, Announceable
<1> QED
  BY <1>3, <1>4, <1>5, <1>6 DEF PublicEvents

\* A sequence over a set is one over every larger set.
LEMMA SequencesOver ==
  ASSUME NEW S, NEW T, S \subseteq T, NEW s \in Seq(S)
  PROVE  s \in Seq(T)
<1>1. PICK n \in Nat : n = Len(s) /\ DOMAIN s = 1..n
  OBVIOUS
<1>2. s \in [1..n -> T]
  BY <1>1
<1> QED
  BY <1>2

\* What one more event does to everything that is said about the feed so far.
LEMMA FeedGrows ==
  ASSUME Announced, NEW e \in Events, published' = Append(published, e)
  PROVE  /\ published' \in Seq(Events) /\ Len(published') = Len(published) + 1
         /\ Len(published) \in Nat /\ DOMAIN published' = 1..(Len(published) + 1)
         /\ DOMAIN published = 1..Len(published)
         /\ \A n \in 1..Len(published) : published'[n] = published[n]
         /\ published'[Len(published) + 1] = e
         /\ Frames \subseteq Frames'
         /\ Numbered(e, Len(published) + 1) \in Frames'
         /\ \A n \in 0..Len(published) : \A i :
              OrdersAfter(published', n, i) = OrdersAfter(published, n, i)
<1>1. published \in Seq(Events)
  BY DEF Announced
<1>2. PICK k \in Nat : k = Len(published) /\ DOMAIN published = 1..k
  BY <1>1
<1>3. PICK new : new = Append(published, e)
  OBVIOUS
<1>4. /\ new \in Seq(Events) /\ Len(new) = k + 1 /\ DOMAIN new = 1..(k + 1)
      /\ \A n \in 1..k : new[n] = published[n]
      /\ new[k + 1] = e
  BY <1>1, <1>2, <1>3, AppendProperties
<1>5. published' = new
  BY <1>3
<1>6. Frames' = {Numbered(new[n], n) : n \in 1..(k + 1)}
  BY <1>4, <1>5 DEF Frames
<1>7. Numbered(e, k + 1) \in Frames'
  BY <1>4, <1>6
<1>8. ASSUME NEW f \in Frames PROVE f \in Frames'
  <2>1. PICK n \in 1..k : f = Numbered(published[n], n)
    BY <1>2 DEF Frames
  <2>2. n \in 1..(k + 1) /\ f = Numbered(new[n], n)
    BY <1>4, <2>1
  <2> QED BY <1>6, <2>2
<1>9. ASSUME NEW n \in 0..k, NEW i
      PROVE  OrdersAfter(new, n, i) = OrdersAfter(published, n, i)
  <2>1. n \in Nat /\ \A j \in 1..n : new[j] = published[j]
    BY <1>4
  <2> QED BY <2>1, OrdersAfterSame
<1> QED
  BY <1>2, <1>4, <1>5, <1>7, <1>8, <1>9

\* Ids go up by one with every addition.
LEMMA NextOrderIdGrows ==
  ASSUME Announced, NEW e \in Events, published' = Append(published, e)
  PROVE  NextOrderId' = NextOrderId + (IF e.type = "AddOrder" THEN 1 ELSE 0)
<1>1. PICK k \in Nat : k = Len(published)
  BY DEF Announced
<1>2. PICK A : A = {n \in DOMAIN published : published[n].type = "AddOrder"}
  OBVIOUS
<1>3. PICK new : new = published'
  OBVIOUS
<1>4. /\ DOMAIN new = 1..(k + 1) /\ DOMAIN published = 1..k
      /\ \A n \in 1..k : new[n] = published[n]
      /\ new[k + 1] = e
  BY <1>1, <1>3, FeedGrows
<1>5. \A n \in 1..(k + 1) : n \in 1..k \/ n = k + 1
  BY <1>1
<1>6. 1..k \subseteq 1..(k + 1) /\ k + 1 \in 1..(k + 1) /\ k + 1 \notin 1..k
  BY <1>1
<1>7. {n \in DOMAIN new : new[n].type = "AddOrder"}
        = A \cup (IF e.type = "AddOrder" THEN {k + 1} ELSE {})
  BY <1>2, <1>4, <1>5, <1>6
<1>8. k + 1 \notin A /\ IsFiniteSet(A)
  BY <1>2, <1>4, <1>6, NextOrderIdIs
<1>9. Cardinality(A) \in Nat
  BY <1>8, FS_CardinalityType
<1>10. Cardinality(A \cup {k + 1}) = Cardinality(A) + 1
  BY <1>8, FS_AddElement
<1>11. NextOrderId = 1 + Cardinality(A)
  BY <1>2 DEF NextOrderId
<1>12. NextOrderId' = 1 + Cardinality({n \in DOMAIN new : new[n].type = "AddOrder"})
  BY <1>3 DEF NextOrderId
<1>13. CASE e.type = "AddOrder"
  <2>1. {n \in DOMAIN new : new[n].type = "AddOrder"} = A \cup {k + 1}
    BY <1>7, <1>13
  <2>2. NextOrderId' = 1 + Cardinality(A \cup {k + 1})
    BY <1>12, <2>1
  <2>3. PICK c \in Nat : c = Cardinality(A)
    BY <1>9
  <2>4. NextOrderId = 1 + c /\ NextOrderId' = 1 + (c + 1)
    BY <1>10, <1>11, <2>2, <2>3
  <2> QED BY <1>13, <2>4
<1>14. CASE e.type # "AddOrder"
  <2>1. {n \in DOMAIN new : new[n].type = "AddOrder"} = A
    BY <1>7, <1>14
  <2>2. PICK c \in Nat : c = Cardinality(A)
    BY <1>9
  <2>3. NextOrderId = 1 + c /\ NextOrderId' = 1 + c
    BY <1>11, <1>12, <2>1, <2>2
  <2> QED BY <1>14, <2>3
<1> QED
  BY <1>13, <1>14

\* The resting orders keep their type, and new ids only come from additions.
LEMMA OrdersMoveOn ==
  ASSUME NEW e \in Events, NEW orders, orders \subseteq RestingOrder, NEW i
  PROVE  /\ Moved(orders, e, i) \subseteq RestingOrder
         /\ \A o \in Moved(orders, e, i) :
              \/ \E x \in orders : x.order_id = o.order_id
              \/ e.type = "AddOrder" /\ o.order_id = e.order_id
<1>1. /\ e.type \in {"AddOrder", "ModifyOrder", "CancelOrder", "Trade"}
      /\ e.type # "Trade" => e.order_id \in OrderIds
      /\ e.type # "CancelOrder" => e.price \in Prices /\ e.quantity \in Quantities
      /\ e.type = "AddOrder" => e.side \in Sides
  BY EventIs
<1>2. CASE e.instrument # i
  BY <1>2 DEF Moved
<1>3. CASE e.instrument = i /\ e.type = "AddOrder"
  <2>1. PICK x : x = [order_id |-> e.order_id, side |-> e.side, price |-> e.price,
                      quantity |-> e.quantity]
    OBVIOUS
  <2>2. x \in RestingOrder /\ x.order_id = e.order_id
    BY <1>1, <1>3, <2>1 DEF RestingOrder
  <2>3. Moved(orders, e, i) = orders \cup {x}
    BY <1>3, <2>1 DEF Moved, AfterEvent
  <2> QED BY <1>3, <2>2, <2>3
<1>4. CASE e.instrument = i /\ e.type = "CancelOrder"
  BY <1>4 DEF Moved, AfterEvent
<1>5. CASE e.instrument = i /\ e.type = "ModifyOrder"
  <2>1. PICK others : others = {o \in orders : o.order_id # e.order_id}
    OBVIOUS
  <2>2. Moved(orders, e, i) =
          others \cup {Repriced(x, e.price, e.quantity) : x \in orders \ others}
    BY <1>5, <2>1 DEF Moved, AfterEvent, Repriced
  <2>3. ASSUME NEW x \in orders
        PROVE  LET o == Repriced(x, e.price, e.quantity)
               IN  o \in RestingOrder /\ o.order_id = x.order_id
    <3>1. x \in RestingOrder
      OBVIOUS
    <3>2. /\ x = [order_id |-> x.order_id, side |-> x.side, price |-> x.price,
                  quantity |-> x.quantity]
          /\ x.order_id \in OrderIds /\ x.side \in Sides
      BY <3>1 DEF RestingOrder
    <3>3. PICK o : o = Repriced(x, e.price, e.quantity)
      OBVIOUS
    <3>4. o = [order_id |-> x.order_id, side |-> x.side, price |-> e.price,
               quantity |-> e.quantity]
      BY <3>2, <3>3, RepricedIs
    <3>5. o \in RestingOrder /\ o.order_id = x.order_id
      BY <1>1, <1>5, <3>2, <3>4 DEF RestingOrder
    <3> QED BY <3>3, <3>5
  <2>4. others \subseteq orders
    BY <2>1
  <2> HIDE DEF Repriced
  <2> QED BY <2>2, <2>3, <2>4
<1>6. CASE e.instrument = i /\ e.type = "Trade"
  BY <1>6 DEF Moved, AfterEvent
<1> QED
  BY <1>1, <1>2, <1>3, <1>4, <1>5, <1>6

\* What was said of the feed stays true of the longer one.
LEMMA AnnouncedGrows ==
  ASSUME Announced, Len(published) < MaxEvents, NEW i \in Instruments,
         NEW e \in PublicEvents(i), Publish(e)
  PROVE  Announced'
<1>1. e \in Events /\ e.instrument = i /\ Announceable(e, Resting(i))
      /\ (e.type = "AddOrder" => e.order_id = NextOrderId)
  BY PublicEventIs
<1>2. published' = Append(published, e) /\ next_sequence' = next_sequence + 1
  BY DEF Publish
<1>3. PICK k \in Nat : k = Len(published)
  BY DEF Announced
<1>4. PICK new : new = published'
  OBVIOUS
<1>5. /\ new \in Seq(Events) /\ Len(new) = k + 1 /\ DOMAIN new = 1..(k + 1)
      /\ DOMAIN published = 1..k
      /\ \A n \in 1..k : new[n] = published[n]
      /\ new[k + 1] = e
      /\ \A n \in 0..k : \A j : OrdersAfter(new, n, j) = OrdersAfter(published, n, j)
  BY <1>1, <1>2, <1>3, <1>4, FeedGrows
<1>6. Len(new) <= MaxEvents /\ next_sequence' = Len(new) + 1
  BY <1>2, <1>3, <1>5, FeedAssumption DEF Announced
<1>7. ASSUME NEW n \in DOMAIN new
      PROVE  Announceable(new[n], OrdersAfter(new, n - 1, new[n].instrument))
  <2>1. CASE n = k + 1
    <3>1. n - 1 = k /\ k \in 0..k /\ new[n] = e
      BY <1>3, <1>5, <2>1
    <3>2. OrdersAfter(new, n - 1, new[n].instrument) = Resting(i)
      BY <1>1, <1>3, <1>5, <3>1 DEF Resting
    <3> QED BY <1>1, <3>1, <3>2
  <2>2. CASE n \in 1..k
    <3>1. n - 1 \in 0..k /\ new[n] = published[n] /\ n \in DOMAIN published
      BY <1>3, <1>5, <2>2
    <3>2. OrdersAfter(new, n - 1, new[n].instrument)
            = OrdersAfter(published, n - 1, published[n].instrument)
      BY <1>5, <3>1
    <3> QED BY <3>1, <3>2 DEF Announced
  <2> QED BY <1>3, <1>5, <2>1, <2>2
<1>8. ASSUME NEW j \in Instruments
      PROVE  Resting(j)' = Moved(Resting(j), e, j)
  <2>1. Resting(j)' = OrdersAfter(new, k + 1, j)
    BY <1>4, <1>5 DEF Resting
  <2>2. OrdersAfter(new, k + 1, j) = Moved(OrdersAfter(new, k, j), new[k + 1], j)
    BY <1>3, OrdersAfterNext
  <2>3. OrdersAfter(new, k, j) = Resting(j)
    BY <1>3, <1>5 DEF Resting
  <2> QED BY <1>5, <2>1, <2>2, <2>3
<1>9. PICK id \in Nat : id = NextOrderId
  BY NextOrderIdIs
<1>10. NextOrderId' = id + (IF e.type = "AddOrder" THEN 1 ELSE 0)
  BY <1>1, <1>2, <1>9, NextOrderIdGrows
<1>11. ASSUME NEW j \in Instruments
       PROVE  Resting(j)' \subseteq RestingOrder
              /\ \A o \in Resting(j)' : o.order_id < NextOrderId'
  <2>1. Resting(j) \subseteq RestingOrder
    BY DEF Announced
  <2>2. /\ Resting(j)' \subseteq RestingOrder
        /\ \A o \in Resting(j)' :
             \/ \E x \in Resting(j) : x.order_id = o.order_id
             \/ e.type = "AddOrder" /\ o.order_id = e.order_id
    BY <1>1, <1>8, <2>1, OrdersMoveOn
  <2>3. ASSUME NEW o \in Resting(j)' PROVE o.order_id < NextOrderId'
    <3>1. CASE \E x \in Resting(j) : x.order_id = o.order_id
      <4>1. PICK x \in Resting(j) : x.order_id = o.order_id
        BY <3>1
      <4>2. x.order_id < id /\ x.order_id \in Nat
        BY <1>9, <2>1, BookAssumption DEF Announced, RestingOrder
      <4> QED BY <1>10, <4>1, <4>2
    <3>2. CASE e.type = "AddOrder" /\ o.order_id = e.order_id
      BY <1>1, <1>9, <1>10, <3>2
    <3> QED BY <2>2, <3>1, <3>2
  <2> QED BY <2>2, <2>3
<1>12. DOMAIN published' = DOMAIN new /\ published' = new
  BY <1>4
<1> QED
  BY <1>5, <1>6, <1>7, <1>11, <1>12 DEF Announced

\* A subscriber is none the worse for what it has not been told.
LEMMA ReceivedStays ==
  ASSUME Announced, Received, NEW e \in Events, published' = Append(published, e),
         UNCHANGED <<out, first>>
  PROVE  Received'
<1>1. PICK k \in Nat : k = Len(published)
  BY DEF Announced
<1>2. /\ Len(published') = k + 1
      /\ \A n \in 0..k : \A i : OrdersAfter(published', n, i) = OrdersAfter(published, n, i)
  BY <1>1, FeedGrows
<1>3. out.last_seen \in 0..k /\ first \in 0..k
  BY <1>1, OutcomeIs DEF Received
<1>4. out.last_seen <= k + 1 /\ first \in 0..(k + 1)
  BY <1>1, <1>3
<1>5. \A i : OrdersAfter(published', out.last_seen, i)
              = OrdersAfter(published, out.last_seen, i)
  BY <1>2, <1>3
<1>6. Mirrored'
  BY <1>5 DEF Received, Mirrored
<1>7. HolesAreCounted'
  BY DEF Received, HolesAreCounted
<1> QED
  BY <1>2, <1>4, <1>6, <1>7 DEF Received

\* publish() keeps the invariant, room in the queue or none.
LEMMA Publishing ==
  ASSUME FeedInv, PublishEvent
  PROVE  FeedInv'
<1>1. PICK i \in Instruments : \E e \in PublicEvents(i) : Publish(e)
  BY DEF PublishEvent
<1>2. PICK e \in PublicEvents(i) : Publish(e)
  BY <1>1
<1>3. Len(published) < MaxEvents
  BY DEF PublishEvent
<1>4. Announced /\ UnderWay /\ Steady /\ Received
  BY DEF FeedInv
<1>5. e \in Events
  BY <1>4, PublicEventIs
<1>6. Announced'
  BY <1>2, <1>3, <1>4, AnnouncedGrows
<1>7. published' = Append(published, e)
  BY <1>2 DEF Publish
<1>8. PICK k \in Nat : k = Len(published)
  BY <1>4 DEF Announced
<1>9. /\ Frames \subseteq Frames' /\ Len(published') = k + 1
      /\ Numbered(e, k + 1) \in Frames'
  BY <1>4, <1>5, <1>7, <1>8, FeedGrows
<1>10. next_sequence = k + 1
  BY <1>4, <1>8 DEF Announced
<1>11. UnderWay'
  <2>1. batch' = batch /\ sent' = sent /\ inbox' = inbox
    BY <1>2 DEF Publish, subscriberVars
  <2>2. Seq(Frames) \subseteq Seq(Frames')
    BY <1>9, SequencesOver
  <2>3. Seq(Seq(Frames)) \subseteq Seq(Seq(Frames'))
    BY <2>2, SequencesOver
  <2>4. queue \in Seq(Frames')
    BY <1>4, <2>2 DEF UnderWay
  <2>5. queue' \in Seq(Frames') /\ Len(queue') <= QueueCapacity
    <3>1. CASE Len(queue) < QueueCapacity
      <4>1. queue' = Append(queue, Numbered(e, k + 1))
        BY <1>2, <1>10, <3>1 DEF Publish
      <4>2. queue' \in Seq(Frames') /\ Len(queue') = Len(queue) + 1
        BY <1>9, <2>4, <4>1, AppendProperties
      <4>3. Len(queue) \in Nat
        BY <2>4
      <4> QED BY <3>1, <4>2, <4>3, FeedAssumption
    <3>2. CASE ~(Len(queue) < QueueCapacity)
      <4>1. queue' = queue
        BY <1>2, <3>2 DEF Publish
      <4> QED BY <1>4, <2>4, <4>1 DEF UnderWay
    <3> QED BY <3>1, <3>2
  <2> QED BY <1>4, <2>1, <2>2, <2>3, <2>5 DEF UnderWay
<1>12. Steady'
  <2>1. arrivals' = arrivals /\ stopRequested' = stopRequested
        /\ rpc' \in {rpc, "drain"} /\ dropped' \in {dropped, dropped + 1}
    BY <1>2 DEF Publish, subscriberVars, Notified
  <2>2. dropped \in 0..k
    BY <1>4, <1>8 DEF Steady
  <2>3. dropped' \in 0..(k + 1)
    BY <2>1, <2>2
  <2> QED BY <1>4, <1>9, <2>1, <2>3 DEF Steady
<1>13. Received'
  <2>1. UNCHANGED <<out, first>>
    BY <1>2 DEF Publish, subscriberVars
  <2> QED BY <1>4, <1>5, <1>7, <2>1, ReceivedStays
<1> QED
  BY <1>6, <1>11, <1>12, <1>13 DEF FeedInv
-----------------------------------------------------------------------------
(***************************************************************************)
(* routing_loop and stop().                                                *)
(***************************************************************************)
\* While nothing is published, what was said of the feed stays true.
LEMMA AnnouncedStays ==
  ASSUME Announced, UNCHANGED publisherVars
  PROVE  Announced' /\ Frames' = Frames
<1>1. published' = published /\ next_sequence' = next_sequence
  BY DEF publisherVars
<1>2. Frames' = Frames /\ NextOrderId' = NextOrderId
      /\ \A i : Resting(i)' = Resting(i)
  BY <1>1 DEF Frames, NextOrderId, Resting
<1> QED
  BY <1>1, <1>2 DEF Announced

\* Steps of other threads leave the subscriber as it is.
LEMMA ReceivedRests ==
  ASSUME Received, UNCHANGED published, UNCHANGED <<out, first>>
  PROVE  Received'
<1>1. HolesAreCounted'
  BY DEF Received, HolesAreCounted
<1>2. Mirrored'
  BY DEF Received, Mirrored
<1> QED
  BY <1>1, <1>2 DEF Received

\* So do the steps of the routing thread, and stop().
LEMMA Routing ==
  ASSUME FeedInv, RoutingThread \/ RequestStop
  PROVE  FeedInv'
<1>1. Announced /\ UnderWay /\ Steady /\ Received
  BY DEF FeedInv
<1>2. UNCHANGED <<publisherVars, subscriberVars>>
  BY DEF RoutingThread, RequestStop, PopEvent, SendBatch, FindNothing, CheckStop,
         EvaluatePredicate, FallAsleep, WaitTimesOut, RouterUnchanged
<1>3. Announced' /\ Frames' = Frames
  BY <1>1, <1>2, AnnouncedStays
<1>4. Received'
  BY <1>1, <1>2, ReceivedRests DEF publisherVars, subscriberVars
<1>5. Steady'
  <2>1. dropped' = dropped /\ arrivals' = arrivals /\ published' = published
    BY <1>2 DEF publisherVars, subscriberVars
  <2>2. rpc' \in {"drain", "check", "predicate", "falling", "asleep", "exited"}
    BY <1>1 DEF Steady, RoutingThread, RequestStop, PopEvent, SendBatch, FindNothing,
         CheckStop, EvaluatePredicate, FallAsleep, WaitTimesOut, Notified
  <2>3. stopRequested' \in BOOLEAN
    BY <1>1 DEF Steady, RoutingThread, RequestStop, PopEvent, SendBatch, FindNothing,
         CheckStop, EvaluatePredicate, FallAsleep, WaitTimesOut, RouterUnchanged
  <2> QED BY <1>1, <2>1, <2>2, <2>3 DEF Steady
<1>6. UnderWay'
  <2>1. inbox' = inbox
    BY <1>2 DEF subscriberVars
  <2>2. CASE PopEvent
    <3>1. /\ queue \in Seq(Frames) /\ queue # << >> /\ batch \in Seq(Frames)
          /\ Len(batch) < MaxBatch /\ sent' = sent
          /\ batch' = Append(batch, Head(queue)) /\ queue' = Tail(queue)
      BY <1>1, <2>2 DEF PopEvent, UnderWay
    <3>2. /\ Head(queue) \in Frames /\ Tail(queue) \in Seq(Frames)
          /\ Len(Tail(queue)) = Len(queue) - 1 /\ Len(queue) \in Nat
      BY <3>1, HeadTailProperties
    <3>3. Len(queue') <= QueueCapacity
      BY <1>1, <3>1, <3>2, FeedAssumption DEF UnderWay
    <3>4. batch' \in Seq(Frames) /\ Len(batch') <= MaxBatch
      BY <3>1, <3>2, AppendProperties, FeedAssumption
    <3> QED BY <1>1, <1>3, <2>1, <3>1, <3>2, <3>3, <3>4 DEF UnderWay
  <2>3. CASE SendBatch
    <3>1. queue' = queue /\ sent' = Append(sent, batch) /\ batch' = << >>
      BY <2>3 DEF SendBatch
    <3>2. sent' \in Seq(Seq(Frames))
      BY <1>1, <3>1, AppendProperties DEF UnderWay
    <3>3. << >> \in Seq(Frames) /\ Len(<< >>) = 0 /\ 0 <= MaxBatch
      BY FeedAssumption
    <3> QED BY <1>1, <1>3, <2>1, <3>1, <3>2, <3>3 DEF UnderWay
  <2>4. CASE ~PopEvent /\ ~SendBatch
    <3>1. UNCHANGED <<queue, batch, sent>>
      BY <2>4 DEF RoutingThread, RequestStop, FindNothing, CheckStop,
           EvaluatePredicate, FallAsleep, WaitTimesOut
    <3> QED BY <1>1, <1>3, <2>1, <3>1 DEF UnderWay
  <2> QED BY <2>2, <2>3, <2>4
<1> QED
  BY <1>3, <1>4, <1>5, <1>6 DEF FeedInv
-----------------------------------------------------------------------------
(***************************************************************************)
(* The subscriber.                                                         *)
(***************************************************************************)
\* A datagram that arrives, damaged or not, brings nothing unheard of.
LEMMA Arriving ==
  ASSUME FeedInv, ReceiveDatagram
  PROVE  FeedInv'
<1>1. Announced /\ UnderWay /\ Steady /\ Received
  BY DEF FeedInv
<1>2. /\ UNCHANGED <<publisherVars, queue, routerVars, stopRequested, out, first>>
      /\ arrivals' = arrivals + 1 /\ arrivals < MaxArrivals
  BY DEF ReceiveDatagram, ReceiveDamaged, Receive
<1>3. Announced' /\ Frames' = Frames
  BY <1>1, <1>2, AnnouncedStays
<1>4. Received'
  BY <1>1, <1>2, ReceivedRests DEF publisherVars
<1>5. inbox' \in Seq(Frames)
  <2>1. inbox \in Seq(Frames) /\ sent \in Seq(Seq(Frames))
    BY <1>1 DEF UnderWay
  <2>2. \A d \in DOMAIN sent : sent[d] \in Seq(Frames)
    BY <2>1, ElementOfSeq
  <2>3. inbox' = inbox \/ \E d \in DOMAIN sent : inbox' = sent[d]
    BY DEF ReceiveDatagram, ReceiveDamaged, Receive
  <2> QED BY <2>1, <2>2, <2>3
<1>6. UnderWay'
  BY <1>1, <1>2, <1>3, <1>5 DEF UnderWay, routerVars
<1>7. Steady'
  <2>1. arrivals' \in 0..MaxArrivals
    BY <1>1, <1>2, FeedAssumption DEF Steady
  <2> QED BY <1>1, <1>2, <2>1 DEF Steady, publisherVars, routerVars
<1> QED
  BY <1>3, <1>4, <1>6, <1>7 DEF FeedInv

\* The validator never runs ahead, and calls in order only the next event.
LEMMA ObservedIs ==
  ASSUME NEW last \in Nat, NEW n \in Nat \ {0}
  PROVE  /\ Observe(last, n) \in {last, n} /\ Observe(last, n) # 0
         /\ Classify(last, n) = "InOrder" =>
              Observe(last, n) = n /\ (last = 0 \/ n = last + 1)
<1>1. CASE last = 0
  BY <1>1 DEF Observe, Classify
<1>2. CASE last # 0 /\ n = last + 1
  BY <1>2 DEF Observe, Classify
<1>3. CASE last # 0 /\ n # last + 1
  BY <1>3 DEF Observe, Classify
<1> QED
  BY <1>1, <1>2, <1>3

\* A frame that decodes: an event that happened, under its own number.
LEMMA FrameReceived ==
  ASSUME Announced, Received, ApplyNextFrame,
         NEW n \in DOMAIN published, Head(inbox) = Numbered(published[n], n),
         Head(inbox) # Undecodable
  PROVE  Received'
<1>1. published' = published
  BY DEF ApplyNextFrame, publisherVars
<1>2. PICK k \in Nat : k = Len(published) /\ DOMAIN published = 1..k
  BY DEF Announced
<1>3. PICK e \in Events : e = published[n]
  BY ElementOfSeq, <1>2 DEF Announced
<1>4. n \in Nat \ {0} /\ n \in 1..k /\ n <= k
  BY <1>2
<1>5. PICK f : f = Head(inbox)
  OBVIOUS
<1>6. Carries(f, n, e)
  BY <1>3, <1>5, FrameCarries
<1>7. /\ out \in Outcome /\ \A i \in Instruments : Consistent(out.books[i].book)
      /\ out.last_seen <= k /\ first \in 0..k /\ (first = 0 <=> out.last_seen = 0)
  BY <1>2 DEF Received
<1>8. /\ out.books \in Books /\ out.last_seen \in Nat
      /\ out.messages_processed \in Nat /\ out.sequence_failures \in Nat
      /\ out.book_errors \in Nat
  BY <1>7, OutcomeIs
<1>9. PICK p : p = ApplyDecoded(out, f, LiveOptions)
  OBVIOUS
<1>10. out' = p /\ first' = IF first = 0 THEN p.last_seen ELSE first
  BY <1>5, <1>9 DEF ApplyNextFrame, ApplyFrame
<1>11. /\ p \in Outcome
       /\ p.books = ApplyToBooks(out.books, f)
       /\ p.last_seen = Observe(out.last_seen, n)
       /\ p.messages_processed = out.messages_processed + 1
       /\ p.sequence_failures =
            out.sequence_failures + (IF Classify(out.last_seen, n) = "InOrder" THEN 0 ELSE 1)
       /\ p.book_errors = out.book_errors
            + (IF Refuses(out.books[e.instrument].book, e) THEN 1 ELSE 0)
  BY <1>4, <1>6, <1>7, <1>9, FrameApplied
<1>12. /\ \A i \in Instruments :
            /\ Consistent(p.books[i].book)
            /\ i # e.instrument => p.books[i].book = out.books[i].book
       /\ p.books[e.instrument].book = Answered(out.books[e.instrument].book, e)
  BY <1>6, <1>7, <1>8, <1>11, BooksTyped
<1>13. /\ p.last_seen \in {out.last_seen, n} /\ p.last_seen # 0
       /\ Classify(out.last_seen, n) = "InOrder" =>
            p.last_seen = n /\ (out.last_seen = 0 \/ n = out.last_seen + 1)
  BY <1>4, <1>8, <1>11, ObservedIs
<1>14. p.last_seen \in 1..k
  BY <1>4, <1>7, <1>8, <1>13
<1>15. first' \in 1..k
  BY <1>7, <1>10, <1>14
<1>16. ASSUME p.sequence_failures = 0
       PROVE  /\ out.sequence_failures = 0 /\ p.last_seen = n
              /\ out.last_seen = 0 \/ n = out.last_seen + 1
  <2>1. Classify(out.last_seen, n) = "InOrder"
    BY <1>8, <1>11, <1>16
  <2> QED BY <1>8, <1>11, <1>13, <1>16, <2>1
<1>17. HolesAreCounted'
  <2> SUFFICES ASSUME p.sequence_failures = 0
               PROVE  p.messages_processed = p.last_seen - first' + 1
    BY <1>10, <1>15 DEF HolesAreCounted
  <2>1. /\ out.sequence_failures = 0 /\ p.last_seen = n
        /\ out.last_seen = 0 \/ n = out.last_seen + 1
    BY <1>16
  <2>2. out.messages_processed = (IF first = 0 THEN 0 ELSE out.last_seen - first + 1)
    BY <2>1 DEF Received, HolesAreCounted
  <2>3. CASE first = 0
    <3>1. first' = n /\ p.messages_processed = 1
      BY <1>10, <1>11, <2>1, <2>2, <2>3
    <3> QED BY <1>4, <2>1, <3>1
  <2>4. CASE first # 0
    <3>1. first' = first /\ n = out.last_seen + 1
      BY <1>7, <1>10, <2>1, <2>4
    <3>2. p.messages_processed = out.last_seen - first + 1 + 1
      BY <1>11, <2>2, <2>4
    <3> QED BY <1>7, <1>8, <2>1, <3>1, <3>2
  <2> QED BY <2>3, <2>4
<1>18. Mirrored'
  <2> SUFFICES ASSUME p.sequence_failures = 0, first' \in {0, 1}, NEW i \in Instruments
               PROVE  /\ p.book_errors = 0
                      /\ RestingOrders(p.books[i].book)
                           = OrdersAfter(published, p.last_seen, i)
    <3>1. ASSUME p.sequence_failures = 0, first' \in {0, 1},
                 \A i \in Instruments :
                   /\ p.book_errors = 0
                   /\ RestingOrders(p.books[i].book)
                        = OrdersAfter(published, p.last_seen, i)
          PROVE  /\ p.book_errors = 0
                 /\ \A i \in Instruments : RestingOrders(p.books[i].book)
                        = OrdersAfter(published, p.last_seen, i)
      BY <3>1, <1>3, EventIs
    <3> QED BY <1>1, <1>10, <3>1 DEF Mirrored
  <2>1. /\ out.sequence_failures = 0 /\ p.last_seen = n
        /\ out.last_seen = 0 \/ n = out.last_seen + 1
    BY <1>16
  <2>2. first \in {0, 1} /\ n = out.last_seen + 1
    <3>1. CASE first = 0
      BY <1>4, <1>7, <1>10, <2>1, <3>1
    <3>2. CASE first # 0
      BY <1>7, <1>10, <2>1, <3>2
    <3> QED BY <3>1, <3>2
  <2>3. /\ out.book_errors = 0
        /\ \A j \in Instruments :
             RestingOrders(out.books[j].book) = OrdersAfter(published, out.last_seen, j)
    BY <2>1, <2>2 DEF Received, Mirrored
  <2>4. PICK j \in Instruments : j = e.instrument
    BY EventIs
  <2>5. PICK before : before = OrdersAfter(published, out.last_seen, j)
    OBVIOUS
  <2>6. Announceable(e, before)
    <3>1. n - 1 = out.last_seen
      BY <1>8, <2>2
    <3> QED BY <1>3, <2>4, <2>5, <3>1 DEF Announced
  <2>7. /\ ~Refuses(out.books[j].book, e)
        /\ RestingOrders(Answered(out.books[j].book, e)) = AfterEvent(before, e)
    BY <1>7, <2>3, <2>5, <2>6, BookFollows
  <2>8. p.book_errors = 0
    BY <1>11, <2>3, <2>4, <2>7
  <2>9. OrdersAfter(published, n, i)
          = Moved(OrdersAfter(published, out.last_seen, i), e, i)
    BY <1>3, <1>8, <2>2, OrdersAfterNext
  <2>10. CASE i = j
    BY <1>12, <2>1, <2>4, <2>5, <2>7, <2>8, <2>9, <2>10 DEF Moved
  <2>11. CASE i # j
    BY <1>12, <2>1, <2>3, <2>4, <2>8, <2>9, <2>11 DEF Moved
  <2> QED BY <2>10, <2>11
<1>19. /\ out' \in Outcome /\ out'.last_seen <= Len(published')
       /\ first' \in 0..Len(published')
       /\ first' = 0 <=> out'.last_seen = 0
  BY <1>1, <1>2, <1>10, <1>11, <1>14, <1>15
<1>20. \A i \in Instruments : Consistent(out'.books[i].book)
  BY <1>10, <1>12
<1> QED
  BY <1>17, <1>18, <1>19, <1>20 DEF Received

\* Every frame applied keeps the invariant.
LEMMA Applying ==
  ASSUME FeedInv, ApplyNextFrame
  PROVE  FeedInv'
<1>1. Announced /\ UnderWay /\ Steady /\ Received
  BY DEF FeedInv
<1>2. /\ inbox # << >> /\ inbox' = Tail(inbox)
      /\ out' = ApplyFrame(out, Head(inbox), LiveOptions)
      /\ first' = IF first = 0 THEN out'.last_seen ELSE first
      /\ UNCHANGED <<publisherVars, queue, routerVars, stopRequested, arrivals>>
  BY DEF ApplyNextFrame
<1>3. Announced' /\ Frames' = Frames
  BY <1>1, <1>2, AnnouncedStays
<1>4. Head(inbox) \in Frames /\ Tail(inbox) \in Seq(Frames)
  BY <1>1, <1>2, HeadTailProperties DEF UnderWay
<1>5. UnderWay'
  BY <1>1, <1>2, <1>3, <1>4 DEF UnderWay, routerVars
<1>6. Steady'
  BY <1>1, <1>2 DEF Steady, publisherVars, routerVars
<1>7. CASE Head(inbox) = Undecodable
  <2>1. PICK p : p = out'
    OBVIOUS
  <2>2. /\ p \in Outcome /\ p.books = out.books /\ p.last_seen = out.last_seen
        /\ p.messages_processed = out.messages_processed
        /\ p.sequence_failures = out.sequence_failures /\ p.book_errors = out.book_errors
    BY <1>1, <1>2, <1>7, <2>1, FrameUndecoded DEF Received
  <2>3. first' = first
    BY <1>1, <1>2, <2>1, <2>2 DEF Received
  <2>4. published' = published
    BY <1>2 DEF publisherVars
  <2>5. HolesAreCounted'
    BY <1>1, <2>1, <2>2, <2>3 DEF Received, HolesAreCounted
  <2>6. Mirrored'
    BY <1>1, <2>1, <2>2, <2>3, <2>4 DEF Received, Mirrored
  <2>7. Received'
    BY <1>1, <2>1, <2>2, <2>3, <2>4, <2>5, <2>6 DEF Received
  <2> QED BY <1>3, <1>5, <1>6, <2>7 DEF FeedInv
<1>8. CASE Head(inbox) # Undecodable
  <2>1. PICK n \in DOMAIN published : Head(inbox) = Numbered(published[n], n)
    BY <1>4 DEF Frames
  <2>2. Received'
    BY <1>1, <1>8, <2>1, FrameReceived
  <2> QED BY <1>3, <1>5, <1>6, <2>2 DEF FeedInv
<1> QED
  BY <1>7, <1>8
-----------------------------------------------------------------------------
(***************************************************************************)
(* Theorems.                                                               *)
(***************************************************************************)
\* A stuttering step changes nothing.
LEMMA Waiting ==
  ASSUME FeedInv, UNCHANGED vars
  PROVE  FeedInv'
<1>1. Announced /\ UnderWay /\ Steady /\ Received
  BY DEF FeedInv
<1>2. UNCHANGED <<publisherVars, queue, routerVars, stopRequested, subscriberVars>>
  BY DEF vars
<1>3. Announced' /\ Frames' = Frames
  BY <1>1, <1>2, AnnouncedStays
<1>4. Received'
  BY <1>1, <1>2, ReceivedRests DEF publisherVars, subscriberVars
<1>5. UnderWay' /\ Steady'
  BY <1>1, <1>2, <1>3 DEF UnderWay, Steady, publisherVars, routerVars, subscriberVars
<1> QED
  BY <1>3, <1>4, <1>5 DEF FeedInv

\* Everything the publisher, the routing thread, the network and the
\* subscriber do keeps the inductive invariant.
THEOREM FeedInvariant == Spec => []FeedInv
<1>1. Init => FeedInv
  BY FeedInit
<1>2. FeedInv /\ [Next]_vars => FeedInv'
  BY Publishing, Routing, Arriving, Applying, Waiting DEF Next, Finished
<1> QED
  BY <1>1, <1>2, PTL DEF Spec

\* Queue, batch, counters and the subscriber's outcome keep their types.
THEOREM FeedTyped == Spec => []FeedTypeOK
<1>1. FeedInv => FeedTypeOK
  <2> SUFFICES ASSUME FeedInv PROVE FeedTypeOK
    OBVIOUS
  <2>1. Announced /\ UnderWay /\ Steady /\ Received
    BY DEF FeedInv
  <2>2. PICK k \in Nat : k = Len(published) /\ k <= MaxEvents
    BY <2>1 DEF Announced
  <2>3. next_sequence \in 1..(MaxEvents + 1)
    BY <2>1, <2>2, FeedAssumption DEF Announced
  <2>4. dropped \in 0..MaxEvents /\ first \in 0..MaxEvents
    BY <2>1, <2>2, FeedAssumption DEF Steady, Received
  <2> QED BY <2>1, <2>3, <2>4 DEF FeedTypeOK, UnderWay, Steady, Received
<1> QED
  BY <1>1, FeedInvariant, PTL

\* Whatever is lost, repeated or reordered, a book's index and its levels name
\* the same orders.
TraderBooksConsistent == \A i \in Instruments : IndexMatchesLevels(out.books[i].book)

\* What apply_event leaves of a book can always be applied to again.
THEOREM TraderBooksStayConsistent == Spec => []TraderBooksConsistent
<1>1. FeedInv => TraderBooksConsistent
  BY ConsistentMatches DEF FeedInv, Received, TraderBooksConsistent, Consistent
<1> QED
  BY <1>1, FeedInvariant, PTL

\* SequenceValidator::check lets no hole pass uncounted.
THEOREM EveryHoleIsCounted == Spec => []HolesAreCounted
<1>1. FeedInv => HolesAreCounted
  BY DEF FeedInv, Received
<1> QED
  BY <1>1, FeedInvariant, PTL

\* apply_event rebuilds the exchange's orders from a feed without failures.
THEOREM QuietSubscribersMirror == Spec => []QuietMeansMirrored
<1>1. FeedInv => QuietMeansMirrored
  <2>1. FeedInv => \A i \in Instruments : IndexMatchesLevels(out.books[i].book)
    BY ConsistentMatches DEF FeedInv, Received, Consistent
  <2> QED BY <2>1 DEF FeedInv, Received, Mirrored, QuietMeansMirrored
<1> QED
  BY <1>1, FeedInvariant, PTL
=============================================================================
