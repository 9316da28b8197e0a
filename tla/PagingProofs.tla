---------------------------- MODULE PagingProofs ----------------------------
(***************************************************************************)
(* Proofs about Paging, for every width of int, limit and table.           *)
(*                                                                         *)
(* The ids of a table grow with their positions. A walk that has read some *)
(* pages has accounted for the positions up to Behind, and every row past  *)
(* them is younger than what it has seen (Ahead): rows only move forward   *)
(* when others are deleted. Unless one is, the walk has seen every row of  *)
(* its beginning at those positions (Covered), and goes on to another page *)
(* only if the one it has read was full.                                   *)
(***************************************************************************)
EXTENDS Paging, SequenceTheorems, TLAPS

Growing(s) == \A i, j \in DOMAIN s : i < j => s[i] < s[j]

Old(s) == s \in Seq(Nat) /\ \A i \in DOMAIN s : s[i] \in 1..created

Table ==
    /\ Old(rows) /\ Growing(rows)
    /\ created \in 0..MaxRowId /\ Len(rows) <= created

Answers ==
    /\ asked = Idle \/ (asked \in [page : Word, limit : Word] /\ reply.status = 0)
    /\ counted \in NotCounted..MaxRowId
    /\ reply.status \in {0, 200, 400, 500}
    /\ reply.status = 200 =>
          /\ Old(reply.items) /\ Growing(reply.items)
          /\ reply.size \in Nat /\ Len(reply.items) <= reply.size
          /\ reply.query \in [page : Word, limit : Word]
          /\ counted \in 0..MaxRowId
          /\ reply.pages \in Word /\ reply.pages = CalculateTotalPages(counted, reply.query.limit)
          /\ reply.items # <<>> =>
                LET start == (reply.query.page - 1) * reply.query.limit
                IN  (reply.query.page >= 1 /\ start < reply.size) \/ start \notin Word

(* The positions that the pages before this one hold.                      *)
Behind == (walk.page - 1) * walk.limit
Beyond == IF asked = Idle THEN Behind + walk.limit ELSE Behind
PageItems == IF asked = Idle THEN reply.items ELSE <<>>

Walks == [on : BOOLEAN, limit : 0..MaxLimit, page : 0..(HalfWord - 1), seen : Seq(Nat),
          began : Seq(Nat), disturbed : BOOLEAN]

Walking ==
    /\ walk \in Walks
    /\ Old(walk.seen) /\ Growing(walk.seen)
    /\ walk.on =>
          /\ walk.limit >= 1 /\ walk.page >= 1 /\ Behind \in 0..MaxRowId
          /\ asked = Idle => reply.status = 200 /\ reply.query = Query(walk.page, walk.limit)
          /\ asked # Idle => asked = Query(walk.page, walk.limit)

(* What the walk has got is older than what it has before it.              *)
Ahead ==
    walk.on =>
        /\ \A i \in DOMAIN walk.seen, j \in DOMAIN rows : Beyond < j => walk.seen[i] < rows[j]
        /\ \A i \in DOMAIN PageItems, j \in DOMAIN rows : Beyond < j => PageItems[i] < rows[j]
        /\ \A i \in DOMAIN walk.seen, j \in DOMAIN PageItems : walk.seen[i] < PageItems[j]

Covered ==
    /\ walk.on /\ ~walk.disturbed =>
          /\ Len(walk.began) <= Len(rows)
          /\ \A j \in DOMAIN walk.began : rows[j] = walk.began[j]
          /\ counted # NotCounted => Len(walk.began) <= counted
          /\ \A j \in DOMAIN walk.began : j <= Beyond =>
                Contains(walk.seen, walk.began[j]) \/ Contains(PageItems, walk.began[j])
    /\ ~walk.on /\ ~walk.disturbed =>
          \A j \in DOMAIN walk.began : Contains(walk.seen, walk.began[j])

PageInv == Table /\ Answers /\ Walking /\ Ahead /\ Covered

-----------------------------------------------------------------------------
(* Arithmetic                                                              *)

LEMMA DivRest ==
    ASSUME NEW n \in Nat, NEW d \in Nat \ {0}
    PROVE  /\ n \div d \in Nat /\ n % d \in 0..(d - 1)
           /\ n = d * (n \div d) + (n % d)
  OBVIOUS

LEMMA WrapIsIdentity ==
    ASSUME NEW x \in Word PROVE Wrap(x) = x
  BY HalfWordAssumption DEF Wrap, Word

LEMMA WrapInWord ==
    ASSUME NEW x \in Int PROVE Wrap(x) \in Word
  BY HalfWordAssumption DEF Wrap, Word

(* pagination.go:41-43: within the range of int, the offset is the number  *)
(* of rows on the pages before.                                            *)
THEOREM OffsetIsExact ==
    ASSUME NEW page \in Int, NEW limit \in Int, (page - 1) * limit \in Word
    PROVE  CalculateOffset(page, limit) = (page - 1) * limit
  BY WrapIsIdentity DEF CalculateOffset

LEMMA TimesMonotone ==
    ASSUME NEW a \in Nat, NEW b \in Nat, NEW d \in Nat, a <= b
    PROVE  a * d <= b * d
  OBVIOUS

(* The pages hold all rows, and without the last one not.                  *)
LEMMA TotalPages ==
    ASSUME NEW n \in Nat, NEW d \in Nat \ {0}
    PROVE  LET t == CalculateTotalPages(n, d) IN
           /\ t \in 0..n
           /\ n <= t * d
           /\ \A k \in Nat : k < t => k * d < n
  <1> DEFINE q == n \div d
             r == n % d
             t == CalculateTotalPages(n, d)
  <1>1. q \in Nat /\ r \in 0..(d - 1) /\ n = d * q + r
    BY DivRest
  <1>2. t = q + (IF r > 0 THEN 1 ELSE 0)
    BY DEF CalculateTotalPages, Quotient, Rest
  <1> HIDE DEF q, r, t
  <1>3. q <= d * q
    BY <1>1
  <1>4. CASE r > 0
    <2>1. t = q + 1 /\ t \in 0..n /\ n <= t * d /\ q * d < n
      BY <1>1, <1>2, <1>3, <1>4
    <2>2. ASSUME NEW k \in Nat, k < t PROVE k * d <= q * d
      BY <1>1, <2>1, <2>2, TimesMonotone
    <2> QED
      BY <1>1, <2>1, <2>2 DEF t
  <1>5. CASE r = 0
    <2>1. t = q /\ t \in 0..n /\ n <= t * d
      BY <1>1, <1>2, <1>3, <1>5
    <2>2. ASSUME NEW k \in Nat, k < t PROVE k * d < n
      <3>1. (k + 1) * d <= q * d
        BY <1>1, <2>1, <2>2, TimesMonotone
      <3> QED
        BY <1>1, <1>5, <3>1
    <2> QED
      BY <2>1, <2>2 DEF t
  <1> QED
    BY <1>1, <1>4, <1>5

(* pagination.go:41-68: CalculateOffset and CalculateTotalPages share out  *)
(* the rows: each is on exactly one page, and it is one of those counted.  *)
THEOREM EachRowOnOnePage ==
    ASSUME NEW n \in Nat, NEW d \in Nat \ {0}, NEW r \in Nat
    PROVE  LET on(p) == (p - 1) * d <= r /\ r < (p - 1) * d + d
               t == CalculateTotalPages(n, d)
           IN  /\ r < n => \E p \in 1..t : on(p)
               /\ \A p, q \in Nat \ {0} : on(p) /\ on(q) => p = q
  <1> DEFINE on(p) == (p - 1) * d <= r /\ r < (p - 1) * d + d
             t == CalculateTotalPages(n, d)
             q == r \div d
  <1>1. t \in 0..n /\ n <= t * d
    BY TotalPages
  <1>2. q \in Nat /\ q * d <= r /\ r < q * d + d
    BY DivRest
  <1> HIDE DEF t, q
  <1>3. ASSUME r < n
        PROVE  q + 1 \in 1..t /\ on(q + 1)
    <2>1. CASE t <= q
      <3>1. t * d <= q * d
        BY <1>1, <1>2, <2>1, TimesMonotone
      <3> QED
        BY <1>1, <1>2, <1>3, <3>1
    <2> QED
      BY <1>1, <1>2, <2>1
  <1>4. ASSUME NEW p \in Nat \ {0}, NEW p2 \in Nat \ {0}, on(p), on(p2), p < p2
        PROVE  FALSE
    <2>1. (p - 1) + 1 \in Nat /\ p2 - 1 \in Nat /\ (p - 1) + 1 <= p2 - 1
      BY <1>1, <1>4
    <2>2. ((p - 1) + 1) * d <= (p2 - 1) * d
      BY <2>1, TimesMonotone
    <2>3. ((p - 1) + 1) * d = (p - 1) * d + d
      BY <1>1
    <2> QED
      BY <1>1, <1>4, <2>2, <2>3
  <1>5. \A p, p2 \in Nat \ {0} : on(p) /\ on(p2) => p = p2
    <2> SUFFICES ASSUME NEW p \in Nat \ {0}, NEW p2 \in Nat \ {0}, on(p), on(p2)
                 PROVE  p = p2
      OBVIOUS
    <2>1. p < p2 \/ p2 < p \/ p = p2
      BY <1>1
    <2> HIDE DEF on
    <2> QED
      BY <2>1, <1>4
  <1> QED
    BY <1>3, <1>5 DEF t

-----------------------------------------------------------------------------
(* Sequences                                                               *)

LEMMA PartIs ==
    ASSUME NEW s \in Seq(Nat), NEW o \in Nat, NEW n \in 0..Len(s)
    PROVE  LET part == SubSeq(s, o + 1, n) IN
           /\ part \in Seq(Nat)
           /\ Len(part) = IF o < n THEN n - o ELSE 0
           /\ \A j \in DOMAIN part : o + j \in DOMAIN s /\ part[j] = s[o + j]
  <1> DEFINE part == SubSeq(s, o + 1, n)
             m == o + 1
  <1>1. m \in Int /\ n \in Int /\ \A i \in m..n : s[i] \in Nat
    OBVIOUS
  <1>2. m = o + 1
    OBVIOUS
  <1> HIDE DEF m
  <1>3. /\ SubSeq(s, m, n) \in Seq(Nat)
        /\ Len(SubSeq(s, m, n)) = IF m <= n THEN n - m + 1 ELSE 0
        /\ \A j \in 1..(n - m + 1) : SubSeq(s, m, n)[j] = s[m + j - 1]
    BY <1>1, SubSeqProperties
  <1>4. part = SubSeq(s, m, n)
    BY <1>2
  <1> HIDE DEF part
  <1>5. ASSUME NEW j \in DOMAIN part
        PROVE  o + j \in DOMAIN s /\ part[j] = s[o + j]
    <2>1. j \in 1..(n - m + 1) /\ m + j - 1 = o + j
      BY <1>1, <1>2, <1>3, <1>4
    <2>2. part[j] = s[m + j - 1]
      BY <1>3, <1>4, <2>1
    <2> QED
      BY <1>2, <2>1, <2>2
  <1>6. part \in Seq(Nat) /\ Len(part) = IF o < n THEN n - o ELSE 0
    BY <1>2, <1>3, <1>4
  <1> QED
    BY <1>5, <1>6 DEF part

LEMMA Removal ==
    ASSUME NEW s \in Seq(Nat), NEW i \in DOMAIN s
    PROVE  LET r == RemoveAt(s, i) IN
           /\ r \in Seq(Nat) /\ Len(r) = Len(s) - 1
           /\ \A j \in 1..(Len(s) - 1) : /\ j < i => r[j] = s[j]
                                         /\ i <= j => r[j] = s[j + 1]
  <1> DEFINE a == SubSeq(s, 1, i - 1)
             b == SubSeq(s, i + 1, Len(s))
             n == Len(s)
  <1>1. i \in 1..n /\ n \in Nat
    OBVIOUS
  <1>2. /\ a \in Seq(Nat) /\ Len(a) = i - 1
        /\ \A j \in 1..(i - 1) : a[j] = s[j]
    BY <1>1, SubSeqProperties
  <1>3. /\ b \in Seq(Nat) /\ Len(b) = n - i
        /\ \A j \in 1..(n - i) : b[j] = s[i + j]
    <2>1. b \in Seq(Nat) /\ Len(b) = n - i /\ \A j \in DOMAIN b : b[j] = s[i + j]
      BY <1>1, PartIs
    <2> HIDE DEF b, n
    <2> QED
      BY <1>1, <2>1
  <1> HIDE DEF a, b, n
  <1>4. /\ a \o b \in Seq(Nat) /\ Len(a \o b) = Len(a) + Len(b)
        /\ \A j \in 1..(Len(a) + Len(b)) :
              (a \o b)[j] = IF j <= Len(a) THEN a[j] ELSE b[j - Len(a)]
    BY <1>2, <1>3, ConcatProperties
  <1>5. Len(a) + Len(b) = n - 1
    BY <1>1, <1>2, <1>3
  <1>6. ASSUME NEW j \in 1..(n - 1)
        PROVE  /\ j < i => (a \o b)[j] = s[j]
               /\ i <= j => (a \o b)[j] = s[j + 1]
    <2>1. j \in 1..(Len(a) + Len(b))
      BY <1>5
    <2>2. CASE j < i
      <3>1. j <= Len(a) /\ j \in 1..(i - 1) /\ ~(i <= j)
        BY <1>1, <1>2, <2>2
      <3>2. (a \o b)[j] = a[j]
        BY <1>4, <2>1, <3>1
      <3> QED
        BY <1>2, <3>1, <3>2
    <2>3. CASE i <= j
      <3>1. ~(j < i) /\ ~(j <= Len(a)) /\ j - Len(a) \in 1..(n - i) /\ i + (j - Len(a)) = j + 1
        BY <1>1, <1>2, <2>3
      <3>2. (a \o b)[j] = b[j - Len(a)]
        BY <1>4, <2>1, <3>1
      <3>3. b[j - Len(a)] = s[i + (j - Len(a))]
        BY <1>3, <3>1
      <3> QED
        BY <3>1, <3>2, <3>3
    <2> QED
      BY <1>1, <2>2, <2>3
  <1> QED
    BY <1>4, <1>5, <1>6 DEF RemoveAt, a, b, n

LEMMA GrowingRemoval ==
    ASSUME NEW s \in Seq(Nat), NEW i \in DOMAIN s, Growing(s)
    PROVE  Growing(RemoveAt(s, i))
  <1> DEFINE r == RemoveAt(s, i)
             n == Len(s)
  <1>1. /\ r \in Seq(Nat) /\ Len(r) = n - 1
        /\ \A j \in 1..(n - 1) : /\ j < i => r[j] = s[j]
                                 /\ i <= j => r[j] = s[j + 1]
    BY Removal
  <1>2. i \in 1..n /\ n \in Nat /\ \A j, k \in 1..n : j < k => s[j] < s[k]
    BY DEF Growing
  <1> HIDE DEF r, n
  <1>3. DOMAIN r = 1..(n - 1)
    BY <1>1
  <1>4. ASSUME NEW j \in 1..(n - 1), NEW k \in 1..(n - 1), j < k
        PROVE  r[j] < r[k]
    <2>1. CASE k < i
      <3>1. j < i /\ j \in 1..n /\ k \in 1..n
        BY <1>2, <1>4, <2>1
      <3> QED
        BY <1>1, <1>2, <1>4, <2>1, <3>1
    <2>2. CASE i <= j
      <3>1. i <= k /\ j + 1 \in 1..n /\ k + 1 \in 1..n /\ j + 1 < k + 1
        BY <1>2, <1>4, <2>2
      <3> QED
        BY <1>1, <1>2, <2>2, <3>1
    <2>3. CASE j < i /\ i <= k
      <3>1. j \in 1..n /\ k + 1 \in 1..n /\ j < k + 1
        BY <1>2, <1>4, <2>3
      <3> QED
        BY <1>1, <1>2, <2>3, <3>1
    <2> QED
      BY <1>2, <2>1, <2>2, <2>3
  <1>5. Growing(r)
    BY <1>3, <1>4 DEF Growing
  <1> QED
    BY <1>5 DEF r

(* A page: the part of a table from an offset, of at most `limit` rows.    *)
PageOf(s, offset, limit) ==
    SubSeq(s, offset + 1, IF offset + limit < Len(s) THEN offset + limit ELSE Len(s))

LEMMA PageIs ==
    ASSUME NEW s \in Seq(Nat), NEW offset \in Nat, NEW limit \in Nat
    PROVE  LET page == PageOf(s, offset, limit) IN
           /\ page \in Seq(Nat) /\ Len(page) <= limit /\ Len(page) <= Len(s)
           /\ \A j \in DOMAIN page : offset + j \in DOMAIN s /\ page[j] = s[offset + j]
           /\ \A j \in DOMAIN s : offset < j /\ j <= offset + limit =>
                 j - offset \in DOMAIN page /\ page[j - offset] = s[j]
           /\ page # <<>> => offset < Len(s) /\ limit > 0
  <1> DEFINE m == IF offset + limit < Len(s) THEN offset + limit ELSE Len(s)
             page == SubSeq(s, offset + 1, m)
  <1>1. m \in 0..Len(s) /\ Len(s) \in Nat
    OBVIOUS
  <1>2. /\ page \in Seq(Nat)
        /\ Len(page) = IF offset < m THEN m - offset ELSE 0
        /\ \A j \in DOMAIN page : offset + j \in DOMAIN s /\ page[j] = s[offset + j]
    BY <1>1, PartIs
  <1>3. m <= offset + limit
    OBVIOUS
  <1>4. \A j \in 1..Len(s) : j <= offset + limit => j <= m
    OBVIOUS
  <1> HIDE DEF m, page
  <1>5. page # <<>> => Len(page) > 0
    BY <1>2
  <1>6. /\ Len(page) <= limit /\ Len(page) <= Len(s)
        /\ page # <<>> => offset < Len(s) /\ limit > 0
    BY <1>1, <1>2, <1>3, <1>5
  <1>7. ASSUME NEW j \in DOMAIN s, offset < j, j <= offset + limit
        PROVE  j - offset \in DOMAIN page /\ page[j - offset] = s[j]
    <2>1. j \in 1..Len(s) /\ j <= m
      BY <1>4, <1>7
    <2>2. j - offset \in 1..Len(page) /\ offset + (j - offset) = j
      BY <1>1, <1>2, <1>7, <2>1
    <2>3. DOMAIN page = 1..Len(page)
      BY <1>2
    <2> QED
      BY <1>2, <2>2, <2>3
  <1> QED
    BY <1>2, <1>6, <1>7 DEF PageOf, page, m

LEMMA GrowingPage ==
    ASSUME NEW s \in Seq(Nat), NEW offset \in Nat, NEW limit \in Nat, Growing(s)
    PROVE  Growing(PageOf(s, offset, limit))
  <1> DEFINE page == PageOf(s, offset, limit)
  <1>1. /\ page \in Seq(Nat)
        /\ \A j \in DOMAIN page : offset + j \in DOMAIN s /\ page[j] = s[offset + j]
    BY PageIs
  <1> HIDE DEF page
  <1>2. Growing(page)
    BY <1>1 DEF Growing
  <1> QED
    BY <1>2 DEF page

LEMMA GrowingConcat ==
    ASSUME NEW s \in Seq(Nat), NEW t \in Seq(Nat), Growing(s), Growing(t),
           \A i \in DOMAIN s, j \in DOMAIN t : s[i] < t[j]
    PROVE  Growing(s \o t)
  BY DEF Growing

LEMMA FromConcat ==
    ASSUME NEW s \in Seq(Nat), NEW t \in Seq(Nat), NEW i \in DOMAIN (s \o t)
    PROVE  \/ i \in DOMAIN s /\ (s \o t)[i] = s[i]
           \/ \E j \in DOMAIN t : (s \o t)[i] = t[j]
  <1>1. i \in 1..(Len(s) + Len(t)) /\ Len(s) \in Nat /\ Len(t) \in Nat
    OBVIOUS
  <1>2. CASE i <= Len(s)
    BY <1>1, <1>2
  <1>3. CASE ~(i <= Len(s))
    <2>1. i - Len(s) \in DOMAIN t /\ (s \o t)[i] = t[i - Len(s)]
      BY <1>1, <1>3
    <2> QED
      BY <2>1
  <1> QED
    BY <1>2, <1>3

LEMMA ContainsConcat ==
    ASSUME NEW s \in Seq(Nat), NEW t \in Seq(Nat), NEW e
    PROVE  Contains(s \o t, e) <=> Contains(s, e) \/ Contains(t, e)
  <1>1. ASSUME Contains(s, e) PROVE Contains(s \o t, e)
    BY <1>1 DEF Contains
  <1>2. ASSUME Contains(t, e) PROVE Contains(s \o t, e)
    <2>1. PICK i \in 1..Len(t) : t[i] = e
      BY <1>2 DEF Contains
    <2>2. Len(s) + i \in 1..Len(s \o t) /\ (s \o t)[Len(s) + i] = e
      BY <2>1
    <2> QED
      BY <2>2 DEF Contains
  <1>3. ASSUME Contains(s \o t, e) PROVE Contains(s, e) \/ Contains(t, e)
    <2>1. PICK i \in 1..Len(s \o t) : (s \o t)[i] = e
      BY <1>3 DEF Contains
    <2>2. i \in 1..Len(s) \/ i - Len(s) \in 1..Len(t)
      BY <2>1
    <2> QED
      BY <2>1, <2>2 DEF Contains
  <1> QED
    BY <1>1, <1>2, <1>3

-----------------------------------------------------------------------------
(* Init, and one lemma per action                                          *)

USE HalfWordAssumption, MaxLimitAssumption, MaxRowIdAssumption

LEMMA PageInitInv == PageInit => PageInv
  <1> SUFFICES ASSUME PageInit
               PROVE  PageInv
    OBVIOUS
  <1> USE DEF PageInit
  <1>1. Table
    BY DEF Table, Old, Growing
  <1>2. Answers
    BY DEF Answers, NoReply, NotCounted
  <1>3. Walking /\ Ahead /\ Covered
    BY DEF Walking, Walks, NoWalk, Old, Growing, Ahead, Covered
  <1> QED
    BY <1>1, <1>2, <1>3 DEF PageInv

LEMMA UntagInv == PageInv /\ Untag => PageInv'
  BY DEF PageInv, Untag, tableVars, Table, Old, Growing, Answers, Walking, Walks, Ahead, Covered,
         Behind, Beyond, PageItems

LEMMA StutterInv == PageInv /\ UNCHANGED pageVars => PageInv'
  BY DEF PageInv, pageVars, tableVars, Table, Old, Growing, Answers, Walking, Walks, Ahead, Covered,
         Behind, Beyond, PageItems

LEMMA AskAnythingInv == PageInv /\ AskAnything => PageInv'
  <1> SUFFICES ASSUME PageInv, AskAnything
               PROVE  PageInv'
    OBVIOUS
  <1>1. walk = NoWalk /\ walk' = walk /\ rows' = rows /\ created' = created
    BY DEF AskAnything, Ask, tableVars
  <1>2. Table'
    BY <1>1 DEF PageInv, Table, Old, Growing
  <1>3. Walking' /\ Ahead' /\ Covered'
    BY <1>1 DEF NoWalk, Walking, Walks, Old, Growing, Ahead, Covered
  <1>4. PICK p \in Word, l \in Word : Ask(Query(p, l))
    BY DEF AskAnything
  <1>5. Answers'
    BY <1>4 DEF Ask, Answers, NoReply, NotCounted, Idle, Query
  <1> QED
    BY <1>2, <1>3, <1>5 DEF PageInv

LEMMA CountInv == PageInv /\ Count => PageInv'
  <1> SUFFICES ASSUME PageInv, Count
               PROVE  PageInv'
    OBVIOUS
  <1>1. /\ asked # Idle /\ counted' = Len(rows)
        /\ UNCHANGED <<rows, created, asked, reply, walk>>
    BY DEF Count, tableVars
  <1>2. Table'
    BY <1>1 DEF PageInv, Table, Old, Growing
  <1>3. Len(rows) \in 0..MaxRowId
    BY DEF PageInv, Table, Old
  <1>4. Answers'
    BY <1>1, <1>3 DEF PageInv, Answers, NotCounted
  <1>5. Walking' /\ Ahead'
    BY <1>1 DEF PageInv, Walking, Walks, Old, Growing, Ahead, Behind, Beyond, PageItems
  <1>6. Covered'
    BY <1>1 DEF PageInv, Covered, Behind, Beyond, PageItems
  <1> QED
    BY <1>2, <1>4, <1>5, <1>6 DEF PageInv

LEMMA CreateRowInv ==
    ASSUME PageInv, NEW body, CreateRow(body)
    PROVE  PageInv'
  <1> DEFINE n == Len(rows)
  <1>1. /\ rows' = Append(rows, created + 1) /\ created' = created + 1
        /\ created < MaxRowId
        /\ UNCHANGED <<tagged, asked, counted, reply, walk>>
    BY DEF CreateRow
  <1>2. /\ rows \in Seq(Nat) /\ n \in Nat /\ n <= created /\ created \in 0..MaxRowId
        /\ \A k \in 1..n : rows[k] \in 1..created
        /\ \A j, k \in 1..n : j < k => rows[j] < rows[k]
    BY DEF PageInv, Table, Old, Growing
  <1>3. /\ rows' \in Seq(Nat) /\ Len(rows') = n + 1 /\ rows'[n + 1] = created + 1
        /\ \A k \in 1..n : rows'[k] = rows[k]
    BY <1>1, <1>2
  <1> HIDE DEF n
  <1>4. DOMAIN rows' = 1..(n + 1)
    BY <1>3
  <1>5. \A s : Old(s) => Old(s)' /\ \A j \in DOMAIN s : s[j] < created + 1
    BY <1>1, <1>2 DEF Old
  <1>6. Table'
    <2>1. \A j \in 1..(n + 1) : rows'[j] \in 1..created'
      BY <1>1, <1>2, <1>3
    <2>2. ASSUME NEW j \in 1..(n + 1), NEW k \in 1..(n + 1), j < k
          PROVE  rows'[j] < rows'[k]
      <3>1. j \in 1..n /\ n \in Nat
        BY <1>2, <2>2
      <3>2. rows'[j] = rows[j] /\ rows[j] \in 1..created /\ created \in Nat
        BY <1>2, <1>3, <3>1
      <3>3. CASE k = n + 1
        <4>1. rows'[k] = created + 1
          BY <1>3, <3>3
        <4> QED
          BY <3>2, <4>1
      <3>4. CASE k # n + 1
        <4>1. k \in 1..n /\ rows'[k] = rows[k]
          BY <1>3, <2>2, <3>1, <3>4
        <4> QED
          BY <1>2, <2>2, <3>1, <3>2, <4>1
      <3> QED
        BY <3>3, <3>4
    <2>3. Old(rows)' /\ Growing(rows)'
      BY <1>3, <1>4, <2>1, <2>2 DEF Old, Growing
    <2> QED
      BY <1>1, <1>2, <1>3, <2>3 DEF Table
  <1>7. Answers'
    BY <1>1, <1>5 DEF PageInv, Answers, Growing
  <1>8. Walking'
    BY <1>1, <1>5 DEF PageInv, Walking, Walks, Growing, Behind
  <1>9. Ahead'
    <2> SUFFICES ASSUME walk.on
                 PROVE  Ahead'
      BY <1>1 DEF Ahead
    <2>1. Old(walk.seen) /\ Old(PageItems)
      BY DEF PageInv, Walking, Answers, PageItems, Old
    <2>2. Beyond' = Beyond /\ PageItems' = PageItems
      BY <1>1 DEF Beyond, Behind, PageItems
    <2>3. /\ \A j \in DOMAIN walk.seen : walk.seen[j] < created + 1
          /\ \A j \in DOMAIN PageItems : PageItems[j] < created + 1
      BY <1>5, <2>1
    <2>4. Ahead
      BY DEF PageInv
    <2>5. DOMAIN rows = 1..n
      BY <1>2 DEF n
    <2> HIDE DEF PageItems, Beyond
    <2>6. \A j \in DOMAIN walk.seen, k \in 1..(n + 1) : Beyond < k => walk.seen[j] < rows'[k]
      <3> SUFFICES ASSUME NEW j \in DOMAIN walk.seen, NEW k \in 1..(n + 1), Beyond < k
                   PROVE  walk.seen[j] < rows'[k]
        OBVIOUS
      <3>1. CASE k = n + 1
        BY <1>3, <2>3, <3>1
      <3>2. CASE k # n + 1
        <4>1. k \in 1..n
          BY <1>2, <3>2
        <4> QED
          BY <1>3, <2>4, <2>5, <4>1 DEF Ahead
      <3> QED
        BY <3>1, <3>2
    <2>7. \A j \in DOMAIN PageItems, k \in 1..(n + 1) : Beyond < k => PageItems[j] < rows'[k]
      <3> SUFFICES ASSUME NEW j \in DOMAIN PageItems, NEW k \in 1..(n + 1), Beyond < k
                   PROVE  PageItems[j] < rows'[k]
        OBVIOUS
      <3>1. CASE k = n + 1
        BY <1>3, <2>3, <3>1
      <3>2. CASE k # n + 1
        <4>1. k \in 1..n
          BY <1>2, <3>2
        <4> QED
          BY <1>3, <2>4, <2>5, <4>1 DEF Ahead
      <3> QED
        BY <3>1, <3>2
    <2> QED
      BY <1>1, <1>4, <2>2, <2>4, <2>6, <2>7 DEF Ahead
  <1>10. Covered'
    <2>1. Beyond' = Beyond /\ PageItems' = PageItems
      BY <1>1 DEF Beyond, Behind, PageItems
    <2>2. walk.began \in Seq(Nat)
      BY DEF PageInv, Walking, Walks
    <2>3. ASSUME walk.on, ~walk.disturbed
          PROVE  /\ Len(walk.began) <= Len(rows')
                 /\ \A j \in DOMAIN walk.began : rows'[j] = walk.began[j]
      <3>1. Len(walk.began) <= n /\ \A j \in 1..Len(walk.began) : rows[j] = walk.began[j]
        BY <2>2, <2>3 DEF PageInv, Covered, n
      <3>2. \A j \in 1..Len(walk.began) : j \in 1..n
        BY <1>2, <2>2, <3>1
      <3>3. \A j \in 1..Len(walk.began) : rows'[j] = walk.began[j]
        BY <1>3, <3>1, <3>2
      <3>4. DOMAIN walk.began = 1..Len(walk.began) /\ Len(walk.began) \in Nat
        BY <2>2
      <3> QED
        BY <1>2, <1>3, <3>1, <3>3, <3>4
    <2> QED
      BY <1>1, <2>1, <2>3 DEF PageInv, Covered
  <1> QED
    BY <1>6, <1>7, <1>8, <1>9, <1>10 DEF PageInv

LEMMA DeleteRowInv ==
    ASSUME PageInv, NEW i \in DOMAIN rows, NEW id, DeleteRow(i, id)
    PROVE  PageInv'
  <1> DEFINE n == Len(rows)
  <1>1. /\ rows' = RemoveAt(rows, i) /\ walk' = [walk EXCEPT !.disturbed = @ \/ walk.on]
        /\ UNCHANGED <<created, tagged, asked, counted, reply>>
    BY DEF DeleteRow
  <1>2. /\ rows \in Seq(Nat) /\ n \in Nat /\ n <= created /\ created \in 0..MaxRowId
        /\ i \in 1..n /\ \A k \in 1..n : rows[k] \in 1..created
        /\ Growing(rows)
    BY DEF PageInv, Table, Old
  <1>3. /\ rows' \in Seq(Nat) /\ Len(rows') = n - 1 /\ Growing(rows)'
        /\ \A k \in 1..(n - 1) : rows'[k] = rows[k] \/ rows'[k] = rows[k + 1]
    <2>1. /\ rows' \in Seq(Nat) /\ Len(rows') = n - 1
          /\ \A k \in 1..(n - 1) : /\ k < i => rows'[k] = rows[k]
                                   /\ i <= k => rows'[k] = rows[k + 1]
      BY <1>1, <1>2, Removal
    <2>2. Growing(RemoveAt(rows, i))
      BY <1>2, GrowingRemoval
    <2>3. Growing(rows)'
      BY <1>1, <2>2 DEF Growing
    <2>4. \A k \in 1..(n - 1) : k < i \/ i <= k
      BY <1>2
    <2> QED
      BY <2>1, <2>3, <2>4
  <1>4. DOMAIN rows' = 1..(n - 1) /\ DOMAIN rows = 1..n
    BY <1>2, <1>3
  <1> HIDE DEF n
  <1>5. Table'
    <2>1. \A k \in 1..(n - 1) : rows'[k] \in 1..created
      <3> TAKE k \in 1..(n - 1)
      <3>1. k \in 1..n /\ k + 1 \in 1..n
        BY <1>2
      <3> QED
        BY <1>2, <1>3, <3>1
    <2> QED
      BY <1>1, <1>2, <1>3, <1>4, <2>1 DEF Table, Old
  <1>6. Answers'
    BY <1>1 DEF PageInv, Answers, Old, Growing
  <1>7. /\ walk \in Walks /\ walk' \in Walks
        /\ walk'.on = walk.on /\ walk'.limit = walk.limit /\ walk'.page = walk.page
        /\ walk'.seen = walk.seen /\ walk'.began = walk.began
        /\ walk'.disturbed = (walk.disturbed \/ walk.on)
    <2>1. walk \in Walks
      BY DEF PageInv, Walking
    <2> QED
      BY <1>1, <2>1 DEF Walks
  <1>8. Walking'
    BY <1>1, <1>7 DEF PageInv, Walking, Old, Growing, Behind
  <1>9. Ahead'
    <2> SUFFICES ASSUME walk.on
                 PROVE  Ahead'
      BY <1>7 DEF Ahead
    <2>1. Beyond' = Beyond /\ PageItems' = PageItems /\ Beyond \in Int
      BY <1>1, <1>7 DEF Beyond, Behind, PageItems, Walks
    <2>2. Ahead
      BY DEF PageInv
    <2> HIDE DEF PageItems, Beyond
    <2>3. ASSUME NEW k \in 1..(n - 1), Beyond < k
          PROVE  /\ \A j \in DOMAIN walk.seen : walk.seen[j] < rows'[k]
                 /\ \A j \in DOMAIN PageItems : PageItems[j] < rows'[k]
      <3>1. k \in 1..n /\ k + 1 \in 1..n /\ Beyond < k + 1
        BY <1>2, <2>1, <2>3
      <3>2. /\ \A j \in DOMAIN walk.seen : walk.seen[j] < rows[k] /\ walk.seen[j] < rows[k + 1]
            /\ \A j \in DOMAIN PageItems : PageItems[j] < rows[k] /\ PageItems[j] < rows[k + 1]
        BY <1>4, <2>2, <2>3, <3>1 DEF Ahead
      <3> QED
        BY <1>3, <2>3, <3>2
    <2> QED
      BY <1>4, <1>7, <2>1, <2>2, <2>3 DEF Ahead
  <1>10. Covered'
    BY <1>7 DEF PageInv, Covered
  <1> QED
    BY <1>5, <1>6, <1>8, <1>9, <1>10 DEF PageInv

(* What Select lists, and where the walk stands when the query is its own. *)
LEMMA SelectInv == PageInv /\ Select => PageInv'
  <1> SUFFICES ASSUME PageInv, Select
               PROVE  PageInv'
    OBVIOUS
  <1> DEFINE page == asked.page
             limit == asked.limit
             offset == CalculateOffset(page, limit)
             items == PageOf(rows, offset, limit)
             total == CalculateTotalPages(counted, limit)
  <1>1. /\ asked # Idle /\ counted # NotCounted /\ asked' = Idle
        /\ UNCHANGED <<rows, created, tagged, counted, walk>>
        /\ reply' = IF offset < 0 \/ limit < 0 THEN [status |-> 500]
                    ELSE [status |-> 200, query |-> asked, items |-> items, pages |-> total,
                          size |-> Len(rows)]
    BY DEF Select, NewResponse, PageOf, tableVars
  <1>2. /\ page \in Word /\ limit \in Word /\ asked = Query(page, limit)
        /\ counted \in 0..MaxRowId
    BY <1>1 DEF PageInv, Answers, Query, NotCounted
  <1>3. offset \in Word /\ ((page - 1) * limit \in Word => offset = (page - 1) * limit)
    BY <1>2, WrapInWord, WrapIsIdentity DEF CalculateOffset, Word
  <1>4. /\ rows \in Seq(Nat) /\ Growing(rows) /\ Len(rows) \in Nat
        /\ \A k \in DOMAIN rows : rows[k] \in 1..created
    BY DEF PageInv, Table, Old
  <1>5. Table'
    BY <1>1 DEF PageInv, Table, Old, Growing
  <1> HIDE DEF page, limit, offset, items, total
  <1>6. CASE offset < 0 \/ limit < 0
    <2>1. reply' = [status |-> 500]
      BY <1>1, <1>6
    <2>2. ~walk.on
      <3> SUFFICES ASSUME walk.on
                   PROVE  FALSE
        OBVIOUS
      <3>1. /\ asked = Query(walk.page, walk.limit) /\ Behind \in 0..MaxRowId
            /\ walk.limit >= 1 /\ walk \in Walks
        BY <1>1 DEF PageInv, Walking
      <3>2. page = walk.page /\ limit = walk.limit
        BY <3>1 DEF page, limit, Query
      <3>3. (page - 1) * limit \in 0..MaxRowId
        BY <3>1, <3>2 DEF Behind
      <3>4. (page - 1) * limit \in Word
        BY <3>3 DEF Word
      <3>5. offset = (page - 1) * limit
        BY <1>3, <3>4
      <3> QED
        BY <1>6, <3>1, <3>2, <3>3, <3>5 DEF Walks
    <2>3. Answers'
      BY <1>1, <1>2, <2>1 DEF Answers, NotCounted
    <2>4. Walking'
      BY <1>1, <2>2 DEF PageInv, Walking, Old, Growing, Walks
    <2>5. Ahead' /\ Covered'
      BY <1>1, <2>2 DEF PageInv, Ahead, Covered
    <2> QED
      BY <1>5, <2>3, <2>4, <2>5 DEF PageInv
  <1>7. CASE ~(offset < 0 \/ limit < 0)
    <2>1. reply' = [status |-> 200, query |-> asked, items |-> items, pages |-> total,
                    size |-> Len(rows)]
      BY <1>1, <1>7
    <2>2. offset \in Nat /\ limit \in Nat
      BY <1>2, <1>3, <1>7 DEF Word
    <2>3. /\ items \in Seq(Nat) /\ Len(items) <= limit /\ Len(items) <= Len(rows)
          /\ \A j \in DOMAIN items : offset + j \in DOMAIN rows /\ items[j] = rows[offset + j]
          /\ \A j \in DOMAIN rows : offset < j /\ j <= offset + limit =>
                j - offset \in DOMAIN items /\ items[j - offset] = rows[j]
          /\ items # <<>> => offset < Len(rows) /\ limit > 0
      BY <1>4, <2>2, PageIs DEF items
    <2>4. Old(items) /\ Growing(items)
      BY <1>4, <2>2, <2>3, GrowingPage DEF items, Old
    <2>5. total \in Word
      <3>1. CASE limit = 0
        BY <1>2, <3>1 DEF total, CalculateTotalPages, Word
      <3>2. CASE limit # 0
        <4>1. total \in 0..counted
          BY <1>2, <2>2, <3>2, TotalPages DEF total
        <4> QED
          BY <1>2, <4>1 DEF Word
      <3> QED
        BY <3>1, <3>2
    <2>6. items # <<>> =>
              (page >= 1 /\ (page - 1) * limit < Len(rows)) \/ (page - 1) * limit \notin Word
      <3> SUFFICES ASSUME items # <<>>, (page - 1) * limit \in Word
                   PROVE  page >= 1 /\ (page - 1) * limit < Len(rows)
        OBVIOUS
      <3>1. offset = (page - 1) * limit /\ limit > 0
        BY <1>3, <2>3
      <3>2. page - 1 \in Int /\ page \in Int
        BY <1>2 DEF Word
      <3>3. page - 1 < 0 => (page - 1) * limit < 0
        BY <2>2, <3>1, <3>2
      <3> QED
        BY <2>2, <2>3, <3>1, <3>2, <3>3
    <2>7. Answers'
      <3>1. /\ reply'.status = 200 /\ reply'.query = asked /\ reply'.items = items
            /\ reply'.pages = total /\ reply'.size = Len(rows)
        BY <2>1
      <3>2. asked \in [page : Word, limit : Word]
        BY <1>1 DEF PageInv, Answers
      <3>4. Old(reply.items)' /\ Growing(reply.items)'
        BY <1>1, <2>4, <3>1 DEF Old, Growing
      <3>5. asked.page = page /\ asked.limit = limit
        BY DEF page, limit
      <3> QED
        BY <1>1, <1>2, <1>4, <2>3, <2>5, <2>6, <3>1, <3>2, <3>4, <3>5 DEF Answers, NotCounted, total
    <2>8. CASE ~walk.on
      <3>1. Walking' /\ Ahead' /\ Covered'
        BY <1>1, <2>8 DEF PageInv, Walking, Old, Growing, Walks, Ahead, Covered
      <3> QED
        BY <1>5, <2>7, <3>1 DEF PageInv
    <2>9. CASE walk.on
      <3>1. /\ asked = Query(walk.page, walk.limit) /\ Behind \in 0..MaxRowId
            /\ walk.limit >= 1 /\ walk \in Walks /\ Walking /\ Ahead /\ Covered
        BY <1>1, <2>9 DEF PageInv, Walking
      <3>2. page = walk.page /\ limit = walk.limit
        BY <3>1 DEF page, limit, Query
      <3>3. offset = Behind
        <4>1. (page - 1) * limit \in Word
          BY <3>1, <3>2 DEF Behind, Word
        <4> QED
          BY <1>3, <3>2, <4>1 DEF Behind
      <3>4. /\ Behind' = Behind /\ Beyond = Behind /\ PageItems = <<>>
            /\ Beyond' = Behind + walk.limit /\ PageItems' = items
        BY <1>1, <2>1 DEF Behind, Beyond, PageItems
      <3>5. Walking'
        BY <1>1, <2>1, <3>1, <3>4 DEF Walking, Old, Growing
      <3>6. Ahead'
        <4>1. \A j \in DOMAIN rows : j \in Nat
          BY <1>4
        <4>2. ASSUME NEW j \in DOMAIN walk.seen, NEW k \in DOMAIN rows, Behind + walk.limit < k
              PROVE  walk.seen[j] < rows[k]
          BY <2>9, <3>1, <3>4, <4>1, <4>2 DEF Ahead, Walks
        <4>3. ASSUME NEW j \in DOMAIN items, NEW k \in DOMAIN rows, Behind + walk.limit < k
              PROVE  items[j] < rows[k]
          <5>1. j \in 1..Len(items)
            BY <2>3
          <5>2. offset + j \in DOMAIN rows /\ items[j] = rows[offset + j]
            BY <2>3
          <5>3. offset + j < k
            BY <2>2, <2>3, <3>2, <3>3, <4>1, <4>3, <5>1
          <5> QED
            BY <1>4, <5>2, <5>3 DEF Growing
        <4>4. ASSUME NEW j \in DOMAIN walk.seen, NEW k \in DOMAIN items
              PROVE  walk.seen[j] < items[k]
          <5>1. k \in 1..Len(items) /\ offset + k \in DOMAIN rows /\ items[k] = rows[offset + k]
            BY <2>3
          <5>2. Behind < offset + k
            BY <2>2, <3>3, <5>1
          <5> QED
            BY <2>9, <3>1, <3>4, <5>1, <5>2 DEF Ahead
        <4> QED
          BY <1>1, <3>4, <4>2, <4>3, <4>4 DEF Ahead
      <3>7. Covered'
        <4> SUFFICES ASSUME ~walk.disturbed, NEW j \in DOMAIN walk.began, j <= Behind + walk.limit
                     PROVE  Contains(walk.seen, walk.began[j]) \/ Contains(items, walk.began[j])
          BY <1>1, <2>9, <3>1, <3>4 DEF Covered
        <4>1. j \in DOMAIN rows /\ rows[j] = walk.began[j] /\ j \in Nat
          <5>1. walk.began \in Seq(Nat)
            BY <3>1 DEF Walks
          <5>2. Len(walk.began) <= Len(rows) /\ rows[j] = walk.began[j]
            BY <2>9, <3>1 DEF Covered
          <5>3. j \in 1..Len(walk.began) /\ j \in 1..Len(rows)
            BY <1>4, <5>1, <5>2
          <5> QED
            BY <1>4, <5>2, <5>3
        <4>2. CASE j <= Behind
          BY <2>9, <3>1, <3>4, <4>2 DEF Covered, Contains
        <4>3. CASE ~(j <= Behind)
          <5>1. offset < j /\ j <= offset + limit
            BY <2>2, <3>2, <3>3, <4>1, <4>3
          <5>2. j - offset \in DOMAIN items /\ items[j - offset] = walk.began[j]
            BY <2>3, <4>1, <5>1
          <5>3. j - offset \in 1..Len(items)
            BY <2>3, <5>2
          <5> QED
            BY <5>2, <5>3 DEF Contains
        <4> QED
          BY <4>2, <4>3
      <3> QED
        BY <1>5, <2>7, <3>5, <3>6, <3>7 DEF PageInv
    <2> QED
      BY <2>8, <2>9
  <1> QED
    BY <1>6, <1>7

LEMMA BeginWalkInv ==
    ASSUME PageInv, NEW limit \in 1..MaxLimit, BeginWalk(limit)
    PROVE  PageInv'
  <1>1. /\ asked = Idle /\ UNCHANGED <<rows, created>> /\ counted' = NotCounted
        /\ walk' = [on |-> TRUE, limit |-> limit, page |-> 1, seen |-> <<>>, began |-> rows,
                    disturbed |-> FALSE]
        /\ Ask(Query(1, limit))
    BY DEF BeginWalk, Ask, tableVars
  <1>2. asked' = Query(1, limit) /\ reply' = NoReply
    BY <1>1 DEF Ask, GetQueryParams, Query
  <1>3. limit \in Word /\ 1 \in Word /\ limit \in Nat /\ Query(1, limit) # Idle
    BY DEF Word, Query, Idle
  <1>4. /\ rows \in Seq(Nat) /\ Growing(rows) /\ Len(rows) \in Nat
    BY DEF PageInv, Table, Old
  <1>5. Table'
    BY <1>1 DEF PageInv, Table, Old, Growing
  <1>6. Answers'
    BY <1>1, <1>2, <1>3 DEF Answers, Query, NoReply, NotCounted
  <1>7. Behind' = 0 /\ Beyond' = 0 /\ PageItems' = <<>>
    BY <1>1, <1>2, <1>3 DEF Behind, Beyond, PageItems
  <1>8. Walking'
    <2>1. walk' \in Walks
      BY <1>1, <1>4 DEF Walks
    <2> QED
      BY <1>1, <1>2, <1>3, <1>7, <2>1 DEF Walking, Old, Growing
  <1>9. Ahead'
    BY <1>1, <1>7 DEF Ahead
  <1>10. Covered'
    BY <1>1, <1>4, <1>7 DEF Covered
  <1> QED
    BY <1>5, <1>6, <1>8, <1>9, <1>10 DEF PageInv

LEMMA PageReadInv == PageInv /\ PageRead => PageInv'
  <1> SUFFICES ASSUME PageInv, PageRead
               PROVE  PageInv'
    OBVIOUS
  <1> DEFINE k == walk.page
             limit == walk.limit
             seen == walk.seen \o reply.items
  <1>1. walk.on /\ asked = Idle /\ reply.status = 200
    BY DEF PageRead
  <1>2. /\ walk \in Walks /\ k \in 1..(HalfWord - 1) /\ limit \in 1..MaxLimit
        /\ Behind \in 0..MaxRowId /\ reply.query = Query(k, limit)
        /\ Old(walk.seen) /\ Growing(walk.seen)
    BY <1>1 DEF PageInv, Walking, Walks
  <1>3. /\ Old(reply.items) /\ Growing(reply.items) /\ counted \in 0..MaxRowId
        /\ reply.pages = CalculateTotalPages(counted, limit)
    BY <1>1, <1>2 DEF PageInv, Answers, Query
  <1>4. /\ reply.pages \in 0..counted /\ counted <= reply.pages * limit
        /\ \A m \in Nat : m < reply.pages => m * limit < counted
    <2>1. limit \in Nat \ {0} /\ counted \in Nat
      BY <1>2, <1>3
    <2> HIDE DEF limit
    <2> QED
      BY <1>3, <2>1, TotalPages
  <1>5. Beyond = Behind + limit /\ PageItems = reply.items /\ Behind = (k - 1) * limit
    BY <1>1 DEF Beyond, PageItems, Behind
  <1>6. Beyond = k * limit
    BY <1>2, <1>5
  <1>7. Old(seen) /\ Growing(seen)
    <2>1. \A i \in DOMAIN walk.seen, j \in DOMAIN reply.items : walk.seen[i] < reply.items[j]
      BY <1>1, <1>5 DEF PageInv, Ahead
    <2>2. /\ walk.seen \in Seq(Nat) /\ reply.items \in Seq(Nat)
      BY <1>2, <1>3 DEF Old
    <2>3. Growing(seen)
      BY <1>2, <1>3, <2>1, <2>2, GrowingConcat
    <2>4. seen \in Seq(Nat)
      BY <2>2
    <2>5. \A i \in DOMAIN seen : \/ i \in DOMAIN walk.seen /\ seen[i] = walk.seen[i]
                                 \/ \E j \in DOMAIN reply.items : seen[i] = reply.items[j]
      BY <2>2, FromConcat
    <2> HIDE DEF seen
    <2>6. \A i \in DOMAIN seen : seen[i] \in 1..created
      BY <1>2, <1>3, <2>5 DEF Old
    <2>7. Old(seen)
      BY <2>4, <2>6 DEF Old
    <2> QED
      BY <2>3, <2>7
  <1>8. \A e : Contains(seen, e) <=> Contains(walk.seen, e) \/ Contains(reply.items, e)
    BY <1>2, <1>3, ContainsConcat DEF Old
  <1>9. UNCHANGED <<rows, created>>
    BY DEF PageRead, Ask, tableVars
  <1>10. Table'
    BY <1>9 DEF PageInv, Table, Old, Growing
  <1>11. Len(rows) \in Nat /\ walk.began \in Seq(Nat) /\ \A j \in DOMAIN rows : j \in Nat
    BY <1>2 DEF PageInv, Table, Old, Walks
  <1>12. CASE k >= reply.pages
    <2>1. /\ walk' = [walk EXCEPT !.on = FALSE, !.seen = seen] /\ reply' = NoReply
          /\ UNCHANGED <<asked, counted>>
      BY <1>12 DEF PageRead
    <2>2. /\ walk' \in Walks /\ ~walk'.on /\ walk'.seen = seen /\ walk'.began = walk.began
          /\ walk'.disturbed = walk.disturbed
      BY <1>2, <1>7, <2>1 DEF Walks, Old
    <2>3. Answers'
      BY <1>1, <1>3, <2>1 DEF Answers, NoReply, NotCounted
    <2>4. Walking' /\ Ahead'
      BY <1>7, <1>9, <2>2 DEF Walking, Ahead, Old, Growing
    <2>5. ASSUME ~walk.disturbed, NEW j \in DOMAIN walk.began
          PROVE  Contains(seen, walk.began[j])
      <3>1. Len(walk.began) <= counted /\ j \in 1..Len(walk.began)
        BY <1>1, <1>3, <1>11, <2>5 DEF PageInv, Covered, NotCounted
      <3>2. reply.pages * limit <= k * limit
        BY <1>2, <1>3, <1>4, <1>12, TimesMonotone
      <3>3. j <= Beyond
        BY <1>2, <1>3, <1>4, <1>6, <1>11, <3>1, <3>2
      <3> QED
        BY <1>1, <1>5, <1>8, <2>5, <3>3 DEF PageInv, Covered
    <2>6. Covered'
      BY <2>2, <2>5 DEF Covered
    <2> QED
      BY <1>10, <2>3, <2>4, <2>6 DEF PageInv
  <1>13. CASE ~(k >= reply.pages)
    <2>1. /\ walk' = [walk EXCEPT !.page = @ + 1, !.seen = seen]
          /\ Ask(Query(k + 1, limit))
      BY <1>13 DEF PageRead
    <2>2. /\ k + 1 \in 1..(HalfWord - 1) /\ k * limit \in 0..MaxRowId
      BY <1>2, <1>3, <1>4, <1>6, <1>13, <1>5
    <2>3. asked' = Query(k + 1, limit) /\ reply' = NoReply /\ counted' = NotCounted
      BY <1>2, <2>1, <2>2 DEF Ask, GetQueryParams, Query
    <2>4. k + 1 \in Word /\ limit \in Word /\ Query(k + 1, limit) # Idle
      BY <1>2, <2>2 DEF Word, Query, Idle
    <2>5. Answers'
      BY <2>3, <2>4 DEF Answers, Query, NoReply, NotCounted
    <2>6. /\ walk' \in Walks /\ walk'.on /\ walk'.seen = seen /\ walk'.began = walk.began
          /\ walk'.disturbed = walk.disturbed /\ walk'.page = k + 1 /\ walk'.limit = limit
      <3>1. walk' = [[walk EXCEPT !.page = k + 1] EXCEPT !.seen = seen]
        BY <2>1
      <3>2. seen \in Seq(Nat) /\ k + 1 \in 0..(HalfWord - 1) /\ walk \in Walks
        BY <1>2, <1>7, <2>2 DEF Old
      <3> HIDE DEF seen, k
      <3> QED
        BY <1>1, <3>1, <3>2 DEF Walks
    <2>7. Behind' = Beyond /\ Beyond' = Beyond /\ PageItems' = <<>>
      <3>1. Behind' = (k + 1 - 1) * limit
        <4>1. Behind' = (walk'.page - 1) * walk'.limit
          BY DEF Behind
        <4>2. walk'.page = k + 1 /\ walk'.limit = limit
          BY <2>6
        <4> DEFINE page2 == walk'.page
                   limit2 == walk'.limit
        <4>3. Behind' = (page2 - 1) * limit2 /\ page2 = k + 1 /\ limit2 = limit
          BY <4>1, <4>2
        <4>4. k \in Int /\ limit \in Int
          BY <1>2
        <4> HIDE DEF k, limit, page2, limit2
        <4> QED
          BY <4>3, <4>4
      <3>2. Behind' = Beyond
        <4>1. k \in Int /\ limit \in Int
          BY <1>2
        <4> HIDE DEF k, limit
        <4> QED
          BY <1>6, <3>1, <4>1
      <3> QED
        BY <2>3, <2>4, <3>2 DEF Beyond, PageItems
    <2>8. Walking'
      <3>1. Old(walk.seen)' /\ Growing(walk.seen)'
        BY <1>7, <1>9, <2>6 DEF Old, Growing
      <3>2. Behind' \in 0..MaxRowId
        BY <1>6, <2>2, <2>7
      <3>3. walk'.limit >= 1 /\ walk'.page >= 1 /\ asked' # Idle /\ asked' = Query(walk'.page, walk'.limit)
        BY <1>2, <2>2, <2>3, <2>4, <2>6
      <3> HIDE DEF k, limit, seen
      <3> QED
        BY <2>6, <3>1, <3>2, <3>3 DEF Walking
    <2>9. Ahead'
      <3>1. walk.seen \in Seq(Nat) /\ reply.items \in Seq(Nat)
        BY <1>2, <1>3 DEF Old
      <3>2. \A i \in DOMAIN seen : \/ i \in DOMAIN walk.seen /\ seen[i] = walk.seen[i]
                                   \/ \E j \in DOMAIN reply.items : seen[i] = reply.items[j]
        BY <3>1, FromConcat
      <3> HIDE DEF seen
      <3>3. \A i \in DOMAIN seen, j \in DOMAIN rows : Beyond < j => seen[i] < rows[j]
        BY <1>1, <1>5, <3>2 DEF PageInv, Ahead
      <3> QED
        BY <1>9, <2>6, <2>7, <3>3 DEF Ahead
    <2>10. Covered'
      <3> SUFFICES ASSUME ~walk.disturbed
                   PROVE  Covered'
        BY <2>6 DEF Covered
      <3>1. /\ Len(walk.began) <= Len(rows)
            /\ \A j \in DOMAIN walk.began : rows[j] = walk.began[j]
            /\ \A j \in DOMAIN walk.began : j <= Beyond => Contains(seen, walk.began[j])
        BY <1>1, <1>5, <1>8 DEF PageInv, Covered
      <3> HIDE DEF seen
      <3> QED
        BY <1>9, <2>3, <2>6, <2>7, <3>1 DEF Covered
    <2> QED
      BY <1>10, <2>5, <2>8, <2>9, <2>10 DEF PageInv
  <1> QED
    BY <1>12, <1>13

-----------------------------------------------------------------------------

THEOREM PageInvariance == PageSpec => []PageInv
  <1>1. PageInv /\ [PageNext]_pageVars => PageInv'
    <2> SUFFICES ASSUME PageInv, [PageNext]_pageVars
                 PROVE  PageInv'
      OBVIOUS
    <2>1. ASSUME NEW body, CreateRow(body)
          PROVE  PageInv'
      BY <2>1, CreateRowInv
    <2>2. ASSUME NEW i \in DOMAIN rows, NEW id, DeleteRow(i, id)
          PROVE  PageInv'
      BY <2>2, DeleteRowInv
    <2>3. ASSUME NEW limit \in 1..MaxLimit, BeginWalk(limit)
          PROVE  PageInv'
      BY <2>3, BeginWalkInv
    <2> QED
      BY <2>1, <2>2, <2>3, AskAnythingInv, UntagInv, CountInv, SelectInv, PageReadInv, StutterInv
      DEF PageNext
  <1> QED
    BY PageInitInv, <1>1, PTL DEF PageSpec

(* Type correctness: page counts never overflow, and an answer lists no    *)
(* more rows than there were.                                              *)
THEOREM PageTypeCorrect == PageSpec => []PageTypeOK
  <1>1. PageInv /\ tagged \in BOOLEAN => PageTypeOK
    <2> SUFFICES ASSUME PageInv, tagged \in BOOLEAN
                 PROVE  PageTypeOK
      OBVIOUS
    <2>1. Len(rows) <= created /\ \A i \in DOMAIN rows : rows[i] \in 1..created
      BY DEF PageInv, Table, Old
    <2>2. walk.on \in BOOLEAN /\ walk.page \in Word /\ walk.limit \in 0..MaxLimit
      BY DEF PageInv, Walking, Walks, Word
    <2>3. reply.status = 200 => reply.pages \in Word /\ Len(reply.items) <= reply.size
      BY DEF PageInv, Answers
    <2>4. asked = Idle \/ asked \in [page : Word, limit : Word]
      BY DEF PageInv, Answers
    <2> QED
      BY <2>1, <2>2, <2>3, <2>4 DEF PageTypeOK, PageInv, Table, Answers
  <1>2. PageInit => tagged \in BOOLEAN
    BY DEF PageInit
  <1>3. tagged \in BOOLEAN /\ [PageNext]_pageVars => (tagged \in BOOLEAN)'
    BY DEF PageNext, pageVars, CreateRow, DeleteRow, AskAnything, Ask, Untag, Count, Select,
           BeginWalk, PageRead
  <1>4. PageSpec => [](tagged \in BOOLEAN)
    BY <1>2, <1>3, PTL DEF PageSpec
  <1> QED
    BY <1>1, <1>4, PageInvariance, PTL

(* pagination.go:29-68: a walk sees no row twice, misses none that nobody  *)
(* deletes around it, and is never refused; and rows are listed only on    *)
(* pages that exist, but for an overflow.                                  *)
THEOREM PagesHold == PageSpec => []PagesHoldTheTable
  <1>1. PageInv => PagesHoldTheTable
    <2> SUFFICES ASSUME PageInv
                 PROVE  PagesHoldTheTable
      OBVIOUS
    <2>1. IsInjective(walk.seen)
      <3>1. /\ walk.seen \in Seq(Nat)
            /\ \A i, j \in 1..Len(walk.seen) : i < j => walk.seen[i] < walk.seen[j]
        BY DEF PageInv, Walking, Old, Growing
      <3>2. ASSUME NEW i \in 1..Len(walk.seen), NEW j \in 1..Len(walk.seen),
                   walk.seen[i] = walk.seen[j]
            PROVE  i = j
        <4>1. i < j \/ j < i \/ i = j
          BY <3>1
        <4>2. walk.seen[i] \in Nat /\ walk.seen[j] \in Nat
          BY <3>1
        <4> QED
          BY <3>1, <3>2, <4>1, <4>2
      <3> QED
        BY <3>1, <3>2 DEF IsInjective
    <2>2. ~walk.on /\ ~walk.disturbed => \A j \in DOMAIN walk.began : Contains(walk.seen, walk.began[j])
      BY DEF PageInv, Covered
    <2>3. walk.on => reply.status \notin {400, 500}
      BY DEF PageInv, Walking, Answers
    <2> QED
      BY <2>1, <2>2, <2>3 DEF PageInv, Answers, PagesHoldTheTable
  <1> QED
    BY <1>1, PageInvariance, PTL

=============================================================================
