--------------------- MODULE AnalyticsWriter_proofs ---------------------
(***************************************************************************)
(* Proofs about AnalyticsWriter, for every value of the constants.         *)
(***************************************************************************)
EXTENDS AnalyticsWriter, FiniteSetTheorems, TLAPS

-----------------------------------------------------------------------------
(* The inductive invariant *)

Ascending(q) == \A i, j \in DOMAIN q : i < j => q[i].id < q[j].id
Before(p, q) == \A i \in DOMAIN p, j \in DOMAIN q : p[i].id < q[j].id

(* A row has one of the n ids given so far, and refers to an earlier one.  *)
Numbered(u, n) == u.id <= n /\ u.rematchOf < u.id

(* The row that u refers to is stored or in ids, or will not be stored.    *)
Settled(u, ids) ==
    u.rematchOf # NoRow => u.rematchOf \in StoredIds \cup ids \/ u.rematchOf \notin BufferedIds

(* The parts of TypeOK.                                                    *)
OpenOK ==
    /\ open \in Seq(Sessions) /\ Len(open) <= MaxOpen
    /\ \A i, j \in DOMAIN open : open[i].match = open[j].match => i = j
BufferOK ==
    /\ outbox \in Seq(Rows) /\ Len(outbox) <= Capacity
    /\ Ascending(outbox)
SealedOK ==
    /\ sealed \in Nat /\ dropped \in Nat
    /\ lastSessionIdByRoom \in [Matches -> {NoRow} \cup Ids]
FlushOK ==
    /\ flush \in [stage : {"none", "open", "hanging", "committed"}, batch : Seq(Rows),
                  days : Nat]
    /\ Len(flush.batch) <= BatchSize
CountsOK == {days, dayRows, counted, doubled, mishaps} \subseteq Nat
WriterOK == failureStreak \in Nat /\ wait \in 0..BackoffMax
ClosingOK ==
    /\ mode \in {"up", "draining", "awaiting", "closed"}
    /\ batches \in 0..MaxBatches
    /\ cutShort \in BOOLEAN
DatabaseOK == rows \subseteq Rows /\ late \in Seq([batch : Seq(Rows), days : Nat])

(* There are ids left for the matches that are open.                       *)
IdsLeft == sealed + Len(open) <= MaxSealed

(* Every row has been given its id, wherever it is.                        *)
BufferNumbered == \A i \in DOMAIN outbox : Numbered(outbox[i], sealed)
FlushNumbered == \A i \in DOMAIN flush.batch : Numbered(flush.batch[i], sealed)
DatabaseNumbered ==
    /\ \A u \in rows : Numbered(u, sealed)
    /\ \A i \in DOMAIN late : \A k \in DOMAIN late[i].batch : Numbered(late[i].batch[k], sealed)
LastNumbered == \A m \in Matches : lastSessionIdByRoom[m] <= sealed

(* A flush holds what was at the front of the buffer, and nothing when     *)
(* there is none; what it has committed is stored.                         *)
FlushInOrder ==
    /\ Ascending(flush.batch)
    /\ Before(flush.batch, outbox)
    /\ flush.stage = "none" => flush = NoFlush
    /\ flush.stage = "committed" => IdsIn(flush.batch) \subseteq StoredIds

(* The rows of a transaction that is still open may be stored.             *)
LateSettled ==
    \A i \in DOMAIN late : \A k \in DOMAIN late[i].batch :
        Settled(late[i].batch[k], IdsIn(late[i].batch))

(* The parts of NothingLostSilently.                                       *)
RowsCounted == Cardinality(1..sealed \ (BufferedIds \cup StoredIds)) <= dropped
DaysCounted ==
    dayRows + days + (IF flush.stage \in {"open", "hanging"} THEN flush.days ELSE 0)
        = counted + doubled

(* All that is said of the rows.                                           *)
RowsInv ==
    /\ BufferOK /\ SealedOK /\ FlushOK /\ DatabaseOK
    /\ BufferNumbered /\ FlushNumbered /\ DatabaseNumbered /\ LastNumbered
    /\ FlushInOrder
    /\ LateSettled
    /\ RowsCounted
    /\ RematchRefersBack

Inv ==
    /\ OpenOK /\ CountsOK /\ WriterOK /\ ClosingOK
    /\ IdsLeft
    /\ DaysCounted
    /\ RowsInv

-----------------------------------------------------------------------------
(* Positions, powers, sequences *)

(* The positions in I can be walked through in order.                      *)
LEMMA InOrderWalks ==
  ASSUME NEW n \in Nat, NEW I \in SUBSET (1..n)
  PROVE  /\ IsFiniteSet(I) /\ Cardinality(I) \in Nat
         /\ InOrder(I) \in [1..Cardinality(I) -> I]
         /\ \A j, k \in 1..Cardinality(I) : j < k => InOrder(I)[j] < InOrder(I)[k]
<1> DEFINE size == Cardinality(I)
           Upto(i) == {j \in I : j <= i}
           rank == [i \in I |-> Cardinality(Upto(i))]
<1>0. IsFiniteSet(1..n) /\ \A i \in I : i \in Int
  BY FS_Interval
<1>1. IsFiniteSet(I)
  BY <1>0, FS_Subset
<1>2. size \in Nat
  BY <1>1, FS_CardinalityType
<1>3. ASSUME NEW i \in I
      PROVE  IsFiniteSet(Upto(i)) /\ Cardinality(Upto(i)) \in 1..size
  <2>1. Upto(i) \in SUBSET I
    OBVIOUS
  <2>2. IsFiniteSet(Upto(i)) /\ Cardinality(Upto(i)) <= size
    BY <1>1, <2>1, FS_Subset
  <2>3. i \in Upto(i)
    OBVIOUS
  <2>4. Cardinality(Upto(i)) \in Nat /\ Cardinality(Upto(i)) # 0
    BY <2>2, <2>3, FS_CardinalityType, FS_EmptySet
  <2> QED
    BY <1>2, <2>2, <2>4
<1>4. ASSUME NEW i \in I, NEW j \in I, i < j
      PROVE  rank[i] < rank[j]
  <2>1. Upto(i) \in SUBSET Upto(j) /\ Upto(i) # Upto(j)
    <3>1. j \in Upto(j) /\ j \notin Upto(i)
      BY <1>0, <1>4
    <3>2. \A k \in I : k <= i => k <= j
      BY <1>0, <1>4
    <3> QED
      BY <3>1, <3>2
  <2>2. Cardinality(Upto(i)) <= Cardinality(Upto(j))
        /\ Cardinality(Upto(i)) # Cardinality(Upto(j))
    BY <1>3, <2>1, FS_Subset
  <2>3. Cardinality(Upto(i)) \in Int /\ Cardinality(Upto(j)) \in Int
    BY <1>3
  <2> HIDE DEF Upto
  <2> QED
    BY <2>2, <2>3
<1>5. rank \in [I -> 1..size]
  BY <1>3
<1> HIDE DEF rank, size
<1>6. rank \in Injection(I, 1..size)
  <2>1. ASSUME NEW i \in I, NEW j \in I, i # j
        PROVE  rank[i] # rank[j]
    <3>1. i < j \/ j < i
      BY <2>1
    <3>2. rank[i] \in Int /\ rank[j] \in Int
      BY <1>5
    <3> QED
      BY <1>4, <3>1, <3>2
  <2> QED
    BY <1>5, <2>1 DEF Injection, IsInjective
<1>7. rank \in Surjection(I, 1..size)
  <2>1. IsFiniteSet(1..size) /\ Cardinality(1..size) = size
    BY <1>2, FS_Interval
  <2> QED
    BY <1>6, <2>1, FS_Injection DEF size
<1> DEFINE at == [k \in 1..size |-> CHOOSE i \in I : rank[i] = k]
<1>8. ASSUME NEW k \in 1..size
      PROVE  at[k] \in I /\ rank[at[k]] = k
  BY <1>7 DEF Surjection
<1>9. at \in [1..size -> I]
  BY <1>8
<1> HIDE DEF at
<1>10. \A j, k \in DOMAIN at : j < k => at[j] < at[k]
  <2>1. SUFFICES ASSUME NEW j \in 1..size, NEW k \in 1..size, j < k, ~(at[j] < at[k])
                 PROVE  FALSE
    BY <1>9
  <2>2. at[j] \in I /\ at[k] \in I /\ rank[at[j]] = j /\ rank[at[k]] = k
    BY <1>8
  <2>3. at[k] < at[j] \/ at[k] = at[j]
    <3>1. at[j] \in Int /\ at[k] \in Int
      BY <1>0, <2>2
    <3> QED
      BY <2>1, <3>1
  <2>4. rank[at[k]] < rank[at[j]] \/ rank[at[k]] = rank[at[j]]
    BY <1>4, <2>2, <2>3
  <2>5. k < j \/ k = j
    BY <2>2, <2>4
  <2>6. j \in Int /\ k \in Int
    BY <1>2
  <2> QED
    BY <2>1, <2>5, <2>6
<1>11. /\ InOrder(I) \in [1..size -> I]
       /\ \A j, k \in DOMAIN InOrder(I) : j < k => InOrder(I)[j] < InOrder(I)[k]
  BY <1>9, <1>10 DEF InOrder, size
<1> QED
  BY <1>1, <1>2, <1>11 DEF size

(* What stands at some positions, one after another.                       *)
LEMMA ThoseStandThere ==
  ASSUME NEW S, NEW ss \in Seq(S), NEW I \in SUBSET DOMAIN ss
  PROVE  /\ IsFiniteSet(I)
         /\ Those(ss, I) \in Seq(S)
         /\ Len(Those(ss, I)) = Cardinality(I)
         /\ DOMAIN Those(ss, I) = 1..Cardinality(I)
         /\ InOrder(I) \in [1..Cardinality(I) -> I]
         /\ \A k \in 1..Cardinality(I) :
                Those(ss, I)[k] = ss[InOrder(I)[k]]
         /\ \A j, k \in 1..Cardinality(I) : InOrder(I)[j] = InOrder(I)[k] => j = k
<1>1. Len(ss) \in Nat /\ I \in SUBSET (1..Len(ss))
  OBVIOUS
<1>2. /\ IsFiniteSet(I) /\ Cardinality(I) \in Nat
      /\ InOrder(I) \in [1..Cardinality(I) -> I]
      /\ \A j, k \in 1..Cardinality(I) : j < k => InOrder(I)[j] < InOrder(I)[k]
  BY <1>1, InOrderWalks
<1>3. \A k \in 1..Cardinality(I) : ss[InOrder(I)[k]] \in S
  BY <1>2
<1>4. \A j, k \in 1..Cardinality(I) : InOrder(I)[j] = InOrder(I)[k] => j = k
  <2>1. \A k \in 1..Cardinality(I) : InOrder(I)[k] \in Int
    BY <1>1, <1>2
  <2> QED
    BY <1>2, <2>1
<1>5. Those(ss, I) \in [1..Cardinality(I) -> S]
  BY <1>3 DEF Those
<1>6. Those(ss, I) \in Seq(S) /\ Len(Those(ss, I)) = Cardinality(I)
  BY <1>2, <1>5
<1> QED
  BY <1>2, <1>4, <1>5, <1>6 DEF Those

(* A power of two is a number.                                             *)
LEMMA PowerOfTwo ==
  ASSUME NEW n \in Nat
  PROVE  2^n \in Nat
<1>1. IsFiniteSet(1..n) /\ Cardinality(1..n) = n
  BY FS_Interval
<1>2. IsFiniteSet(SUBSET (1..n)) /\ Cardinality(SUBSET (1..n)) = 2^Cardinality(1..n)
  BY <1>1, FS_SUBSET
<1>3. Cardinality(SUBSET (1..n)) \in Nat
  BY <1>2, FS_CardinalityType
<1> QED
  BY <1>1, <1>2, <1>3

(* The backoff is between zero and its maximum.                            *)
LEMMA BackoffBounded ==
  ASSUME NEW streak \in Nat \ {0}
  PROVE  Backoff(streak) \in 0..BackoffMax
<1>1. 2^(streak - 1) \in Nat
  BY PowerOfTwo
<1>2. BackoffBase \in Nat /\ BackoffMax \in Nat
  BY SizesAssumption
<1> DEFINE p == 2^(streak - 1)
<1>3. p \in Nat /\ Backoff(streak) = Min2(BackoffMax, BackoffBase * p)
  BY <1>1 DEF Backoff
<1> HIDE DEF p
<1>4. BackoffBase * p \in Nat
  BY <1>2, <1>3
<1> QED
  BY <1>2, <1>3, <1>4 DEF Min2

-----------------------------------------------------------------------------
(* Queues of rows *)

(* The ids of a queue behind another.                                      *)
LEMMA ConcatRows ==
  ASSUME NEW p \in Seq(Rows), NEW q \in Seq(Rows)
  PROVE  /\ p \o q \in Seq(Rows)
         /\ IdsIn(p \o q) = IdsIn(p) \cup IdsIn(q)
         /\ Ascending(p) /\ Ascending(q) /\ Before(p, q) => Ascending(p \o q)
         /\ \A i \in DOMAIN (p \o q) :
                \/ \E j \in DOMAIN p : (p \o q)[i] = p[j]
                \/ \E j \in DOMAIN q : (p \o q)[i] = q[j]
<1> DEFINE r == p \o q
<1>1. /\ r \in Seq(Rows)
      /\ Len(r) = Len(p) + Len(q)
      /\ Len(p) \in Nat /\ Len(q) \in Nat
      /\ \A i \in 1..Len(p) : r[i] = p[i]
      /\ \A i \in 1..Len(q) : r[Len(p) + i] = q[i]
  OBVIOUS
<1>2. /\ DOMAIN p = 1..Len(p) /\ DOMAIN q = 1..Len(q) /\ DOMAIN r = 1..Len(r)
  BY <1>1
<1> HIDE DEF r
<1>3. ASSUME NEW i \in DOMAIN r
      PROVE  \/ i \in 1..Len(p) /\ r[i] = p[i]
             \/ i - Len(p) \in 1..Len(q) /\ r[i] = q[i - Len(p)] /\ i > Len(p)
  <2>1. CASE i \in 1..Len(p)
    BY <1>1, <2>1
  <2>2. CASE i \notin 1..Len(p)
    <3>1. i - Len(p) \in 1..Len(q) /\ i > Len(p) /\ i = Len(p) + (i - Len(p))
      BY <1>1, <1>2, <2>2
    <3> QED
      BY <1>1, <3>1
  <2> QED
    BY <2>1, <2>2
<1>4. IdsIn(r) = IdsIn(p) \cup IdsIn(q)
  <2>1. ASSUME NEW x \in IdsIn(r)
        PROVE  x \in IdsIn(p) \cup IdsIn(q)
    <3>1. PICK i \in DOMAIN r : x = r[i].id
      BY DEF IdsIn
    <3> QED
      BY <1>2, <1>3, <3>1 DEF IdsIn
  <2>2. ASSUME NEW x \in IdsIn(p)
        PROVE  x \in IdsIn(r)
    <3>1. PICK i \in DOMAIN p : x = p[i].id
      BY DEF IdsIn
    <3>2. i \in DOMAIN r /\ r[i] = p[i]
      BY <1>1, <1>2
    <3> QED
      BY <3>1, <3>2 DEF IdsIn
  <2>3. ASSUME NEW x \in IdsIn(q)
        PROVE  x \in IdsIn(r)
    <3>1. PICK i \in DOMAIN q : x = q[i].id
      BY DEF IdsIn
    <3>2. Len(p) + i \in DOMAIN r /\ r[Len(p) + i] = q[i]
      BY <1>1, <1>2
    <3> QED
      BY <3>1, <3>2 DEF IdsIn
  <2> QED
    BY <2>1, <2>2, <2>3
<1>5. ASSUME Ascending(p), Ascending(q), Before(p, q)
      PROVE  Ascending(r)
  <2>1. SUFFICES ASSUME NEW i \in DOMAIN r, NEW j \in DOMAIN r, i < j
                 PROVE  r[i].id < r[j].id
    BY DEF Ascending
  <2>2. CASE j \in 1..Len(p)
    <3>1. i \in 1..Len(p)
      BY <1>1, <1>2, <2>1, <2>2
    <3> QED
      BY <1>1, <1>2, <1>5, <2>1, <2>2, <3>1 DEF Ascending
  <2>3. CASE i \in 1..Len(p) /\ j \notin 1..Len(p)
    BY <1>2, <1>3, <1>5, <2>3 DEF Before
  <2>4. CASE i \notin 1..Len(p)
    <3>1. j \notin 1..Len(p)
      BY <1>1, <1>2, <2>1, <2>4
    <3>2. i - Len(p) < j - Len(p)
      BY <1>1, <1>2, <2>1
    <3> QED
      BY <1>2, <1>3, <1>5, <2>4, <3>1, <3>2 DEF Ascending
  <2> QED
    BY <2>2, <2>3, <2>4
<1> QED
  BY <1>1, <1>2, <1>3, <1>4, <1>5 DEF r

(* A part of a queue.                                                      *)
LEMMA PartOfQueue ==
  ASSUME NEW q \in Seq(Rows), NEW m \in Nat \ {0}, NEW n \in Nat,
         n <= Len(q), m <= n + 1
  PROVE  /\ SubSeq(q, m, n) \in Seq(Rows)
         /\ Len(SubSeq(q, m, n)) = n - m + 1
         /\ DOMAIN SubSeq(q, m, n) = 1..(n - m + 1)
         /\ \A i \in DOMAIN SubSeq(q, m, n) :
                i + m - 1 \in DOMAIN q /\ SubSeq(q, m, n)[i] = q[i + m - 1]
         /\ IdsIn(SubSeq(q, m, n)) = {q[i].id : i \in m..n}
         /\ IdsIn(SubSeq(q, m, n)) \subseteq IdsIn(q)
         /\ Ascending(q) => Ascending(SubSeq(q, m, n))
<1> DEFINE r == SubSeq(q, m, n)
<1>1. Len(q) \in Nat /\ DOMAIN q = 1..Len(q)
  OBVIOUS
<1>2. m..n \subseteq 1..Len(q)
  BY <1>1
<1>3. r = [i \in 1..(n - m + 1) |-> q[i + m - 1]]
  BY <1>1
<1>4. \A i \in 1..(n - m + 1) : i + m - 1 \in DOMAIN q
  BY <1>1
<1>5. r \in [1..(n - m + 1) -> Rows]
  <2>1. \A i \in 1..(n - m + 1) : q[i + m - 1] \in Rows
    BY <1>4
  <2> QED
    BY <1>3, <2>1
<1>6. n - m + 1 \in Nat
  BY <1>1
<1>7. r \in Seq(Rows) /\ Len(r) = n - m + 1 /\ DOMAIN r = 1..(n - m + 1)
  BY <1>5, <1>6
<1>8. \A i \in DOMAIN r : i + m - 1 \in DOMAIN q /\ r[i] = q[i + m - 1]
  BY <1>3, <1>4, <1>7
<1> HIDE DEF r
<1>9. IdsIn(r) = {q[i].id : i \in m..n}
  <2>1. ASSUME NEW x \in IdsIn(r)
        PROVE  x \in {q[i].id : i \in m..n}
    <3>1. PICK i \in DOMAIN r : x = r[i].id
      BY DEF IdsIn
    <3>2. i + m - 1 \in m..n
      BY <1>7
    <3> QED
      BY <1>8, <3>1, <3>2
  <2>2. ASSUME NEW i \in m..n
        PROVE  q[i].id \in IdsIn(r)
    <3>1. i - m + 1 \in DOMAIN r /\ (i - m + 1) + m - 1 = i
      BY <1>7
    <3> QED
      BY <1>8, <3>1 DEF IdsIn
  <2> QED
    BY <2>1, <2>2
<1>10. IdsIn(r) \subseteq IdsIn(q)
  BY <1>1, <1>2, <1>9 DEF IdsIn
<1>11. Ascending(q) => Ascending(r)
  <2>1. SUFFICES ASSUME Ascending(q), NEW i \in DOMAIN r, NEW j \in DOMAIN r, i < j
                 PROVE  r[i].id < r[j].id
    BY DEF Ascending
  <2>2. i + m - 1 < j + m - 1
    BY <1>7, <2>1
  <2> QED
    BY <1>8, <2>1, <2>2 DEF Ascending
<1> QED
  BY <1>7, <1>8, <1>9, <1>10, <1>11 DEF r

(* What an overfull buffer loses is as much as is counted.                 *)
LEMMA KeptRows ==
  ASSUME NEW q \in Seq(Rows)
  PROVE  /\ Kept(q) \in Seq(Rows)
         /\ Len(Kept(q)) <= Capacity
         /\ Ascending(q) => Ascending(Kept(q))
         /\ IdsIn(Kept(q)) \subseteq IdsIn(q)
         /\ \A i \in DOMAIN Kept(q) : \E j \in DOMAIN q : Kept(q)[i] = q[j]
         /\ Overflow(q) \in Nat
         /\ \E lost : /\ IsFiniteSet(lost) /\ Cardinality(lost) <= Overflow(q)
                      /\ IdsIn(q) \subseteq IdsIn(Kept(q)) \cup lost
<1>1. Len(q) \in Nat /\ DOMAIN q = 1..Len(q) /\ Capacity \in Nat \ {0}
  BY SizesAssumption
<1>2. CASE Len(q) <= Capacity
  <2>1. Kept(q) = q /\ Overflow(q) = 0
    BY <1>2 DEF Kept, Overflow
  <2>2. IsFiniteSet({}) /\ Cardinality({}) = 0
    BY FS_EmptySet
  <2>3. IsFiniteSet({}) /\ Cardinality({}) <= Overflow(q)
    BY <2>1, <2>2
  <2>4. IdsIn(q) \subseteq IdsIn(Kept(q)) \cup {}
    BY <2>1
  <2> QED
    BY <1>2, <2>1, <2>3, <2>4
<1>3. CASE ~(Len(q) <= Capacity)
  <2> DEFINE first == Len(q) - Capacity + 1
             r == SubSeq(q, first, Len(q))
             lost == {q[i].id : i \in 1..(first - 1)}
  <2>1. /\ Kept(q) = r /\ Overflow(q) = first - 1
        /\ first \in Nat \ {0} /\ first <= Len(q) + 1 /\ Len(q) - first + 1 = Capacity
    BY <1>1, <1>3 DEF Kept, Overflow
  <2> HIDE DEF first
  <2>2. /\ r \in Seq(Rows)
        /\ Len(r) = Capacity
        /\ IdsIn(r) = {q[i].id : i \in first..Len(q)}
        /\ IdsIn(r) \subseteq IdsIn(q)
        /\ Ascending(q) => Ascending(r)
        /\ \A i \in DOMAIN r : i + first - 1 \in DOMAIN q /\ r[i] = q[i + first - 1]
    BY <1>1, <2>1, PartOfQueue
  <2> HIDE DEF r
  <2>3. IsFiniteSet(lost) /\ Cardinality(lost) <= first - 1
    <3> DEFINE f == [i \in 1..(first - 1) |-> q[i].id]
    <3>1. f \in Surjection(1..(first - 1), lost)
      BY DEF Surjection
    <3>2. IsFiniteSet(1..(first - 1)) /\ Cardinality(1..(first - 1)) = first - 1
      BY <2>1, FS_Interval
    <3> HIDE DEF f, lost
    <3> QED
      BY <3>1, <3>2, FS_Surjection
  <2>4. IdsIn(q) \subseteq IdsIn(r) \cup lost
    <3>1. SUFFICES ASSUME NEW i \in DOMAIN q
                   PROVE  q[i].id \in IdsIn(r) \cup lost
      BY DEF IdsIn
    <3>2. i \in first..Len(q) \/ i \in 1..(first - 1)
      BY <1>1, <2>1
    <3> QED
      BY <2>2, <3>2
  <2> HIDE DEF lost
  <2>5. /\ Len(r) <= Capacity
        /\ \A i \in DOMAIN r : \E j \in DOMAIN q : r[i] = q[j]
        /\ first - 1 \in Nat
    BY <1>1, <2>1, <2>2
  <2> QED
    BY <2>1, <2>2, <2>3, <2>4, <2>5
<1> QED
  BY <1>2, <1>3

(* The invariant has the three properties among its conjuncts.             *)
LEMMA InvHasProperties == Inv => TypeOK /\ NothingLostSilently /\ RematchRefersBack
<1>1. Inv => TypeOK
  BY DEF Inv, RowsInv, OpenOK, BufferOK, SealedOK, FlushOK, CountsOK, WriterOK, ClosingOK,
     DatabaseOK, Ascending, TypeOK
<1>2. Inv => NothingLostSilently
  BY DEF Inv, RowsInv, RowsCounted, DaysCounted, NothingLostSilently
<1> QED
  BY <1>1, <1>2 DEF Inv, RowsInv

-----------------------------------------------------------------------------
(* Sealing *)

(* Rows get the next ids, and refer back.                                  *)
LEMMA RowsAreNumbered ==
  ASSUME SealedOK, LastNumbered,
         NEW ss \in Seq(Sessions), sealed + Len(ss) <= MaxSealed
  PROVE  /\ SealedRows(ss) \in Seq(Rows)
         /\ DOMAIN SealedRows(ss) = 1..Len(ss)
         /\ \A i \in 1..Len(ss) :
                /\ SealedRows(ss)[i].id = sealed + i
                /\ SealedRows(ss)[i].rematchOf < sealed + i
<1> USE DEF SealedOK
<1>1. /\ Len(ss) \in Nat /\ DOMAIN ss = 1..Len(ss) /\ sealed \in Nat /\ MaxSealed \in Nat
      /\ \A i \in 1..Len(ss) : ss[i] \in Sessions
  BY BoundsAssumption
<1>2. \A m \in Matches : lastSessionIdByRoom[m] \in 0..sealed /\ lastSessionIdByRoom[m] \in {NoRow} \cup Ids
  <2>1. \A m \in Matches : lastSessionIdByRoom[m] \in Nat
    BY <1>1 DEF NoRow, Ids
  <2> QED
    BY <1>1, <2>1 DEF LastNumbered
<1>3. ASSUME NEW i \in 1..Len(ss)
      PROVE  /\ RowOf(ss, i) \in Rows
             /\ RowOf(ss, i).id = sealed + i
             /\ RowOf(ss, i).rematchOf < sealed + i
  <2> DEFINE prev == Previous(ss[i].match)
             same == {j \in 1..(i - 1) : ss[j].match = prev}
             ref == IF ~ss[i].rematch \/ prev \notin Matches THEN NoRow
                    ELSE IF same # {} THEN sealed + (CHOOSE j \in same : TRUE)
                    ELSE lastSessionIdByRoom[prev]
  <2>1. RowOf(ss, i) = [id |-> sealed + i, match |-> ss[i].match, rematchOf |-> ref]
    BY DEF RowOf
  <2>2. ss[i].match \in Matches
    BY <1>1 DEF Sessions
  <2>3. sealed + i \in Ids
    BY <1>1 DEF Ids
  <2>4. ref \in {NoRow} \cup Ids /\ ref < sealed + i
    <3>1. CASE ~ss[i].rematch \/ prev \notin Matches
      <4>1. ref = 0
        BY <3>1 DEF NoRow
      <4> HIDE DEF ref
      <4> QED
        BY <1>1, <4>1 DEF NoRow
    <3>2. CASE ~(~ss[i].rematch \/ prev \notin Matches) /\ same # {}
      <4> DEFINE c == CHOOSE j \in same : TRUE
      <4>1. c \in same
        BY <3>2
      <4>2. c \in 1..(i - 1) /\ ref = sealed + c
        BY <3>2, <4>1
      <4> HIDE DEF ref, c
      <4> QED
        BY <1>1, <4>2 DEF Ids
    <3>3. CASE ~(~ss[i].rematch \/ prev \notin Matches) /\ same = {}
      <4>1. prev \in Matches /\ ref = lastSessionIdByRoom[prev]
        BY <3>3
      <4> HIDE DEF ref, prev
      <4> QED
        BY <1>1, <1>2, <4>1
    <3> QED
      BY <3>1, <3>2, <3>3
  <2> HIDE DEF ref
  <2> QED
    BY <2>1, <2>2, <2>3, <2>4 DEF Rows
<1>4. SealedRows(ss) = [i \in 1..Len(ss) |-> RowOf(ss, i)]
  BY <1>1 DEF SealedRows
<1>5. SealedRows(ss) \in [1..Len(ss) -> Rows]
  BY <1>3, <1>4
<1>6. SealedRows(ss) \in Seq(Rows)
  BY <1>1, <1>5
<1> QED
  BY <1>3, <1>4, <1>5, <1>6

(* What sealing does to the buffer, before a row is lost.                  *)
LEMMA SealedBehind ==
  ASSUME RowsInv, NEW ss \in Seq(Sessions), sealed + Len(ss) <= MaxSealed, SealAway(ss)
  PROVE  /\ SealedOK' /\ LastNumbered'
         /\ sealed' = sealed + Len(ss)
         /\ outbox \o SealedRows(ss) \in Seq(Rows)
         /\ Ascending(outbox \o SealedRows(ss))
         /\ Before(flush.batch, outbox \o SealedRows(ss))
         /\ \A i \in DOMAIN (outbox \o SealedRows(ss)) :
                Numbered((outbox \o SealedRows(ss))[i], sealed')
         /\ IdsIn(outbox \o SealedRows(ss))
                = IdsIn(outbox) \cup ((sealed + 1)..sealed')
<1> DEFINE new == SealedRows(ss)
           q == outbox \o new
<1>1. SealedOK /\ LastNumbered /\ BufferOK /\ FlushOK
  BY DEF RowsInv
<1>2. /\ new \in Seq(Rows)
      /\ DOMAIN new = 1..Len(ss)
      /\ \A i \in 1..Len(ss) : new[i].id = sealed + i /\ new[i].rematchOf < sealed + i
  BY <1>1, RowsAreNumbered
<1>3. sealed \in Nat /\ Len(ss) \in Nat /\ DOMAIN ss = 1..Len(ss) /\ dropped \in Nat /\ MaxSealed \in Nat
  BY <1>1, BoundsAssumption DEF SealedOK
<1>4. sealed' = sealed + Len(ss) /\ dropped' = dropped + Overflow(q)
  BY DEF SealAway
<1> HIDE DEF new
<1>5. /\ q \in Seq(Rows)
      /\ IdsIn(q) = IdsIn(outbox) \cup IdsIn(new)
      /\ Ascending(outbox) /\ Ascending(new) /\ Before(outbox, new) => Ascending(q)
      /\ \A i \in DOMAIN q : \/ \E j \in DOMAIN outbox : q[i] = outbox[j]
                             \/ \E j \in DOMAIN new : q[i] = new[j]
  BY <1>1, <1>2, ConcatRows DEF BufferOK
<1>6. outbox \in Seq(Rows) /\ flush.batch \in Seq(Rows)
  BY <1>1 DEF BufferOK, FlushOK
<1>7. ASSUME NEW u \in Rows, Numbered(u, sealed)
      PROVE  u.id \in Int /\ u.id <= sealed
  BY <1>7 DEF Numbered, Rows, Ids
<1>8. Ascending(new)
  BY <1>2, <1>3 DEF Ascending
<1>9. Before(outbox, new) /\ Before(flush.batch, new)
  <2>1. ASSUME NEW i \in DOMAIN outbox
        PROVE  outbox[i].id \in Int /\ outbox[i].id <= sealed
    BY <1>6, <1>7 DEF RowsInv, BufferNumbered
  <2>2. ASSUME NEW i \in DOMAIN flush.batch
        PROVE  flush.batch[i].id \in Int /\ flush.batch[i].id <= sealed
    BY <1>6, <1>7 DEF RowsInv, FlushNumbered
  <2> QED
    BY <1>2, <1>3, <2>1, <2>2 DEF Before
<1>10. Ascending(q)
  BY <1>1, <1>5, <1>8, <1>9 DEF BufferOK
<1> HIDE DEF q
<1>11. Before(flush.batch, q)
  BY <1>5, <1>9 DEF Before, RowsInv, FlushInOrder
<1>12. ASSUME NEW i \in DOMAIN q
       PROVE  q[i].id <= sealed' /\ q[i].rematchOf < q[i].id
  <2>1. CASE \E j \in DOMAIN outbox : q[i] = outbox[j]
    <3>1. PICK j \in DOMAIN outbox : q[i] = outbox[j]
      BY <2>1
    <3>2. outbox[j] \in Rows /\ Numbered(outbox[j], sealed)
      BY <1>6 DEF RowsInv, BufferNumbered
    <3>3. outbox[j].id \in Int /\ outbox[j].id <= sealed /\ outbox[j].rematchOf < outbox[j].id
      BY <1>7, <3>2 DEF Numbered
    <3> QED
      BY <1>3, <1>4, <3>1, <3>3
  <2>2. CASE \E j \in DOMAIN new : q[i] = new[j]
    BY <1>2, <1>3, <1>4, <2>2
  <2> QED
    BY <1>5, <2>1, <2>2
<1>13. IdsIn(new) = (sealed + 1)..sealed'
  <2>1. ASSUME NEW x \in IdsIn(new)
        PROVE  x \in (sealed + 1)..sealed'
    <3>1. PICK i \in DOMAIN new : x = new[i].id
      BY DEF IdsIn
    <3> QED
      BY <1>2, <1>3, <1>4, <3>1
  <2>2. ASSUME NEW x \in (sealed + 1)..sealed'
        PROVE  x \in IdsIn(new)
    <3>1. x - sealed \in 1..Len(ss) /\ sealed + (x - sealed) = x
      BY <1>3, <1>4
    <3> QED
      BY <1>2, <3>1 DEF IdsIn
  <2> QED
    BY <2>1, <2>2
<1>14. SealedOK' /\ LastNumbered'
  <2> DEFINE at(m) == {i \in DOMAIN ss : ss[i].match = m}
  <2>1. lastSessionIdByRoom' =
            [m \in Matches |-> IF at(m) = {} THEN lastSessionIdByRoom[m]
                               ELSE sealed + (CHOOSE i \in at(m) : TRUE)]
    BY DEF SealAway
  <2>2. ASSUME NEW m \in Matches
        PROVE  /\ lastSessionIdByRoom'[m] \in {NoRow} \cup Ids
               /\ lastSessionIdByRoom'[m] <= sealed'
    <3>1. CASE at(m) = {}
      <4>1. lastSessionIdByRoom'[m] = lastSessionIdByRoom[m]
        BY <2>1, <3>1
      <4>2. lastSessionIdByRoom[m] \in {NoRow} \cup Ids /\ lastSessionIdByRoom[m] <= sealed
        BY <1>1 DEF SealedOK, LastNumbered
      <4>3. lastSessionIdByRoom[m] \in Nat
        BY <4>2 DEF NoRow, Ids
      <4> QED
        BY <1>3, <1>4, <4>1, <4>2, <4>3
    <3>2. CASE at(m) # {}
      <4> DEFINE c == CHOOSE i \in at(m) : TRUE
      <4>1. c \in at(m)
        BY <3>2
      <4>2. c \in 1..Len(ss) /\ lastSessionIdByRoom'[m] = sealed + c
        BY <1>3, <2>1, <3>2, <4>1
      <4> HIDE DEF c
      <4> QED
        BY <1>3, <1>4, <4>2 DEF Ids
    <3> QED
      BY <3>1, <3>2
  <2>3. lastSessionIdByRoom' \in [Matches -> {NoRow} \cup Ids]
    <3>1. lastSessionIdByRoom' = [m \in Matches |-> lastSessionIdByRoom'[m]]
      BY <2>1
    <3> QED
      BY <2>2, <3>1
  <2>4. Overflow(q) \in Nat
    BY <1>5, KeptRows
  <2> QED
    BY <1>3, <1>4, <2>2, <2>3, <2>4 DEF SealedOK, LastNumbered
<1>15. \A i \in DOMAIN q : Numbered(q[i], sealed')
  BY <1>12 DEF Numbered
<1> QED
  BY <1>4, <1>5, <1>10, <1>11, <1>13, <1>14, <1>15 DEF q, new

-----------------------------------------------------------------------------
(* What a step leaves true of the rows *)

(* A transaction that outlived its flush.                                  *)
LEMMA LateHolds ==
  ASSUME DatabaseOK, NEW i \in DOMAIN late
  PROVE  /\ late[i] \in [batch : Seq(Rows), days : Nat]
         /\ late[i].batch \in Seq(Rows) /\ late[i].days \in Nat
<1> DEFINE T == [batch : Seq(Rows), days : Nat]
<1>1. late \in Seq(T)
  BY DEF DatabaseOK
<1> HIDE DEF T
<1>2. late[i] \in T
  BY <1>1
<1> QED
  BY <1>2 DEF T

(* A step that loses no more ids than it counts.                           *)
LEMMA RowsStayCounted ==
  ASSUME RowsInv, SealedOK', sealed' >= sealed,
         NEW lost, IsFiniteSet(lost), Cardinality(lost) <= dropped' - dropped,
         BufferedIds \cup StoredIds \cup ((sealed + 1)..sealed')
            \subseteq BufferedIds' \cup StoredIds' \cup lost
  PROVE  RowsCounted'
<1> DEFINE before == 1..sealed \ (BufferedIds \cup StoredIds)
           after == 1..sealed' \ (BufferedIds' \cup StoredIds')
<1>1. /\ sealed \in Nat /\ sealed' \in Nat /\ dropped \in Nat /\ dropped' \in Nat
      /\ Cardinality(before) <= dropped
  BY DEF RowsInv, SealedOK, RowsCounted
<1>2. IsFiniteSet(before) /\ IsFiniteSet(after)
  <2>1. IsFiniteSet(1..sealed) /\ IsFiniteSet(1..sealed')
    BY <1>1, FS_Interval
  <2> QED
    BY <2>1, FS_Difference
<1>3. after \subseteq before \cup lost
  <2>1. SUFFICES ASSUME NEW x \in after, x \notin lost
                 PROVE  x \in before
    OBVIOUS
  <2>2. x \notin BufferedIds \cup StoredIds \cup ((sealed + 1)..sealed')
    BY <2>1
  <2>3. x \in 1..sealed
    BY <1>1, <2>2
  <2> QED
    BY <2>2, <2>3
<1> HIDE DEF before, after
<1>4. IsFiniteSet(before \cup lost)
      /\ Cardinality(before \cup lost)
            = Cardinality(before) + Cardinality(lost) - Cardinality(before \cap lost)
  BY <1>2, FS_Union
<1>5. /\ Cardinality(before) \in Nat /\ Cardinality(lost) \in Nat
      /\ Cardinality(before \cap lost) \in Nat
      /\ Cardinality(after) \in Nat /\ Cardinality(before \cup lost) \in Nat
  <2>1. IsFiniteSet(before \cap lost)
    BY <1>2, FS_Intersection
  <2> QED
    BY <1>2, <1>4, <2>1, FS_CardinalityType
<1>6. Cardinality(after) <= Cardinality(before \cup lost)
  BY <1>3, <1>4, FS_Subset
<1>7. Cardinality(after) <= dropped'
  BY <1>1, <1>4, <1>5, <1>6
<1> QED
  BY <1>7 DEF RowsCounted, after

(* What Settled says of a row after the step.                              *)
SettledNext(u, ids) ==
    u.rematchOf # NoRow => u.rematchOf \in StoredIds' \cup ids \/ u.rematchOf \notin BufferedIds'

(* A row stays settled when only rows with new ids come into the buffer.   *)
LEMMA StaysSettled ==
  ASSUME RowsInv, SealedOK',
         StoredIds \subseteq StoredIds',
         BufferedIds' \subseteq BufferedIds \cup ((sealed + 1)..sealed')
  PROVE  \A u \in Rows : \A ids :
            Numbered(u, sealed) /\ Settled(u, ids) => SettledNext(u, ids)
<1>1. SUFFICES ASSUME NEW u \in Rows, NEW ids, Numbered(u, sealed), Settled(u, ids),
                      u.rematchOf # NoRow, u.rematchOf \notin StoredIds' \cup ids,
                      u.rematchOf \in BufferedIds'
               PROVE  FALSE
  BY DEF SettledNext
<1>2. u.rematchOf \in Int /\ u.id \in Int /\ sealed \in Nat /\ sealed' \in Nat
  BY DEF RowsInv, SealedOK, Rows, Ids, NoRow
<1>3. u.rematchOf < sealed + 1
  BY <1>1, <1>2 DEF Numbered
<1>4. u.rematchOf \in BufferedIds
  BY <1>1, <1>2, <1>3
<1> QED
  BY <1>1, <1>4 DEF Settled

(* What may happen to the database: rows are stored that are settled then, *)
(* and transactions are left open whose rows are.                          *)
LEMMA DatabaseMoves ==
  ASSUME RowsInv, SealedOK', sealed' >= sealed,
         BufferedIds' \subseteq BufferedIds \cup ((sealed + 1)..sealed'),
         rows \subseteq rows', rows' \subseteq Rows,
         \A u \in rows' \ rows : Numbered(u, sealed) /\ SettledNext(u, {}),
         late' \in Seq([batch : Seq(Rows), days : Nat]),
         \A i \in DOMAIN late' :
            \/ \E j \in DOMAIN late : late'[i] = late[j]
            \/ \A k \in DOMAIN late'[i].batch :
                   /\ late'[i].batch[k] \in Rows
                   /\ Numbered(late'[i].batch[k], sealed)
                   /\ SettledNext(late'[i].batch[k], IdsIn(late'[i].batch))
  PROVE  /\ DatabaseOK' /\ DatabaseNumbered'
         /\ LateSettled' /\ RematchRefersBack'
<1>1. DatabaseOK /\ DatabaseNumbered /\ LateSettled /\ RematchRefersBack
  BY DEF RowsInv
<1>2. DatabaseOK'
  BY DEF DatabaseOK
<1>3. StoredIds \subseteq StoredIds'
  BY DEF StoredIds
<1>4. \A u \in Rows : Numbered(u, sealed) => Numbered(u, sealed')
  <2>1. SUFFICES ASSUME NEW u \in Rows, Numbered(u, sealed)
                 PROVE  Numbered(u, sealed')
    OBVIOUS
  <2>2. u.id \in Int /\ sealed \in Int /\ sealed' \in Int
    BY DEF Rows, Ids, RowsInv, SealedOK
  <2> QED
    BY <2>1, <2>2 DEF Numbered
<1>5. \A u \in Rows : \A ids :
          Numbered(u, sealed) /\ Settled(u, ids) => SettledNext(u, ids)
  BY <1>3, StaysSettled
<1>6. ASSUME NEW u \in rows'
      PROVE  u \in Rows /\ Numbered(u, sealed) /\ SettledNext(u, {})
  <2>1. CASE u \in rows
    <3>1. u \in Rows /\ Numbered(u, sealed)
      BY <1>1, <2>1 DEF DatabaseOK, DatabaseNumbered
    <3>2. Settled(u, {})
      BY <1>1, <2>1 DEF RematchRefersBack, Settled
    <3> QED
      BY <1>5, <3>1, <3>2
  <2>2. CASE u \notin rows
    BY <2>2
  <2> QED
    BY <2>1, <2>2
<1>7. ASSUME NEW i \in DOMAIN late', NEW k \in DOMAIN late'[i].batch
      PROVE  /\ late'[i].batch[k] \in Rows
             /\ Numbered(late'[i].batch[k], sealed)
             /\ SettledNext(late'[i].batch[k], IdsIn(late'[i].batch))
  <2>1. CASE \E j \in DOMAIN late : late'[i] = late[j]
    <3>1. PICK j \in DOMAIN late : late'[i] = late[j]
      BY <2>1
    <3>2. late[j].batch \in Seq(Rows)
      BY <1>1, LateHolds
    <3>3. k \in DOMAIN late[j].batch /\ late[j].batch[k] \in Rows
      BY <3>1, <3>2
    <3>4. Numbered(late[j].batch[k], sealed)
      BY <1>1, <3>3 DEF DatabaseNumbered
    <3>5. Settled(late[j].batch[k], IdsIn(late[j].batch))
      BY <1>1, <3>3 DEF LateSettled
    <3>6. SettledNext(late[j].batch[k], IdsIn(late[j].batch))
      BY <1>5, <3>3, <3>4, <3>5
    <3> QED
      BY <3>1, <3>3, <3>4, <3>6
  <2>2. CASE ~\E j \in DOMAIN late : late'[i] = late[j]
    BY <2>2
  <2> QED
    BY <2>1, <2>2
<1>8. DatabaseNumbered'
  BY <1>4, <1>6, <1>7 DEF DatabaseNumbered
<1>9. RematchRefersBack'
  BY <1>6 DEF RematchRefersBack, SettledNext
<1>10. LateSettled'
  BY <1>7 DEF LateSettled, Settled, SettledNext, IdsIn
<1> QED
  BY <1>2, <1>8, <1>9, <1>10

(* The database is left alone.                                             *)
LEMMA DatabaseStays ==
  ASSUME RowsInv, SealedOK', sealed' >= sealed,
         UNCHANGED database,
         BufferedIds' \subseteq BufferedIds \cup ((sealed + 1)..sealed')
  PROVE  /\ DatabaseOK' /\ DatabaseNumbered'
         /\ LateSettled' /\ RematchRefersBack'
<1>1. rows' = rows /\ late' = late
  BY DEF database
<1>2. rows \subseteq Rows /\ late \in Seq([batch : Seq(Rows), days : Nat])
  BY DEF RowsInv, DatabaseOK
<1>3. \A i \in DOMAIN late' : \E j \in DOMAIN late : late'[i] = late[j]
  BY <1>1
<1> QED
  BY <1>1, <1>2, <1>3, DatabaseMoves

(* The rows of matches are sealed: all that is said of the rows holds.     *)
LEMMA SealKeepsRows ==
  ASSUME RowsInv, NEW ss \in Seq(Sessions), sealed + Len(ss) <= MaxSealed, Seal(ss),
         UNCHANGED <<flush, database>>
  PROVE  RowsInv' /\ sealed' = sealed + Len(ss)
<1> DEFINE q == outbox \o SealedRows(ss)
<1>1. /\ SealedOK' /\ LastNumbered'
      /\ sealed' = sealed + Len(ss)
      /\ q \in Seq(Rows) /\ Ascending(q) /\ Before(flush.batch, q)
      /\ \A i \in DOMAIN q : Numbered(q[i], sealed')
      /\ IdsIn(q) = IdsIn(outbox) \cup ((sealed + 1)..sealed')
  BY SealedBehind DEF Seal
<1>2. outbox' = Kept(q) /\ dropped' = dropped + Overflow(q)
  BY DEF Seal, SealAway
<1>3. flush' = flush /\ rows' = rows /\ UNCHANGED database
  BY DEF database
<1> HIDE DEF q
<1>4. /\ Kept(q) \in Seq(Rows) /\ Len(Kept(q)) <= Capacity /\ Ascending(Kept(q))
      /\ IdsIn(Kept(q)) \subseteq IdsIn(q)
      /\ \A i \in DOMAIN Kept(q) : \E j \in DOMAIN q : Kept(q)[i] = q[j]
      /\ Overflow(q) \in Nat
  BY <1>1, KeptRows
<1>5. PICK lost : /\ IsFiniteSet(lost) /\ Cardinality(lost) <= Overflow(q)
                  /\ IdsIn(q) \subseteq IdsIn(Kept(q)) \cup lost
  BY <1>1, KeptRows
<1>6. BufferOK' /\ BufferNumbered'
  BY <1>1, <1>2, <1>4 DEF BufferOK, BufferNumbered, Ascending
<1>7. sealed \in Nat /\ sealed' \in Nat /\ dropped \in Nat /\ Len(ss) \in Nat /\ sealed' >= sealed
  BY <1>1 DEF SealedOK, RowsInv
<1>8. FlushOK' /\ FlushNumbered' /\ FlushInOrder'
  <2>1. FlushOK'
    BY <1>3 DEF RowsInv, FlushOK
  <2>2. Before(flush.batch, outbox')
    BY <1>1, <1>2, <1>4 DEF Before
  <2>3. StoredIds' = StoredIds
    BY <1>3 DEF StoredIds
  <2>4. FlushInOrder'
    <3>1. FlushInOrder /\ IdsIn(flush'.batch) = IdsIn(flush.batch)
      BY <1>3 DEF RowsInv
    <3>2. Before(flush.batch, outbox)'
      BY <1>3, <2>2 DEF Before
    <3> QED
      BY <1>3, <2>3, <3>1, <3>2 DEF FlushInOrder, NoFlush, Ascending, IdsIn
  <2>5. FlushNumbered'
    <3>1. SUFFICES ASSUME NEW i \in DOMAIN flush.batch
                   PROVE  Numbered(flush.batch[i], sealed')
      BY <1>3 DEF FlushNumbered
    <3>2. flush.batch[i] \in Rows /\ Numbered(flush.batch[i], sealed)
      BY DEF RowsInv, FlushOK, FlushNumbered
    <3>3. flush.batch[i].id \in Int
      BY <3>2 DEF Rows, Ids
    <3> QED
      BY <1>7, <3>2, <3>3 DEF Numbered
  <2> QED
    BY <2>1, <2>4, <2>5
<1>9. /\ BufferedIds' = IdsIn(Kept(q)) \cup IdsIn(flush.batch)
      /\ StoredIds' = StoredIds
      /\ BufferedIds = IdsIn(outbox) \cup IdsIn(flush.batch)
  BY <1>2, <1>3 DEF BufferedIds, StoredIds, IdsIn
<1>10. RowsCounted'
  <2>1. BufferedIds \cup StoredIds \cup ((sealed + 1)..sealed')
            \subseteq BufferedIds' \cup StoredIds' \cup lost
    BY <1>1, <1>5, <1>9
  <2>2. Cardinality(lost) <= dropped' - dropped
    <3>1. Cardinality(lost) \in Nat
      BY <1>5, FS_CardinalityType
    <3> QED
      BY <1>2, <1>4, <1>5, <1>7, <3>1
  <2> QED
    BY <1>1, <1>5, <1>7, <2>1, <2>2, RowsStayCounted
<1>11. DatabaseOK' /\ DatabaseNumbered' /\ LateSettled' /\ RematchRefersBack'
  <2>1. BufferedIds' \subseteq BufferedIds \cup ((sealed + 1)..sealed')
    BY <1>1, <1>4, <1>9
  <2> QED
    BY <1>1, <1>3, <1>7, <2>1, DatabaseStays
<1> QED
  BY <1>1, <1>6, <1>8, <1>10, <1>11 DEF RowsInv

(* A flush begins: what it takes was at the front.                         *)
LEMMA BeginKeepsRows ==
  ASSUME RowsInv, OpenOK, IdsLeft, ~Flushing, BeginFlush,
         days \in Nat, UNCHANGED database
  PROVE  RowsInv' /\ sealed' = sealed + Len(IdleOnes)
<1> DEFINE q == outbox \o SealedRows(IdleOnes)
           n == Min2(BatchSize, Len(Ready))
           front == SubSeq(Ready, 1, n)
           rest == SubSeq(Ready, n + 1, Len(Ready))
<1>1. IdleOnes \in Seq(Sessions) /\ sealed + Len(IdleOnes) <= MaxSealed
  <2> DEFINE I == {i \in DOMAIN open : Idle(open[i])}
  <2>1. open \in Seq(Sessions) /\ I \in SUBSET DOMAIN open
    BY DEF OpenOK
  <2>2. IdleOnes \in Seq(Sessions) /\ Len(IdleOnes) = Cardinality(I)
    BY <2>1, ThoseStandThere DEF IdleOnes
  <2>3. IsFiniteSet(1..Len(open)) /\ Cardinality(1..Len(open)) = Len(open)
        /\ Len(open) \in Nat /\ DOMAIN open = 1..Len(open)
    BY <2>1, FS_Interval
  <2>4. Cardinality(I) <= Len(open) /\ Cardinality(I) \in Nat
    BY <2>1, <2>3, FS_Subset, FS_CardinalityType
  <2> HIDE DEF I
  <2> QED
    BY <2>2, <2>3, <2>4, BoundsAssumption DEF IdsLeft, RowsInv, SealedOK
<1>2. /\ SealedOK' /\ LastNumbered'
      /\ sealed' = sealed + Len(IdleOnes)
      /\ q \in Seq(Rows) /\ Ascending(q)
      /\ \A i \in DOMAIN q : Numbered(q[i], sealed')
      /\ IdsIn(q) = IdsIn(outbox) \cup ((sealed + 1)..sealed')
  BY <1>1, SealedBehind DEF BeginFlush
<1>3. /\ dropped' = dropped + Overflow(q)
      /\ Ready = Kept(q)
      /\ flush' = [stage |-> "open", batch |-> front, days |-> days]
      /\ outbox' = rest
  BY DEF BeginFlush, SealAway, Ready
<1> HIDE DEF q
<1>4. /\ Ready \in Seq(Rows) /\ Len(Ready) <= Capacity /\ Ascending(Ready)
      /\ IdsIn(Ready) \subseteq IdsIn(q)
      /\ \A i \in DOMAIN Ready : \E j \in DOMAIN q : Ready[i] = q[j]
      /\ Overflow(q) \in Nat
  BY <1>2, <1>3, KeptRows
<1>5. PICK lost : /\ IsFiniteSet(lost) /\ Cardinality(lost) <= Overflow(q)
                  /\ IdsIn(q) \subseteq IdsIn(Ready) \cup lost
  BY <1>2, <1>3, KeptRows
<1>6. /\ Len(Ready) \in Nat /\ DOMAIN Ready = 1..Len(Ready)
      /\ n \in 0..Len(Ready) /\ n <= BatchSize
  BY <1>4, SizesAssumption DEF Min2
<1> HIDE DEF n
<1>7. /\ front \in Seq(Rows) /\ Len(front) = n /\ Ascending(front)
      /\ DOMAIN front = 1..n
      /\ \A i \in DOMAIN front : i \in DOMAIN Ready /\ front[i] = Ready[i]
      /\ IdsIn(front) = {Ready[i].id : i \in 1..n}
  <2>1. n - 1 + 1 = n /\ \A i \in DOMAIN front : i \in Int => i + 1 - 1 = i
    BY <1>6
  <2>2. /\ SubSeq(Ready, 1, n) \in Seq(Rows)
        /\ Len(SubSeq(Ready, 1, n)) = n - 1 + 1
        /\ DOMAIN SubSeq(Ready, 1, n) = 1..(n - 1 + 1)
        /\ \A i \in DOMAIN SubSeq(Ready, 1, n) :
                i + 1 - 1 \in DOMAIN Ready /\ SubSeq(Ready, 1, n)[i] = Ready[i + 1 - 1]
        /\ IdsIn(SubSeq(Ready, 1, n)) = {Ready[i].id : i \in 1..n}
        /\ Ascending(Ready) => Ascending(SubSeq(Ready, 1, n))
    BY <1>4, <1>6, PartOfQueue
  <2> QED
    BY <1>4, <1>6, <2>1, <2>2
<1>8. /\ rest \in Seq(Rows) /\ Len(rest) = Len(Ready) - n /\ Ascending(rest)
      /\ DOMAIN rest = 1..(Len(Ready) - n)
      /\ \A i \in DOMAIN rest : i + n \in DOMAIN Ready /\ rest[i] = Ready[i + n]
      /\ IdsIn(rest) = {Ready[i].id : i \in (n + 1)..Len(Ready)}
  <2> DEFINE m == n + 1
             k == Len(Ready)
  <2>1. /\ m \in Nat \ {0} /\ k \in Nat /\ k <= Len(Ready) /\ m <= k + 1
        /\ k - m + 1 = Len(Ready) - n
        /\ \A i \in Int : i + m - 1 = i + n
    BY <1>6
  <2>2. rest = SubSeq(Ready, m, k)
    OBVIOUS
  <2> HIDE DEF rest, m, k
  <2>3. /\ rest \in Seq(Rows)
        /\ Len(rest) = k - m + 1
        /\ DOMAIN rest = 1..(k - m + 1)
        /\ \A i \in DOMAIN rest : i + m - 1 \in DOMAIN Ready /\ rest[i] = Ready[i + m - 1]
        /\ IdsIn(rest) = {Ready[i].id : i \in m..k}
        /\ Ascending(Ready) => Ascending(rest)
    BY <1>4, <2>1, <2>2, PartOfQueue
  <2>4. \A i \in DOMAIN rest : i \in Int
    BY <1>6, <2>1, <2>3
  <2>5. \A i \in DOMAIN rest : i + n \in DOMAIN Ready /\ rest[i] = Ready[i + n]
    BY <2>1, <2>3, <2>4
  <2>6. IdsIn(rest) = {Ready[i].id : i \in (n + 1)..Len(Ready)}
    BY <2>3 DEF m, k
  <2> QED
    BY <1>4, <2>1, <2>3, <2>5, <2>6
<1> HIDE DEF front, rest
<1>9. IdsIn(Ready) = IdsIn(front) \cup IdsIn(rest)
  <2>1. 1..Len(Ready) = (1..n) \cup ((n + 1)..Len(Ready))
    BY <1>6
  <2> QED
    BY <1>6, <1>7, <1>8, <2>1 DEF IdsIn
<1>10. /\ flush'.batch = front /\ flush'.stage = "open" /\ flush'.days = days
       /\ rows' = rows /\ UNCHANGED database
  BY <1>3 DEF database
<1>11. FlushOK' /\ BufferOK'
  <2>1. flush' \in [stage : {"none", "open", "hanging", "committed"}, batch : Seq(Rows),
                    days : Nat]
    BY <1>3, <1>7
  <2>2. Len(outbox') <= Capacity
    BY <1>3, <1>4, <1>6, <1>8, SizesAssumption
  <2> QED
    BY <1>3, <1>6, <1>7, <1>8, <1>10, <2>1, <2>2 DEF FlushOK, BufferOK, Ascending
<1>12. FlushNumbered' /\ BufferNumbered'
  <2>1. \A i \in DOMAIN Ready : Numbered(Ready[i], sealed')
    BY <1>2, <1>4
  <2> QED
    BY <1>3, <1>7, <1>8, <1>10, <2>1 DEF FlushNumbered, BufferNumbered
<1>13. FlushInOrder'
  <2>1. Before(front, rest)
    <3>1. SUFFICES ASSUME NEW i \in DOMAIN front, NEW j \in DOMAIN rest
                   PROVE  front[i].id < rest[j].id
      BY DEF Before
    <3>2. i < j + n
      BY <1>6, <1>7, <1>8
    <3> QED
      BY <1>4, <1>7, <1>8, <3>2 DEF Ascending
  <2>2. Before(flush.batch, outbox)'
    BY <1>3, <1>10, <2>1 DEF Before
  <2>3. Ascending(flush.batch)'
    BY <1>7, <1>10 DEF Ascending
  <2> QED
    BY <1>10, <2>2, <2>3 DEF FlushInOrder
<1>14. /\ BufferedIds' = IdsIn(Ready)
       /\ BufferedIds = IdsIn(outbox)
       /\ StoredIds' = StoredIds
  <2>1. flush.batch = << >>
    BY DEF RowsInv, FlushInOrder, Flushing, NoFlush
  <2>2. IdsIn(outbox)' = IdsIn(rest) /\ IdsIn(flush.batch)' = IdsIn(front)
    BY <1>3, <1>10 DEF IdsIn
  <2>3. IdsIn(flush.batch) = {}
    BY <2>1 DEF IdsIn
  <2> QED
    BY <1>9, <1>10, <2>2, <2>3 DEF BufferedIds, StoredIds
<1>15. sealed' \in Nat /\ sealed \in Nat /\ sealed' >= sealed /\ dropped \in Nat /\ dropped' \in Nat
  BY <1>1, <1>2 DEF SealedOK, RowsInv
<1>16. RowsCounted'
  <2>1. BufferedIds \cup StoredIds \cup ((sealed + 1)..sealed')
            \subseteq BufferedIds' \cup StoredIds' \cup lost
    BY <1>2, <1>5, <1>14
  <2>2. Cardinality(lost) <= dropped' - dropped
    <3>1. Cardinality(lost) \in Nat
      BY <1>5, FS_CardinalityType
    <3> QED
      BY <1>3, <1>4, <1>5, <1>15, <3>1
  <2> QED
    BY <1>2, <1>5, <1>15, <2>1, <2>2, RowsStayCounted
<1>17. DatabaseOK' /\ DatabaseNumbered' /\ LateSettled' /\ RematchRefersBack'
  <2>1. BufferedIds' \subseteq BufferedIds \cup ((sealed + 1)..sealed')
    BY <1>2, <1>4, <1>14
  <2> QED
    BY <1>2, <1>10, <1>15, <2>1, DatabaseStays
<1> QED
  BY <1>2, <1>11, <1>12, <1>13, <1>16, <1>17 DEF RowsInv

(* The buffer as requeue leaves it.                                        *)
LEMMA RequeueKeepsBuffer ==
  ASSUME RowsInv, Requeue, flush' = NoFlush, rows' = rows,
         UNCHANGED <<lastSessionIdByRoom, sealed>>
  PROVE  /\ BufferOK' /\ SealedOK' /\ FlushOK'
         /\ BufferNumbered' /\ FlushNumbered' /\ LastNumbered'
         /\ FlushInOrder' /\ RowsCounted'
         /\ BufferedIds' \subseteq BufferedIds
<1> DEFINE q == flush.batch \o outbox
<1>1. /\ outbox \in Seq(Rows) /\ flush.batch \in Seq(Rows)
      /\ Ascending(outbox) /\ Ascending(flush.batch) /\ Before(flush.batch, outbox)
      /\ sealed \in Nat /\ dropped \in Nat
  BY DEF RowsInv, BufferOK, FlushOK, FlushInOrder, SealedOK
<1>2. outbox' = Kept(q) /\ dropped' = dropped + Overflow(q)
  BY DEF Requeue
<1>3. /\ q \in Seq(Rows)
      /\ IdsIn(q) = IdsIn(flush.batch) \cup IdsIn(outbox)
      /\ Ascending(q)
      /\ \A i \in DOMAIN q : \/ \E j \in DOMAIN flush.batch : q[i] = flush.batch[j]
                             \/ \E j \in DOMAIN outbox : q[i] = outbox[j]
  BY <1>1, ConcatRows
<1> HIDE DEF q
<1>4. /\ Kept(q) \in Seq(Rows) /\ Len(Kept(q)) <= Capacity /\ Ascending(Kept(q))
      /\ IdsIn(Kept(q)) \subseteq IdsIn(q)
      /\ \A i \in DOMAIN Kept(q) : \E j \in DOMAIN q : Kept(q)[i] = q[j]
      /\ Overflow(q) \in Nat
  BY <1>3, KeptRows
<1>5. PICK lost : /\ IsFiniteSet(lost) /\ Cardinality(lost) <= Overflow(q)
                  /\ IdsIn(q) \subseteq IdsIn(Kept(q)) \cup lost
  BY <1>3, KeptRows
<1>6. BufferOK'
  BY <1>2, <1>4 DEF BufferOK, Ascending
<1>7. SealedOK' /\ LastNumbered' /\ sealed' = sealed
  BY <1>1, <1>2, <1>4 DEF RowsInv, SealedOK, LastNumbered
<1>8. BufferNumbered'
  <2>1. \A i \in DOMAIN q : Numbered(q[i], sealed)
    BY <1>3 DEF RowsInv, BufferNumbered, FlushNumbered
  <2> QED
    BY <1>2, <1>4, <1>7, <2>1 DEF BufferNumbered
<1>9. flush'.batch = << >> /\ flush'.stage = "none" /\ flush'.days = 0
  BY DEF NoFlush
<1>10. FlushOK' /\ FlushNumbered' /\ FlushInOrder'
  <2>1. FlushOK'
    BY SizesAssumption DEF FlushOK, NoFlush
  <2>2. FlushInOrder'
    BY <1>9 DEF FlushInOrder, Ascending, Before, NoFlush
  <2>3. FlushNumbered'
    BY <1>9 DEF FlushNumbered
  <2> QED
    BY <2>1, <2>2, <2>3
<1>11. /\ BufferedIds' = IdsIn(Kept(q)) /\ StoredIds' = StoredIds
       /\ BufferedIds = IdsIn(q)
  <2>1. IdsIn(outbox)' = IdsIn(Kept(q)) /\ IdsIn(flush.batch)' = {}
    BY <1>2, <1>9 DEF IdsIn
  <2> QED
    BY <1>3, <2>1 DEF BufferedIds, StoredIds
<1>12. RowsCounted'
  <2>1. BufferedIds \cup StoredIds \cup ((sealed + 1)..sealed')
            \subseteq BufferedIds' \cup StoredIds' \cup lost
    <3>1. (sealed + 1)..sealed' = {}
      BY <1>1, <1>7
    <3> QED
      BY <1>5, <1>11, <3>1
  <2>2. Cardinality(lost) <= dropped' - dropped
    <3>1. Cardinality(lost) \in Nat
      BY <1>5, FS_CardinalityType
    <3> QED
      BY <1>1, <1>2, <1>4, <1>5, <3>1
  <2> QED
    BY <1>1, <1>5, <1>7, <2>1, <2>2, RowsStayCounted
<1> QED
  BY <1>4, <1>6, <1>7, <1>8, <1>10, <1>11, <1>12

(* A flush that fails leaves nothing behind ...                            *)
LEMMA GiveBackKeepsRows ==
  ASSUME RowsInv, GiveBack, UNCHANGED database
  PROVE  RowsInv'
<1>1. Requeue /\ flush' = NoFlush /\ rows' = rows /\ UNCHANGED <<lastSessionIdByRoom, sealed>>
  BY DEF GiveBack, database
<1>2. /\ BufferOK' /\ SealedOK' /\ FlushOK'
      /\ BufferNumbered' /\ FlushNumbered' /\ LastNumbered'
      /\ FlushInOrder' /\ RowsCounted'
      /\ BufferedIds' \subseteq BufferedIds
  BY <1>1, RequeueKeepsBuffer
<1>3. sealed' >= sealed
  BY <1>1 DEF RowsInv, SealedOK
<1>4. DatabaseOK' /\ DatabaseNumbered' /\ LateSettled' /\ RematchRefersBack'
  BY <1>2, <1>3, DatabaseStays
<1> QED
  BY <1>2, <1>4 DEF RowsInv

(* The rows of a batch are settled once it is stored, and before that when *)
(* its own ids are looked at too.                                          *)
LEMMA BatchSettled ==
  ASSUME RowsInv, NEW k \in DOMAIN flush.batch,
         BufferedIds' \subseteq BufferedIds
  PROVE  /\ flush.batch[k] \in Rows /\ Numbered(flush.batch[k], sealed)
         /\ SettledNext(flush.batch[k], IdsIn(flush.batch))
<1> DEFINE u == flush.batch[k]
<1>1. flush.batch \in Seq(Rows) /\ outbox \in Seq(Rows) /\ Before(flush.batch, outbox)
  BY DEF RowsInv, FlushOK, BufferOK, FlushInOrder
<1>2. u \in Rows /\ Numbered(u, sealed)
  BY <1>1 DEF RowsInv, FlushNumbered
<1>3. u.id \in Int /\ u.rematchOf \in Int /\ u.rematchOf < u.id
  BY <1>2 DEF Rows, Ids, NoRow, Numbered
<1>4. u.rematchOf \notin IdsIn(outbox)
  <2>1. SUFFICES ASSUME NEW j \in DOMAIN outbox, u.rematchOf = outbox[j].id
                 PROVE  FALSE
    BY DEF IdsIn
  <2>2. u.id < outbox[j].id
    BY <1>1 DEF Before
  <2> HIDE DEF u
  <2> QED
    BY <1>3, <2>1, <2>2
<1>5. u.rematchOf \in BufferedIds => u.rematchOf \in IdsIn(flush.batch)
  BY <1>4 DEF BufferedIds
<1> QED
  BY <1>2, <1>5 DEF SettledNext

(* ... but the transaction that is still open when a deadline has passed.  *)
LEMMA TimesOutKeepsRows ==
  ASSUME RowsInv, TimesOut
  PROVE  RowsInv'
<1>1. Requeue /\ flush' = NoFlush /\ rows' = rows /\ UNCHANGED <<lastSessionIdByRoom, sealed>>
  BY DEF TimesOut, GiveBack
<1>2. /\ BufferOK' /\ SealedOK' /\ FlushOK'
      /\ BufferNumbered' /\ FlushNumbered' /\ LastNumbered'
      /\ FlushInOrder' /\ RowsCounted'
      /\ BufferedIds' \subseteq BufferedIds
  BY <1>1, RequeueKeepsBuffer
<1>3. sealed' >= sealed /\ rows \subseteq Rows /\ late \in Seq([batch : Seq(Rows), days : Nat])
  BY <1>1 DEF RowsInv, SealedOK, DatabaseOK
<1> DEFINE t == [batch |-> flush.batch, days |-> flush.days]
<1>4. late' = Append(late, t)
  BY DEF TimesOut
<1>5. t \in [batch : Seq(Rows), days : Nat] /\ t.batch = flush.batch
  BY DEF RowsInv, FlushOK
<1> HIDE DEF t
<1>6. late' \in Seq([batch : Seq(Rows), days : Nat])
  <2> DEFINE T == [batch : Seq(Rows), days : Nat]
  <2>1. late \in Seq(T) /\ t \in T
    BY <1>3, <1>5
  <2> HIDE DEF T
  <2>2. late' \in Seq(T)
    BY <1>4, <2>1
  <2> QED
    BY <2>2 DEF T
<1>7. \A i \in DOMAIN late' : (\E j \in DOMAIN late : late'[i] = late[j]) \/ late'[i] = t
  BY <1>3, <1>4
<1>8. \A k \in DOMAIN t.batch :
          /\ t.batch[k] \in Rows /\ Numbered(t.batch[k], sealed)
          /\ SettledNext(t.batch[k], IdsIn(t.batch))
  BY <1>2, <1>5, BatchSettled
<1>9. \A i \in DOMAIN late' :
            \/ \E j \in DOMAIN late : late'[i] = late[j]
            \/ \A k \in DOMAIN late'[i].batch :
                   /\ late'[i].batch[k] \in Rows
                   /\ Numbered(late'[i].batch[k], sealed)
                   /\ SettledNext(late'[i].batch[k], IdsIn(late'[i].batch))
  BY <1>7, <1>8
<1>10. DatabaseOK' /\ DatabaseNumbered' /\ LateSettled' /\ RematchRefersBack'
  BY <1>1, <1>2, <1>3, <1>6, <1>9, DatabaseMoves
<1> QED
  BY <1>2, <1>10 DEF RowsInv

(* A transaction commits: the references of its rows stay within it or     *)
(* point to what is no longer waiting.                                     *)
LEMMA CommitKeepsRows ==
  ASSUME RowsInv, Commit
  PROVE  RowsInv'
<1>1. /\ rows' = rows \cup {flush.batch[i] : i \in DOMAIN flush.batch}
      /\ flush.stage = "open" /\ flush' = [flush EXCEPT !.stage = "committed"]
      /\ UNCHANGED <<outbox, lastSessionIdByRoom, sealed, dropped, late>>
  BY DEF Commit, Write, sealing
<1>2. /\ flush \in [stage : {"none", "open", "hanging", "committed"}, batch : Seq(Rows),
                  days : Nat]
      /\ flush.batch \in Seq(Rows) /\ Len(flush.batch) <= BatchSize
  BY DEF RowsInv, FlushOK
<1>3. /\ flush'.batch = flush.batch /\ flush'.stage = "committed"
      /\ flush' \in [stage : {"none", "open", "hanging", "committed"}, batch : Seq(Rows),
                  days : Nat]
  BY <1>1, <1>2
<1>4. /\ BufferOK' /\ SealedOK' /\ FlushOK'
      /\ BufferNumbered' /\ FlushNumbered' /\ LastNumbered'
  <2>1. BufferOK' /\ SealedOK' /\ BufferNumbered' /\ LastNumbered'
    BY <1>1 DEF RowsInv, BufferOK, SealedOK, BufferNumbered, LastNumbered, Ascending
  <2>2. FlushOK' /\ FlushNumbered'
    BY <1>1, <1>2, <1>3 DEF RowsInv, FlushOK, FlushNumbered
  <2> QED
    BY <2>1, <2>2
<1>5. BufferedIds' = BufferedIds /\ IdsIn(flush.batch)' = IdsIn(flush.batch)
  BY <1>1, <1>3 DEF BufferedIds, IdsIn
<1>6. StoredIds' = StoredIds \cup IdsIn(flush.batch)
  BY <1>1 DEF StoredIds, IdsIn
<1>7. FlushInOrder'
  <2>1. Ascending(flush.batch)' /\ Before(flush.batch, outbox)'
    BY <1>1, <1>3 DEF RowsInv, FlushInOrder, Ascending, Before
  <2> QED
    BY <1>3, <1>5, <1>6, <2>1 DEF FlushInOrder
<1>8. sealed \in Nat /\ sealed' = sealed /\ dropped \in Nat /\ dropped' = dropped
  BY <1>1 DEF RowsInv, SealedOK
<1>9. RowsCounted'
  <2>1. BufferedIds \cup StoredIds \cup ((sealed + 1)..sealed')
            \subseteq BufferedIds' \cup StoredIds' \cup {}
    <3>1. (sealed + 1)..sealed' = {}
      BY <1>8
    <3> QED
      BY <1>5, <1>6, <3>1
  <2>2. IsFiniteSet({}) /\ Cardinality({}) <= dropped' - dropped
    BY <1>8, FS_EmptySet
  <2> QED
    BY <1>4, <1>8, <2>1, <2>2, RowsStayCounted
<1>10. \A u \in rows' \ rows : u \in Rows /\ Numbered(u, sealed) /\ SettledNext(u, {})
  <2>1. SUFFICES ASSUME NEW k \in DOMAIN flush.batch
                 PROVE  /\ flush.batch[k] \in Rows /\ Numbered(flush.batch[k], sealed)
                        /\ SettledNext(flush.batch[k], {})
    BY <1>1
  <2>2. /\ flush.batch[k] \in Rows /\ Numbered(flush.batch[k], sealed)
        /\ SettledNext(flush.batch[k], IdsIn(flush.batch))
    BY <1>5, BatchSettled
  <2> QED
    BY <1>6, <2>2 DEF SettledNext
<1>11. DatabaseOK' /\ DatabaseNumbered' /\ LateSettled' /\ RematchRefersBack'
  <2>1. rows \subseteq rows' /\ rows' \subseteq Rows
    BY <1>1, <1>10 DEF RowsInv, DatabaseOK
  <2>2. late' \in Seq([batch : Seq(Rows), days : Nat])
    BY <1>1 DEF RowsInv, DatabaseOK
  <2>3. \A i \in DOMAIN late' : \E j \in DOMAIN late : late'[i] = late[j]
    BY <1>1
  <2>4. sealed' >= sealed /\ BufferedIds' \subseteq BufferedIds \cup ((sealed + 1)..sealed')
    BY <1>5, <1>8
  <2> QED
    BY <1>4, <1>10, <2>1, <2>2, <2>3, <2>4, DatabaseMoves
<1> QED
  BY <1>4, <1>7, <1>9, <1>11 DEF RowsInv

(* A flush that hangs, or has its answer, lets go of nothing.              *)
LEMMA HangsKeepsRows ==
  ASSUME RowsInv, Hangs
  PROVE  RowsInv'
<1>1. /\ flush.stage = "open" /\ flush' = [flush EXCEPT !.stage = "hanging"]
      /\ UNCHANGED <<outbox, lastSessionIdByRoom, sealed, dropped, rows, dayRows, late>>
  BY DEF Hangs, sealing, database
<1>2. /\ flush \in [stage : {"none", "open", "hanging", "committed"}, batch : Seq(Rows),
                  days : Nat]
      /\ Len(flush.batch) <= BatchSize
  BY DEF RowsInv, FlushOK
<1>3. /\ flush'.batch = flush.batch /\ flush'.stage = "hanging"
      /\ flush' \in [stage : {"none", "open", "hanging", "committed"}, batch : Seq(Rows),
                  days : Nat]
  BY <1>1, <1>2
<1>4. /\ BufferOK' /\ SealedOK' /\ FlushOK'
      /\ BufferNumbered' /\ FlushNumbered' /\ LastNumbered'
  <2>1. BufferOK' /\ SealedOK' /\ BufferNumbered' /\ LastNumbered'
    BY <1>1 DEF RowsInv, BufferOK, SealedOK, BufferNumbered, LastNumbered, Ascending
  <2>2. FlushOK' /\ FlushNumbered'
    BY <1>1, <1>2, <1>3 DEF RowsInv, FlushOK, FlushNumbered
  <2> QED
    BY <2>1, <2>2
<1>5. BufferedIds' = BufferedIds /\ StoredIds' = StoredIds
  BY <1>1, <1>3 DEF BufferedIds, StoredIds, IdsIn
<1>6. FlushInOrder'
  BY <1>1, <1>3 DEF RowsInv, FlushInOrder, Ascending, Before
<1>7. RowsCounted'
  BY <1>1, <1>5 DEF RowsInv, RowsCounted
<1>8. DatabaseOK' /\ DatabaseNumbered' /\ LateSettled' /\ RematchRefersBack'
  <2>1. sealed' >= sealed /\ UNCHANGED database
    BY <1>1 DEF RowsInv, SealedOK, database
  <2> QED
    BY <1>4, <1>5, <2>1, DatabaseStays
<1> QED
  BY <1>4, <1>6, <1>7, <1>8 DEF RowsInv

LEMMA AnsweredKeepsRows ==
  ASSUME RowsInv, Answered
  PROVE  RowsInv'
<1>1. /\ flush.stage = "committed" /\ flush' = NoFlush
      /\ UNCHANGED <<outbox, lastSessionIdByRoom, sealed, dropped, rows, dayRows, late>>
  BY DEF Answered, sealing, database
<1>2. flush'.batch = << >> /\ flush'.stage = "none" /\ flush'.days = 0
  BY <1>1 DEF NoFlush
<1>3. /\ BufferOK' /\ SealedOK' /\ FlushOK'
      /\ BufferNumbered' /\ FlushNumbered' /\ LastNumbered'
  <2>1. BufferOK' /\ SealedOK' /\ BufferNumbered' /\ LastNumbered'
    BY <1>1 DEF RowsInv, BufferOK, SealedOK, BufferNumbered, LastNumbered, Ascending
  <2>2. FlushOK'
    BY <1>1, SizesAssumption DEF FlushOK, NoFlush
  <2>3. FlushNumbered'
    BY <1>2 DEF FlushNumbered
  <2> QED
    BY <2>1, <2>2, <2>3
<1>4. FlushInOrder'
  BY <1>1, <1>2 DEF FlushInOrder, Ascending, Before, NoFlush
<1>5. /\ BufferedIds' = IdsIn(outbox) /\ StoredIds' = StoredIds
      /\ BufferedIds = IdsIn(outbox) \cup IdsIn(flush.batch)
      /\ IdsIn(flush.batch) \subseteq StoredIds
  <2>1. IdsIn(outbox)' = IdsIn(outbox) /\ IdsIn(flush.batch)' = {} /\ StoredIds' = StoredIds
    BY <1>1, <1>2 DEF IdsIn, StoredIds
  <2> QED
    BY <1>1, <2>1 DEF BufferedIds, RowsInv, FlushInOrder
<1>6. RowsCounted'
  <2>1. 1..sealed' \ (BufferedIds' \cup StoredIds') = 1..sealed \ (BufferedIds \cup StoredIds)
    BY <1>1, <1>5
  <2> QED
    BY <1>1, <2>1 DEF RowsInv, RowsCounted
<1>7. DatabaseOK' /\ DatabaseNumbered' /\ LateSettled' /\ RematchRefersBack'
  <2>1. sealed' >= sealed /\ UNCHANGED database
    BY <1>1 DEF RowsInv, SealedOK, database
  <2> QED
    BY <1>3, <1>5, <2>1, DatabaseStays
<1> QED
  BY <1>3, <1>4, <1>6, <1>7 DEF RowsInv

(* The other transactions stay open.                                       *)
LEMMA OthersStayOpen ==
  ASSUME DatabaseOK, NEW i \in DOMAIN late, Forget(i)
  PROVE  /\ late' \in Seq([batch : Seq(Rows), days : Nat])
         /\ \A j \in DOMAIN late' : \E k \in DOMAIN late : late'[j] = late[k]
<1> DEFINE T == [batch : Seq(Rows), days : Nat]
           p == SubSeq(late, 1, i - 1)
           q == SubSeq(late, i + 1, Len(late))
<1>1. /\ late \in Seq(T) /\ Len(late) \in Nat /\ DOMAIN late = 1..Len(late)
      /\ late' = p \o q
  BY DEF DatabaseOK, Forget
<1> HIDE DEF T
<1>0. i \in Int /\ 1 <= i /\ i <= Len(late)
  BY <1>1
<1>2. /\ p \in Seq(T) /\ Len(p) = i - 1
      /\ \A j \in 1..(i - 1) : p[j] = late[j]
  BY <1>1
<1>3. /\ q \in Seq(T) /\ Len(q) = Len(late) - i
      /\ \A j \in 1..(Len(late) - i) : q[j] = late[i + j]
  BY <1>1
<1> HIDE DEF p, q
<1>4. /\ late' \in Seq(T) /\ DOMAIN late' = 1..(Len(late) - 1)
      /\ \A j \in 1..(i - 1) : late'[j] = p[j]
      /\ \A j \in 1..(Len(late) - i) : late'[(i - 1) + j] = q[j]
  <2>1. /\ p \o q \in Seq(T) /\ Len(p \o q) = Len(p) + Len(q)
        /\ DOMAIN (p \o q) = 1..(Len(p) + Len(q))
        /\ \A j \in 1..Len(p) : (p \o q)[j] = p[j]
        /\ \A j \in 1..Len(q) : (p \o q)[Len(p) + j] = q[j]
    <3>1. p \in Seq(T) /\ q \in Seq(T)
      BY <1>2, <1>3
    <3> QED
      BY <3>1
  <2>2. Len(p) + Len(q) = Len(late) - 1
    BY <1>1, <1>2, <1>3
  <2> QED
    BY <1>1, <1>2, <1>3, <2>1, <2>2
<1>5. ASSUME NEW j \in DOMAIN late'
      PROVE  \E k \in DOMAIN late : late'[j] = late[k]
  <2>1. CASE j \in 1..(i - 1)
    <3>1. j \in 1..Len(late)
      BY <1>0, <1>1, <2>1
    <3>2. late'[j] = p[j] /\ p[j] = late[j]
      BY <1>2, <1>4, <2>1
    <3> QED
      BY <1>1, <3>1, <3>2
  <2>2. CASE j \notin 1..(i - 1)
    <3>1. i \in 1..Len(late) /\ j \in 1..(Len(late) - 1)
      BY <1>1, <1>4
    <3>4. /\ j - (i - 1) \in 1..(Len(late) - i) /\ (i - 1) + (j - (i - 1)) = j
          /\ i + (j - (i - 1)) \in 1..Len(late)
      BY <1>1, <2>2, <3>1
    <3>2. late'[j] = late[i + (j - (i - 1))]
      BY <1>3, <1>4, <3>4
    <3> QED
      BY <1>1, <3>2, <3>4
  <2> QED
    BY <2>1, <2>2
<1> QED
  BY <1>4, <1>5 DEF T

(* A transaction that comes late commits or goes away.                     *)
LEMMA LateKeepsRows ==
  ASSUME RowsInv, NEW i \in DOMAIN late, LateCommit(i) \/ LateRollback(i)
  PROVE  RowsInv'
<1> DEFINE b == late[i].batch
<1>1. /\ UNCHANGED <<outbox, lastSessionIdByRoom, sealed, dropped, flush>>
      /\ Forget(i)
      /\ rows' = rows \/ rows' = rows \cup {b[k] : k \in DOMAIN b}
  BY DEF LateCommit, LateRollback, Write, sealing
<1>2. /\ late' \in Seq([batch : Seq(Rows), days : Nat])
      /\ \A j \in DOMAIN late' : \E k \in DOMAIN late : late'[j] = late[k]
  BY <1>1, OthersStayOpen DEF RowsInv
<1>3. /\ BufferOK' /\ SealedOK' /\ FlushOK'
      /\ BufferNumbered' /\ FlushNumbered' /\ LastNumbered'
  BY <1>1 DEF RowsInv, BufferOK, SealedOK, FlushOK, BufferNumbered, FlushNumbered,
              LastNumbered, Ascending
<1>4. BufferedIds' = BufferedIds /\ StoredIds \subseteq StoredIds'
  BY <1>1 DEF BufferedIds, StoredIds, IdsIn
<1>5. FlushInOrder'
  BY <1>1, <1>4 DEF RowsInv, FlushInOrder, Ascending, Before, IdsIn
<1>6. sealed \in Nat /\ sealed' = sealed /\ dropped \in Nat /\ dropped' = dropped
  BY <1>1 DEF RowsInv, SealedOK
<1>7. RowsCounted'
  <2>1. BufferedIds \cup StoredIds \cup ((sealed + 1)..sealed')
            \subseteq BufferedIds' \cup StoredIds' \cup {}
    <3>1. (sealed + 1)..sealed' = {}
      BY <1>6
    <3> QED
      BY <1>4, <3>1
  <2>2. IsFiniteSet({}) /\ Cardinality({}) <= dropped' - dropped
    BY <1>6, FS_EmptySet
  <2> QED
    BY <1>3, <1>6, <2>1, <2>2, RowsStayCounted
<1>8. \A u \in rows' \ rows : u \in Rows /\ Numbered(u, sealed) /\ SettledNext(u, {})
  <2>1. SUFFICES ASSUME NEW k \in DOMAIN b, rows' = rows \cup {b[j] : j \in DOMAIN b}
                 PROVE  b[k] \in Rows /\ Numbered(b[k], sealed) /\ SettledNext(b[k], {})
    BY <1>1
  <2>2. b \in Seq(Rows)
    BY LateHolds DEF RowsInv
  <2>3. Numbered(b[k], sealed) /\ Settled(b[k], IdsIn(b))
    BY DEF RowsInv, DatabaseNumbered, LateSettled
  <2> HIDE DEF b
  <2>4. b[k] \in Rows
    BY <2>2
  <2>5. SettledNext(b[k], IdsIn(b))
    BY <1>3, <1>4, <2>3, <2>4, StaysSettled
  <2>6. IdsIn(b) \subseteq StoredIds'
    BY <2>1 DEF IdsIn, StoredIds
  <2> QED
    BY <2>3, <2>4, <2>5, <2>6 DEF SettledNext
<1>9. DatabaseOK' /\ DatabaseNumbered' /\ LateSettled' /\ RematchRefersBack'
  <2>1. rows \subseteq rows' /\ rows' \subseteq Rows
    BY <1>1, <1>8 DEF RowsInv, DatabaseOK
  <2>2. sealed' >= sealed /\ BufferedIds' \subseteq BufferedIds \cup ((sealed + 1)..sealed')
    BY <1>4, <1>6
  <2> QED
    BY <1>2, <1>3, <1>8, <2>1, <2>2, DatabaseMoves
<1> QED
  BY <1>3, <1>5, <1>7, <1>9 DEF RowsInv

(* A step that touches no row.                                             *)
LEMMA OtherwiseRowsStay ==
  ASSUME RowsInv, UNCHANGED <<sealing, flush, database>>
  PROVE  RowsInv'
<1>1. UNCHANGED <<outbox, lastSessionIdByRoom, sealed, dropped, flush, rows, late>>
  BY DEF sealing, database
<1>2. /\ BufferOK' /\ SealedOK' /\ FlushOK' /\ DatabaseOK'
      /\ BufferNumbered' /\ FlushNumbered' /\ DatabaseNumbered' /\ LastNumbered'
  BY <1>1 DEF RowsInv, BufferOK, SealedOK, FlushOK, DatabaseOK, BufferNumbered,
              FlushNumbered, DatabaseNumbered, LastNumbered, Ascending
<1>3. BufferedIds' = BufferedIds /\ StoredIds' = StoredIds
  BY <1>1 DEF BufferedIds, StoredIds, IdsIn
<1>4. FlushInOrder' /\ RowsCounted'
  BY <1>1, <1>3 DEF RowsInv, FlushInOrder, RowsCounted, Ascending, Before, IdsIn
<1>5. LateSettled' /\ RematchRefersBack'
  BY <1>1, <1>3 DEF RowsInv, LateSettled, RematchRefersBack, Settled, IdsIn
<1> QED
  BY <1>2, <1>4, <1>5 DEF RowsInv

-----------------------------------------------------------------------------
(* The matches that are open *)

Distinct(ss) == \A i, j \in DOMAIN ss : ss[i].match = ss[j].match => i = j

(* Some of them, in order, are still different matches.                    *)
LEMMA SomeStayDistinct ==
  ASSUME NEW ss \in Seq(Sessions), Distinct(ss), NEW I \in SUBSET DOMAIN ss
  PROVE  Distinct(Those(ss, I))
<1>1. /\ DOMAIN Those(ss, I) = 1..Cardinality(I)
      /\ InOrder(I) \in [1..Cardinality(I) -> I]
      /\ \A k \in 1..Cardinality(I) : Those(ss, I)[k] = ss[InOrder(I)[k]]
      /\ \A j, k \in 1..Cardinality(I) : InOrder(I)[j] = InOrder(I)[k] => j = k
  BY ThoseStandThere
<1>2. SUFFICES ASSUME NEW j \in 1..Cardinality(I), NEW k \in 1..Cardinality(I),
                      Those(ss, I)[j].match = Those(ss, I)[k].match
               PROVE  j = k
  BY <1>1 DEF Distinct
<1>3. InOrder(I)[j] \in DOMAIN ss /\ InOrder(I)[k] \in DOMAIN ss
  BY <1>1
<1>4. InOrder(I)[j] = InOrder(I)[k]
  BY <1>1, <1>2, <1>3 DEF Distinct
<1> QED
  BY <1>1, <1>4

(* One match taken out of the Map.                                         *)
LEMMA WithoutOne ==
  ASSUME NEW ss \in Seq(Sessions), Distinct(ss), NEW k \in DOMAIN ss
  PROVE  LET m == ss[k].match IN
         /\ Without(ss, m) \in Seq(Sessions) /\ Distinct(Without(ss, m))
         /\ Len(Without(ss, m)) = Len(ss) - 1
         /\ \A i \in DOMAIN Without(ss, m) : Without(ss, m)[i].match # m
         /\ Only(ss, m) \in Seq(Sessions) /\ Len(Only(ss, m)) = 1
<1> DEFINE m == ss[k].match
           I == {i \in DOMAIN ss : ss[i].match # m}
           J == {i \in DOMAIN ss : ss[i].match = m}
<1>1. /\ Len(ss) \in Nat /\ DOMAIN ss = 1..Len(ss)
      /\ IsFiniteSet(1..Len(ss)) /\ Cardinality(1..Len(ss)) = Len(ss)
  BY FS_Interval
<1>2. I = (1..Len(ss)) \ {k} /\ J = {k}
  BY <1>1 DEF Distinct
<1>3. Without(ss, m) = Those(ss, I) /\ Only(ss, m) = Those(ss, J)
  BY DEF Without, Only
<1>4. Cardinality(I) = Len(ss) - 1
  <2>1. IF k \in 1..Len(ss) THEN Cardinality((1..Len(ss)) \ {k}) = Cardinality(1..Len(ss)) - 1
        ELSE TRUE
    BY <1>1, FS_RemoveElement
  <2> QED
    BY <1>1, <1>2, <2>1
<1>5. Cardinality(J) = 1
  BY <1>2, FS_Singleton
<1>6. I \in SUBSET DOMAIN ss /\ J \in SUBSET DOMAIN ss
  OBVIOUS
<1>7. \A i \in I : ss[i].match # m
  OBVIOUS
<1> HIDE DEF m, I, J
<1>8. /\ Those(ss, I) \in Seq(Sessions) /\ Len(Those(ss, I)) = Cardinality(I)
      /\ DOMAIN Those(ss, I) = 1..Cardinality(I)
      /\ InOrder(I) \in [1..Cardinality(I) -> I]
      /\ \A i \in 1..Cardinality(I) : Those(ss, I)[i] = ss[InOrder(I)[i]]
  BY <1>6, ThoseStandThere
<1>9. Those(ss, J) \in Seq(Sessions) /\ Len(Those(ss, J)) = Cardinality(J)
  BY <1>6, ThoseStandThere
<1>10. Distinct(Those(ss, I))
  BY <1>6, SomeStayDistinct
<1>11. \A i \in DOMAIN Those(ss, I) : Those(ss, I)[i].match # m
  BY <1>7, <1>8
<1> QED
  BY <1>3, <1>4, <1>5, <1>8, <1>9, <1>10, <1>11 DEF m

(* A new match at the end of the Map.                                      *)
LEMMA AppendDistinct ==
  ASSUME NEW ss \in Seq(Sessions), Distinct(ss), NEW new \in Sessions,
         \A i \in DOMAIN ss : ss[i].match # new.match
  PROVE  /\ Append(ss, new) \in Seq(Sessions) /\ Distinct(Append(ss, new))
         /\ Len(Append(ss, new)) = Len(ss) + 1
         /\ \E i \in DOMAIN Append(ss, new) : Append(ss, new)[i].match = new.match
<1> DEFINE r == Append(ss, new)
<1>1. /\ Len(ss) \in Nat /\ DOMAIN ss = 1..Len(ss)
      /\ r \in Seq(Sessions) /\ Len(r) = Len(ss) + 1 /\ DOMAIN r = 1..(Len(ss) + 1)
      /\ \A i \in 1..Len(ss) : r[i] = ss[i]
      /\ r[Len(ss) + 1] = new
  OBVIOUS
<1> HIDE DEF r
<1>2. Distinct(r)
  <2>1. SUFFICES ASSUME NEW i \in DOMAIN r, NEW j \in DOMAIN r, r[i].match = r[j].match
                 PROVE  i = j
    BY DEF Distinct
  <2>2. CASE i \in 1..Len(ss) /\ j \in 1..Len(ss)
    BY <1>1, <2>1, <2>2 DEF Distinct
  <2>3. CASE i \notin 1..Len(ss) /\ j \notin 1..Len(ss)
    BY <1>1, <2>3
  <2>4. CASE i \in 1..Len(ss) /\ j \notin 1..Len(ss)
    <3>1. j = Len(ss) + 1
      BY <1>1, <2>4
    <3> QED
      BY <1>1, <2>1, <2>4, <3>1
  <2>5. CASE i \notin 1..Len(ss) /\ j \in 1..Len(ss)
    <3>1. i = Len(ss) + 1
      BY <1>1, <2>5
    <3> QED
      BY <1>1, <2>1, <2>5, <3>1
  <2> QED
    BY <2>2, <2>3, <2>4, <2>5
<1>3. Len(ss) + 1 \in DOMAIN r
  BY <1>1
<1> QED
  BY <1>1, <1>2, <1>3 DEF r

(* However a match is opened, the Map has it once, and there is an id for  *)
(* every match that is open or pushed out.                                 *)
LEMMA OpeningsAreOpen ==
  ASSUME OpenOK, NEW m \in Matches, NEW lag \in 0..IdleTicks, NEW rematch \in BOOLEAN,
         NEW o \in Openings(m, lag, rematch)
  PROVE  /\ o.open \in Seq(Sessions) /\ Len(o.open) <= MaxOpen /\ Distinct(o.open)
         /\ \E i \in DOMAIN o.open : o.open[i].match = m
         /\ o.evicted \in Seq(Sessions)
         /\ Len(o.open) + Len(o.evicted) = Len(open) + (IF IsOpen(m) THEN 0 ELSE 1)
<1> DEFINE Heard(x) == IF x.match = m THEN Session(m, lag, x.rematch \/ rematch) ELSE x
           new == Session(m, lag, rematch)
<1>1. /\ open \in Seq(Sessions) /\ Len(open) <= MaxOpen /\ Distinct(open)
      /\ Len(open) \in Nat /\ DOMAIN open = 1..Len(open) /\ MaxOpen \in Nat \ {0}
  BY SizesAssumption DEF OpenOK, Distinct
<1>2. new \in Sessions /\ new.match = m
  BY DEF Session, Sessions
<1>3. << >> \in Seq(Sessions) /\ Len(<< >>) = 0
  OBVIOUS
<1>4. CASE IsOpen(m)
  <2> DEFINE heard == [i \in DOMAIN open |-> Heard(open[i])]
  <2>1. o = [open |-> heard, evicted |-> << >>]
    BY <1>4 DEF Openings
  <2>2. ASSUME NEW x \in Sessions
        PROVE  Heard(x) \in Sessions /\ Heard(x).match = x.match
    <3>1. CASE x.match = m
      <4>1. Heard(x) = [match |-> m, quiet |-> lag, rematch |-> x.rematch \/ rematch]
        BY <3>1 DEF Session
      <4>2. x.rematch \/ rematch \in BOOLEAN
        BY DEF Sessions
      <4> HIDE DEF Heard
      <4> QED
        BY <3>1, <4>1, <4>2 DEF Sessions
    <3>2. CASE x.match # m
      BY <3>2
    <3> QED
      BY <3>1, <3>2
  <2> HIDE DEF Heard
  <2>3. \A i \in 1..Len(open) : Heard(open[i]) \in Sessions /\ Heard(open[i]).match = open[i].match
    BY <1>1, <2>2
  <2>4. heard \in [1..Len(open) -> Sessions]
    BY <1>1, <2>3
  <2>5. heard \in Seq(Sessions) /\ Len(heard) = Len(open) /\ DOMAIN heard = 1..Len(open)
    BY <1>1, <2>4
  <2>6. \A i \in 1..Len(open) : heard[i].match = open[i].match
    BY <1>1, <2>3
  <2> HIDE DEF heard
  <2>7. Distinct(heard)
    BY <1>1, <2>5, <2>6 DEF Distinct
  <2>8. \E i \in DOMAIN heard : heard[i].match = m
    BY <1>1, <1>4, <2>5, <2>6 DEF IsOpen
  <2>9. o.open = heard /\ o.evicted = << >>
    BY <2>1
  <2> QED
    BY <1>1, <1>3, <1>4, <2>5, <2>7, <2>8, <2>9
<1>5. CASE ~IsOpen(m) /\ Len(open) < MaxOpen
  <2>1. o = [open |-> Append(open, new), evicted |-> << >>]
    BY <1>5 DEF Openings
  <2>2. o.open = Append(open, new) /\ o.evicted = << >>
    BY <2>1
  <2>3. \A i \in DOMAIN open : open[i].match # new.match
    BY <1>2, <1>5 DEF IsOpen
  <2> HIDE DEF new
  <2>4. /\ Append(open, new) \in Seq(Sessions) /\ Distinct(Append(open, new))
        /\ Len(Append(open, new)) = Len(open) + 1
        /\ \E i \in DOMAIN Append(open, new) : Append(open, new)[i].match = new.match
    BY <1>1, <1>2, <2>3, AppendDistinct
  <2> QED
    BY <1>1, <1>2, <1>3, <1>5, <2>2, <2>4
<1>6. CASE ~IsOpen(m) /\ ~(Len(open) < MaxOpen)
  <2>1. PICK k \in Oldest : o = [open |-> Append(Without(open, open[k].match), new),
                                 evicted |-> <<open[k]>>]
    BY <1>6 DEF Openings
  <2>2. k \in DOMAIN open
    BY DEF Oldest
  <2> DEFINE w == Without(open, open[k].match)
  <2>3. o.open = Append(w, new) /\ o.evicted = <<open[k]>>
    BY <2>1
  <2>4. /\ w \in Seq(Sessions) /\ Distinct(w) /\ Len(w) = Len(open) - 1
    BY <1>1, <2>2, WithoutOne
  <2>5. \A i \in DOMAIN w : w[i].match # new.match
    <3> DEFINE I == {i \in DOMAIN open : open[i].match # open[k].match}
    <3>1. w = Those(open, I) /\ I \in SUBSET DOMAIN open
      BY DEF Without
    <3> HIDE DEF I, w
    <3>2. /\ DOMAIN w = 1..Cardinality(I)
          /\ InOrder(I) \in [1..Cardinality(I) -> I]
          /\ \A i \in 1..Cardinality(I) : w[i] = open[InOrder(I)[i]]
      BY <1>1, <3>1, ThoseStandThere
    <3>3. \A i \in DOMAIN w : \E j \in DOMAIN open : w[i] = open[j]
      BY <3>1, <3>2
    <3> QED
      BY <1>2, <1>6, <3>3 DEF IsOpen
  <2> HIDE DEF w, new
  <2>6. /\ Append(w, new) \in Seq(Sessions) /\ Distinct(Append(w, new))
        /\ Len(Append(w, new)) = Len(w) + 1
        /\ \E i \in DOMAIN Append(w, new) : Append(w, new)[i].match = new.match
    BY <1>2, <2>4, <2>5, AppendDistinct
  <2>7. <<open[k]>> \in Seq(Sessions) /\ Len(<<open[k]>>) = 1
    BY <1>1, <2>2
  <2> QED
    BY <1>1, <1>2, <1>6, <2>3, <2>4, <2>6, <2>7
<1> QED
  BY <1>4, <1>5, <1>6

-----------------------------------------------------------------------------
(* Every step *)

(* Opening a match leaves enough ids.                                      *)
LEMMA OpeningsLeaveIds ==
  ASSUME OpenOK, RowsInv, IdsLeft,
         NEW m \in Matches, NEW lag \in 0..IdleTicks, NEW rematch \in BOOLEAN,
         IsOpen(m) \/ sealed + Len(open) < MaxSealed,
         NEW o \in Openings(m, lag, rematch)
  PROVE  /\ Len(o.open) \in Nat /\ Len(o.evicted) \in Nat
         /\ sealed + (Len(o.open) + Len(o.evicted)) <= MaxSealed
<1> DEFINE ss == o.open
           ev == o.evicted
           extra == IF IsOpen(m) THEN 0 ELSE 1
<1>1. ss \in Seq(Sessions) /\ ev \in Seq(Sessions) /\ Len(ss) + Len(ev) = Len(open) + extra
  BY OpeningsAreOpen
<1>2. sealed \in Nat /\ MaxSealed \in Nat /\ Len(open) \in Nat
  BY BoundsAssumption DEF OpenOK, RowsInv, SealedOK
<1>3. sealed + (Len(open) + extra) <= MaxSealed
  <2>1. CASE IsOpen(m)
    BY <1>2, <2>1 DEF IdsLeft
  <2>2. CASE ~IsOpen(m)
    BY <1>2, <2>2
  <2> QED
    BY <2>1, <2>2
<1> HIDE DEF ss, ev, extra
<1>4. Len(ss) \in Nat /\ Len(ev) \in Nat
  BY <1>1
<1>5. sealed + (Len(ss) + Len(ev)) <= MaxSealed
  BY <1>1, <1>3
<1> QED
  BY <1>4, <1>5 DEF ss, ev

(* Two lists, one after the other. *)
LEMMA TwoMaps ==
  ASSUME NEW S, NEW a \in Seq(S), NEW b \in Seq(S)
  PROVE  a \o b \in Seq(S) /\ Len(a \o b) = Len(a) + Len(b)
OBVIOUS

(* One match more, and those it pushes out sealed.                         *)
LEMMA GatherKeeps ==
  ASSUME Inv, NEW m \in Matches, NEW lag \in 0..IdleTicks, NEW rematch \in BOOLEAN,
         Gather(m, lag, rematch), UNCHANGED <<flush, database>>
  PROVE  OpenOK' /\ IdsLeft' /\ RowsInv'
<1>1. PICK o \in Openings(m, lag, rematch) : open' = o.open /\ Seal(o.evicted)
  BY DEF Gather
<1>2. OpenOK /\ RowsInv /\ IdsLeft /\ (IsOpen(m) \/ sealed + Len(open) < MaxSealed)
  BY DEF Inv, Gather
<1>3. /\ o.open \in Seq(Sessions) /\ Len(o.open) <= MaxOpen /\ Distinct(o.open)
      /\ o.evicted \in Seq(Sessions)
  BY <1>2, OpeningsAreOpen
<1>4. /\ Len(o.open) \in Nat /\ Len(o.evicted) \in Nat
      /\ sealed + (Len(o.open) + Len(o.evicted)) <= MaxSealed
  BY <1>2, OpeningsLeaveIds
<1> DEFINE ss == o.open
           ev == o.evicted
<1>5. /\ ss \in Seq(Sessions) /\ Len(ss) <= MaxOpen /\ Distinct(ss) /\ ev \in Seq(Sessions)
      /\ Len(ss) \in Nat /\ Len(ev) \in Nat /\ sealed + (Len(ss) + Len(ev)) <= MaxSealed
      /\ open' = ss /\ Seal(ev)
  BY <1>1, <1>3, <1>4
<1> HIDE DEF ss, ev
<1>6. sealed \in Nat /\ MaxSealed \in Nat
  BY <1>2, BoundsAssumption DEF RowsInv, SealedOK
<1>7. sealed + Len(ev) <= MaxSealed
  BY <1>5, <1>6
<1>8. RowsInv' /\ sealed' = sealed + Len(ev)
  BY <1>2, <1>5, <1>7, SealKeepsRows
<1>9. IdsLeft'
  BY <1>5, <1>6, <1>8 DEF IdsLeft
<1>10. OpenOK'
  BY <1>5 DEF OpenOK, Distinct
<1> QED
  BY <1>8, <1>9, <1>10

(* The match that is over is sealed as well.                               *)
LEMMA FinishKeeps ==
  ASSUME Inv, NEW m \in Matches, NEW lag \in 0..IdleTicks, MatchFinished(m, lag)
  PROVE  OpenOK' /\ IdsLeft' /\ RowsInv'
<1>0. UNCHANGED <<flush, database>>
  BY DEF MatchFinished, OnlyRecords
<1>1. PICK o \in Openings(m, lag, FALSE) :
          open' = Without(o.open, m) /\ Seal(o.evicted \o Only(o.open, m))
  BY DEF MatchFinished
<1>2. OpenOK /\ RowsInv /\ IdsLeft /\ (IsOpen(m) \/ sealed + Len(open) < MaxSealed)
  BY DEF Inv, MatchFinished
<1>3. /\ o.open \in Seq(Sessions) /\ Len(o.open) <= MaxOpen /\ Distinct(o.open)
      /\ \E i \in DOMAIN o.open : o.open[i].match = m
      /\ o.evicted \in Seq(Sessions)
  BY <1>2, OpeningsAreOpen
<1>4. /\ Len(o.open) \in Nat /\ Len(o.evicted) \in Nat
      /\ sealed + (Len(o.open) + Len(o.evicted)) <= MaxSealed
  BY <1>2, OpeningsLeaveIds
<1> DEFINE ss == o.open
           ev == o.evicted
           w == Without(ss, m)
           it == Only(ss, m)
           out == ev \o it
<1>5. PICK k \in DOMAIN ss : ss[k].match = m
  BY <1>3
<1>6. /\ ss \in Seq(Sessions) /\ Len(ss) <= MaxOpen /\ Distinct(ss) /\ ev \in Seq(Sessions)
      /\ Len(ss) \in Nat /\ Len(ev) \in Nat /\ sealed + (Len(ss) + Len(ev)) <= MaxSealed
      /\ open' = w /\ Seal(out)
  BY <1>1, <1>3, <1>4
<1> HIDE DEF ss, ev
<1>7. /\ w \in Seq(Sessions) /\ Distinct(w) /\ Len(w) = Len(ss) - 1
      /\ it \in Seq(Sessions) /\ Len(it) = 1
  BY <1>5, <1>6, WithoutOne
<1> HIDE DEF w, it
<1>8. out \in Seq(Sessions) /\ Len(out) = Len(ev) + 1
  <2>1. ev \in Seq(Sessions) /\ it \in Seq(Sessions) /\ Len(it) = 1
    BY <1>6, <1>7
  <2>2. out \in Seq(Sessions) /\ Len(out) = Len(ev) + Len(it)
    BY <2>1, TwoMaps
  <2> QED
    BY <2>1, <2>2
<1> HIDE DEF out
<1>9. sealed \in Nat /\ MaxSealed \in Nat /\ MaxOpen \in Nat /\ Len(w) \in Nat
  BY <1>2, <1>7, BoundsAssumption, SizesAssumption DEF RowsInv, SealedOK
<1>10. sealed + (Len(w) + Len(out)) <= MaxSealed /\ sealed + Len(out) <= MaxSealed
  BY <1>6, <1>7, <1>8, <1>9
<1>11. RowsInv' /\ sealed' = sealed + Len(out)
  BY <1>0, <1>2, <1>6, <1>8, <1>10, SealKeepsRows
<1>12. IdsLeft'
  <2>1. Len(out) \in Nat
    BY <1>8
  <2> QED
    BY <1>6, <1>9, <1>10, <1>11, <2>1 DEF IdsLeft
<1>13. OpenOK'
  <2>1. Len(open') <= MaxOpen
    BY <1>6, <1>7, <1>9
  <2> QED
    BY <1>6, <1>7, <2>1 DEF OpenOK, Distinct
<1> QED
  BY <1>11, <1>12, <1>13

(* A flush begins: the idle matches are sealed, the others stay open.      *)
LEMMA BeginKeeps ==
  ASSUME Inv, ~Flushing, BeginFlush, UNCHANGED database
  PROVE  OpenOK' /\ IdsLeft' /\ RowsInv'
<1> DEFINE I == {i \in DOMAIN open : Idle(open[i])}
           J == {i \in DOMAIN open : ~Idle(open[i])}
<1>1. OpenOK /\ RowsInv /\ IdsLeft /\ days \in Nat
  BY DEF Inv, CountsOK
<1>2. RowsInv' /\ sealed' = sealed + Len(IdleOnes)
  BY <1>1, BeginKeepsRows
<1>3. /\ open \in Seq(Sessions) /\ Len(open) <= MaxOpen /\ Distinct(open)
      /\ Len(open) \in Nat /\ DOMAIN open = 1..Len(open) /\ MaxOpen \in Nat
      /\ sealed \in Nat /\ MaxSealed \in Nat
  BY <1>1, SizesAssumption, BoundsAssumption DEF OpenOK, Distinct, RowsInv, SealedOK
<1>4. open' = Those(open, J) /\ IdleOnes = Those(open, I)
  BY DEF BeginFlush, Alive, IdleOnes
<1>5. I \in SUBSET DOMAIN open /\ J \in SUBSET DOMAIN open
  OBVIOUS
<1>6. I \cup J = 1..Len(open) /\ I \cap J = {}
  BY <1>3
<1> HIDE DEF I, J
<1>7. IsFiniteSet(I) /\ Len(IdleOnes) = Cardinality(I)
  BY <1>3, <1>4, <1>5, ThoseStandThere
<1>8. /\ IsFiniteSet(J) /\ open' \in Seq(Sessions) /\ Len(open') = Cardinality(J)
      /\ Distinct(open')
  BY <1>3, <1>4, <1>5, ThoseStandThere, SomeStayDistinct
<1>9. Cardinality(I) + Cardinality(J) = Len(open)
      /\ Cardinality(I) \in Nat /\ Cardinality(J) \in Nat
  <2>1. Cardinality(I \cup J) = Cardinality(I) + Cardinality(J) - Cardinality(I \cap J)
    BY <1>7, <1>8, FS_Union
  <2>2. Cardinality(I \cap J) = 0
    BY <1>6, FS_EmptySet
  <2> DEFINE n == Len(open)
  <2>5. n \in Nat /\ 1 \in Int
    BY <1>3
  <2> HIDE DEF n
  <2>6. Cardinality(1..n) = IF 1 > n THEN 0 ELSE n - 1 + 1
    BY <2>5, FS_Interval
  <2>3. Cardinality(1..Len(open)) = Len(open)
    BY <2>5, <2>6 DEF n
  <2>4. Cardinality(I) \in Nat /\ Cardinality(J) \in Nat
    BY <1>7, <1>8, FS_CardinalityType
  <2> QED
    <3>1. Cardinality(I \cup J) = Len(open)
      BY <1>6, <2>3
    <3> QED
      BY <2>1, <2>2, <2>4, <3>1
<1>10. Len(open') <= MaxOpen
  BY <1>3, <1>8, <1>9
<1>11. IdsLeft'
  BY <1>1, <1>2, <1>3, <1>7, <1>8, <1>9 DEF IdsLeft
<1>12. OpenOK'
  BY <1>8, <1>10 DEF OpenOK, Distinct
<1> QED
  BY <1>2, <1>11, <1>12

(* Time passes for the matches that are open.                              *)
LEMMA TickKeepsOpen ==
  ASSUME OpenOK, Tick
  PROVE  OpenOK' /\ Len(open') = Len(open)
<1> DEFINE aged(x) == [x EXCEPT !.quiet = Min2(IdleTicks, @ + 1)]
<1>1. /\ open \in Seq(Sessions) /\ Len(open) <= MaxOpen /\ Distinct(open)
      /\ Len(open) \in Nat /\ DOMAIN open = 1..Len(open) /\ IdleTicks \in Nat
  BY SizesAssumption DEF OpenOK, Distinct
<1>2. open' = [i \in 1..Len(open) |-> aged(open[i])]
  BY <1>1 DEF Tick
<1>3. ASSUME NEW x \in Sessions
      PROVE  aged(x) \in Sessions /\ aged(x).match = x.match
  BY <1>1 DEF Sessions, Min2
<1> HIDE DEF aged
<1>4. \A i \in 1..Len(open) : aged(open[i]) \in Sessions /\ aged(open[i]).match = open[i].match
  BY <1>1, <1>3
<1>5. open' \in [1..Len(open) -> Sessions]
  BY <1>2, <1>4
<1>6. open' \in Seq(Sessions) /\ Len(open') = Len(open) /\ DOMAIN open' = 1..Len(open)
  BY <1>1, <1>5
<1>7. \A i \in 1..Len(open) : open'[i].match = open[i].match
  BY <1>2, <1>4
<1>8. Distinct(open')
  BY <1>1, <1>6, <1>7 DEF Distinct
<1> QED
  BY <1>1, <1>6, <1>8 DEF OpenOK, Distinct

(* The initial state.                                                      *)
LEMMA InitHolds == Init => Inv
<1> SUFFICES ASSUME Init
             PROVE  Inv
  OBVIOUS
<1> USE DEF Init
<1>1. OpenOK /\ IdsLeft
  BY SizesAssumption, BoundsAssumption DEF OpenOK, IdsLeft
<1>2. CountsOK /\ WriterOK /\ ClosingOK /\ DatabaseOK
  <2>1. BackoffMax \in Nat /\ MaxBatches \in Nat
    BY SizesAssumption
  <2>2. CountsOK
    BY DEF CountsOK
  <2>3. WriterOK
    BY <2>1 DEF WriterOK
  <2>4. DatabaseOK
    BY DEF DatabaseOK
  <2>5. mode \in {"up", "draining", "awaiting", "closed"} /\ batches \in 0..MaxBatches
    BY <2>1
  <2>6. cutShort \in BOOLEAN
    OBVIOUS
  <2> QED
    BY <2>2, <2>3, <2>4, <2>5, <2>6 DEF ClosingOK
<1>3. DaysCounted
  BY DEF DaysCounted, NoFlush
<1>4. BufferOK /\ SealedOK
  BY SizesAssumption DEF BufferOK, SealedOK, Ascending
<1>5. FlushOK
  BY SizesAssumption DEF FlushOK, NoFlush
<1>6. flush.batch = << >> /\ flush.stage = "none"
  BY DEF NoFlush
<1>7. /\ BufferNumbered /\ FlushNumbered /\ DatabaseNumbered /\ LastNumbered
      /\ FlushInOrder /\ LateSettled /\ RematchRefersBack
  BY <1>6 DEF BufferNumbered, FlushNumbered, DatabaseNumbered, LastNumbered, FlushInOrder,
              LateSettled, RematchRefersBack, Ascending, Before, NoRow
<1>8. RowsCounted
  <2>1. 1..sealed \ (BufferedIds \cup StoredIds) = {}
    OBVIOUS
  <2> QED
    BY <2>1, FS_EmptySet DEF RowsCounted
<1> QED
  BY <1>1, <1>2, <1>3, <1>4, <1>5, <1>7, <1>8 DEF Inv, RowsInv

(* The daily counters, and the types of what a step touches, action by     *)
(* action; the matches and the rows follow from the lemmas above.          *)
LEMMA RecordedHolds ==
  ASSUME Inv, Recorded
  PROVE  Inv'
<1>1. /\ OpenOK /\ CountsOK /\ WriterOK /\ ClosingOK /\ IdsLeft /\ DaysCounted /\ RowsInv
  BY DEF Inv
<1>2. {days, dayRows, counted, doubled, mishaps} \subseteq Nat /\ flush.days \in Nat
  BY <1>1 DEF CountsOK, RowsInv, FlushOK
<1>3. ASSUME OnlyRecords, CountDay \/ UNCHANGED counts
      PROVE  CountsOK' /\ WriterOK' /\ ClosingOK' /\ DaysCounted'
  <2>1. /\ UNCHANGED <<flush, failureStreak, wait, mode, batches, cutShort, dayRows,
                       doubled, mishaps>>
    BY <1>3 DEF OnlyRecords, writer, closing, database
  <2>2. \/ days' = days + 1 /\ counted' = counted + 1
        \/ UNCHANGED <<days, counted>>
    BY <1>3 DEF CountDay, counts
  <2>3. CountsOK'
    BY <1>2, <2>1, <2>2 DEF CountsOK
  <2>4. WriterOK' /\ ClosingOK'
    BY <1>1, <2>1 DEF WriterOK, ClosingOK
  <2>5. DaysCounted'
    <3> DEFINE held == IF flush.stage \in {"open", "hanging"} THEN flush.days ELSE 0
    <3>1. held \in Nat
      BY <1>2
    <3>2. held' = held
      BY <2>1
    <3>3. dayRows + days + held = counted + doubled
      BY <1>1 DEF DaysCounted
    <3> HIDE DEF held
    <3>4. dayRows' + days' + held' = counted' + doubled'
      BY <1>2, <2>1, <2>2, <3>1, <3>2, <3>3
    <3> QED
      BY <3>4 DEF DaysCounted, held
  <2> QED
    BY <2>3, <2>4, <2>5
<1>4. CASE RoomCreated
  <2>1. OnlyRecords /\ CountDay /\ UNCHANGED <<open, sealing, flush, database>>
    BY <1>4 DEF RoomCreated, OnlyRecords
  <2>2. RowsInv'
    BY <1>1, <2>1, OtherwiseRowsStay
  <2>3. OpenOK' /\ IdsLeft'
    BY <1>1, <2>1 DEF OpenOK, IdsLeft, sealing
  <2> QED
    BY <1>3, <2>1, <2>2, <2>3 DEF Inv
<1>5. ASSUME NEW m \in Matches, NEW lag \in 0..IdleTicks, NEW rematch \in BOOLEAN,
             OnlyRecords, Gather(m, lag, rematch), CountDay \/ UNCHANGED counts
      PROVE  Inv'
  <2>1. OpenOK' /\ IdsLeft' /\ RowsInv'
    BY <1>5, GatherKeeps DEF OnlyRecords
  <2> QED
    BY <1>3, <1>5, <2>1 DEF Inv
<1>6. ASSUME NEW m \in Matches, NEW lag \in 0..IdleTicks,
             \/ MatchGoesOn(m, lag) \/ MatchHeardOf(m, lag)
             \/ MatchFinished(m, lag) \/ RematchCreated(m, lag)
      PROVE  Inv'
  <2>1. CASE MatchGoesOn(m, lag)
    BY <1>5, <2>1 DEF MatchGoesOn
  <2>2. CASE MatchHeardOf(m, lag)
    BY <1>5, <2>2 DEF MatchHeardOf
  <2>3. CASE MatchFinished(m, lag)
    <3>1. OpenOK' /\ IdsLeft' /\ RowsInv'
      BY <2>3, FinishKeeps
    <3>2. OnlyRecords /\ CountDay
      BY <2>3 DEF MatchFinished
    <3> QED
      BY <1>3, <3>1, <3>2 DEF Inv
  <2>4. CASE RematchCreated(m, lag)
    BY <1>5, <2>4 DEF RematchCreated
  <2> QED
    BY <1>6, <2>1, <2>2, <2>3, <2>4
<1> QED
  BY <1>4, <1>6 DEF Recorded

(* A flush that begins takes the daily counters along.                     *)
LEMMA BeginKeepsDays ==
  ASSUME CountsOK, DaysCounted, ~Flushing, BeginFlush,
         UNCHANGED <<dayRows, counted, doubled, mishaps>>
  PROVE  CountsOK' /\ DaysCounted'
<1>1. {days, dayRows, counted, doubled, mishaps} \subseteq Nat
  BY DEF CountsOK
<1>2. days' = 0 /\ flush'.stage = "open" /\ flush'.days = days
  BY DEF BeginFlush
<1>3. dayRows + days + 0 = counted + doubled
  BY DEF DaysCounted, Flushing
<1>4. CountsOK'
  BY <1>1, <1>2 DEF CountsOK
<1>5. dayRows' + days' + flush'.days = counted' + doubled'
  BY <1>1, <1>2, <1>3
<1> QED
  BY <1>2, <1>4, <1>5 DEF DaysCounted

LEMMA TimerFlushHolds ==
  ASSUME Inv, TimerFlush
  PROVE  Inv'
<1>1. /\ ~Flushing /\ BeginFlush
      /\ UNCHANGED <<counted, failureStreak, wait, mode, batches, cutShort, rows, dayRows,
                     late, doubled, mishaps>>
  BY DEF TimerFlush, writer, closing, database
<1>2. OpenOK' /\ IdsLeft' /\ RowsInv'
  BY <1>1, BeginKeeps DEF database
<1>3. CountsOK' /\ DaysCounted'
  BY <1>1, BeginKeepsDays DEF Inv
<1>4. WriterOK' /\ ClosingOK'
  BY <1>1 DEF Inv, WriterOK, ClosingOK
<1> QED
  BY <1>2, <1>3, <1>4 DEF Inv

LEMMA DrainNextHolds ==
  ASSUME Inv, DrainNext
  PROVE  Inv'
<1>1. UNCHANGED <<counted, failureStreak, wait, rows, dayRows, late, doubled, mishaps>>
      /\ UNCHANGED database
  BY DEF DrainNext, writer, database
<1>2. WriterOK'
  BY <1>1 DEF Inv, WriterOK
<1>3. ASSUME NEW short \in BOOLEAN, EndDrain(short), UNCHANGED <<open, sealing, days, flush>>
      PROVE  Inv'
  <2>1. RowsInv'
    BY <1>1, <1>3, OtherwiseRowsStay DEF Inv
  <2>2. OpenOK' /\ IdsLeft'
    BY <1>3 DEF Inv, OpenOK, IdsLeft, sealing
  <2>3. CountsOK' /\ DaysCounted'
    BY <1>1, <1>3 DEF Inv, CountsOK, DaysCounted
  <2>4. ClosingOK'
    BY <1>3, SizesAssumption DEF EndDrain, ClosingOK
  <2> QED
    BY <1>2, <2>1, <2>2, <2>3, <2>4 DEF Inv
<1>4. CASE Flushing \/ batches = MaxBatches
  BY <1>3, <1>4 DEF DrainNext
<1>5. CASE ~(Flushing \/ batches = MaxBatches) /\ NothingToWrite
  BY <1>3, <1>5 DEF DrainNext
<1>6. CASE ~(Flushing \/ batches = MaxBatches) /\ ~NothingToWrite
  <2>1. BeginFlush /\ mode' = "awaiting" /\ batches' = batches + 1 /\ cutShort' = cutShort
    BY <1>6 DEF DrainNext
  <2>2. OpenOK' /\ IdsLeft' /\ RowsInv'
    BY <1>1, <1>6, <2>1, BeginKeeps
  <2>3. CountsOK' /\ DaysCounted'
    BY <1>1, <1>6, <2>1, BeginKeepsDays DEF Inv
  <2>4. ClosingOK'
    <3>1. batches \in 0..MaxBatches /\ batches # MaxBatches /\ MaxBatches \in Nat
      BY <1>6, SizesAssumption DEF Inv, ClosingOK
    <3>2. batches' \in 0..MaxBatches
      BY <2>1, <3>1
    <3> QED
      BY <2>1, <3>2 DEF Inv, ClosingOK
  <2> QED
    BY <1>2, <2>2, <2>3, <2>4 DEF Inv
<1> QED
  BY <1>4, <1>5, <1>6

(* What a failed flush gives back.                                         *)
LEMMA GiveBackKeeps ==
  ASSUME Inv, GiveBack
  PROVE  /\ OpenOK' /\ (SealedOK' => IdsLeft') /\ WriterOK' /\ ClosingOK'
         /\ days' = days + flush.days /\ counted' = counted
         /\ flush'.stage = "none"
<1>1. /\ UNCHANGED <<open, sealed, counted>>
      /\ failureStreak' = failureStreak + 1 /\ wait' = Backoff(failureStreak + 1)
      /\ days' = days + flush.days /\ flush' = NoFlush
  BY DEF GiveBack
<1>2. OpenOK' /\ IdsLeft'
  BY <1>1 DEF Inv, OpenOK, IdsLeft
<1>3. WriterOK'
  <2>1. failureStreak + 1 \in Nat \ {0}
    BY DEF Inv, WriterOK
  <2>2. wait' \in 0..BackoffMax
    BY <1>1, <2>1, BackoffBounded
  <2> QED
    BY <1>1, <2>1, <2>2 DEF WriterOK
<1>4. ClosingOK'
  <2>1. CASE mode = "awaiting"
    BY <2>1, SizesAssumption DEF GiveBack, EndDrain, ClosingOK
  <2>2. CASE mode # "awaiting"
    <3>1. UNCHANGED <<mode, batches, cutShort>>
      BY <2>2 DEF GiveBack, closing
    <3> QED
      BY <3>1 DEF Inv, ClosingOK
  <2> QED
    BY <2>1, <2>2
<1> QED
  BY <1>1, <1>2, <1>3, <1>4 DEF NoFlush

LEMMA FlushStepHolds ==
  ASSUME Inv, FlushStep
  PROVE  Inv'
<1>1. /\ OpenOK /\ CountsOK /\ WriterOK /\ ClosingOK /\ IdsLeft /\ DaysCounted /\ RowsInv
      /\ SealedOK
  BY DEF Inv, RowsInv
<1>2. {days, dayRows, counted, doubled, mishaps} \subseteq Nat /\ flush.days \in Nat
  BY <1>1 DEF CountsOK, RowsInv, FlushOK
<1>3. flush \in [stage : {"none", "open", "hanging", "committed"}, batch : Seq(Rows),
                 days : Nat]
  BY <1>1 DEF RowsInv, FlushOK
<1>4. CASE Commit
  <2>1. RowsInv'
    BY <1>1, <1>4, CommitKeepsRows
  <2>2. /\ UNCHANGED <<open, sealed, days, counted, failureStreak, wait, mode, batches,
                       cutShort, doubled, mishaps>>
        /\ flush.stage = "open" /\ dayRows' = dayRows + flush.days
        /\ flush' = [flush EXCEPT !.stage = "committed"]
    BY <1>4 DEF Commit, Write, sealing, counts, writer, closing
  <2>3. flush'.stage = "committed"
    BY <1>3, <2>2
  <2>4. OpenOK' /\ IdsLeft' /\ WriterOK' /\ ClosingOK'
    BY <1>1, <2>2 DEF OpenOK, IdsLeft, WriterOK, ClosingOK
  <2>5. CountsOK'
    BY <1>2, <2>2 DEF CountsOK
  <2>6. DaysCounted'
    <3>1. dayRows + days + flush.days = counted + doubled
      BY <1>1, <2>2 DEF DaysCounted
    <3>2. dayRows' + days' + 0 = counted' + doubled'
      BY <1>2, <2>2, <3>1
    <3> QED
      BY <2>3, <3>2 DEF DaysCounted
  <2> QED
    BY <2>1, <2>4, <2>5, <2>6 DEF Inv
<1>5. CASE Answered
  <2>1. RowsInv'
    BY <1>1, <1>5, AnsweredKeepsRows
  <2>2. /\ UNCHANGED <<open, sealed, days, counted, dayRows, batches, cutShort, doubled,
                       mishaps>>
        /\ flush.stage = "committed" /\ flush' = NoFlush
        /\ failureStreak' = 0 /\ wait' = 0
        /\ mode' = IF mode = "awaiting" THEN "draining" ELSE mode
    BY <1>5 DEF Answered, sealing, counts, database
  <2>3. OpenOK' /\ IdsLeft'
    BY <1>1, <2>2 DEF OpenOK, IdsLeft
  <2>4. CountsOK' /\ WriterOK'
    BY <1>2, <2>2, SizesAssumption DEF CountsOK, WriterOK
  <2>5. ClosingOK'
    BY <1>1, <2>2 DEF ClosingOK
  <2>6. DaysCounted'
    BY <1>1, <2>2 DEF DaysCounted, NoFlush
  <2> QED
    BY <2>1, <2>3, <2>4, <2>5, <2>6 DEF Inv
<1>6. CASE Fails
  <2>1. /\ GiveBack /\ UNCHANGED database /\ flush.stage = "open"
        /\ UNCHANGED <<dayRows, doubled>> /\ mishaps' = mishaps + 1
    BY <1>6 DEF Fails, Mishap, database
  <2>2. RowsInv'
    BY <1>1, <2>1, GiveBackKeepsRows
  <2>3. /\ OpenOK' /\ (SealedOK' => IdsLeft') /\ WriterOK' /\ ClosingOK'
        /\ days' = days + flush.days /\ counted' = counted /\ flush'.stage = "none"
    BY <2>1, GiveBackKeeps
  <2>4. CountsOK'
    BY <1>2, <2>1, <2>3 DEF CountsOK
  <2>5. DaysCounted'
    <3>1. dayRows + days + flush.days = counted + doubled
      BY <1>1, <2>1 DEF DaysCounted
    <3>2. dayRows' + days' + 0 = counted' + doubled'
      BY <1>2, <2>1, <2>3, <3>1
    <3> QED
      BY <2>3, <3>2 DEF DaysCounted
  <2> QED
    BY <2>2, <2>3, <2>4, <2>5 DEF Inv, RowsInv
<1>7. CASE AnswerLost
  <2>1. /\ GiveBack /\ UNCHANGED database /\ flush.stage = "committed"
        /\ dayRows' = dayRows /\ doubled' = doubled + flush.days /\ mishaps' = mishaps + 1
    BY <1>7 DEF AnswerLost, Mishap, database
  <2>2. RowsInv'
    BY <1>1, <2>1, GiveBackKeepsRows
  <2>3. /\ OpenOK' /\ (SealedOK' => IdsLeft') /\ WriterOK' /\ ClosingOK'
        /\ days' = days + flush.days /\ counted' = counted /\ flush'.stage = "none"
    BY <2>1, GiveBackKeeps
  <2>4. CountsOK'
    BY <1>2, <2>1, <2>3 DEF CountsOK
  <2>5. DaysCounted'
    <3>1. dayRows + days + 0 = counted + doubled
      BY <1>1, <2>1 DEF DaysCounted
    <3>2. dayRows' + days' + 0 = counted' + doubled'
      BY <1>2, <2>1, <2>3, <3>1
    <3> QED
      BY <2>3, <3>2 DEF DaysCounted
  <2> QED
    BY <2>2, <2>3, <2>4, <2>5 DEF Inv, RowsInv
<1>8. CASE Hangs
  <2>1. RowsInv'
    BY <1>1, <1>8, HangsKeepsRows
  <2>2. /\ UNCHANGED <<open, sealed, days, counted, dayRows, failureStreak, wait, mode,
                       batches, cutShort, doubled>>
        /\ flush.stage = "open" /\ mishaps' = mishaps + 1
        /\ flush' = [flush EXCEPT !.stage = "hanging"]
    BY <1>8 DEF Hangs, Mishap, sealing, counts, writer, closing, database
  <2>3. flush'.stage = "hanging" /\ flush'.days = flush.days
    BY <1>3, <2>2
  <2>4. OpenOK' /\ IdsLeft' /\ WriterOK' /\ ClosingOK'
    BY <1>1, <2>2 DEF OpenOK, IdsLeft, WriterOK, ClosingOK
  <2>5. CountsOK'
    BY <1>2, <2>2 DEF CountsOK
  <2>6. DaysCounted'
    BY <1>1, <2>2, <2>3 DEF DaysCounted
  <2> QED
    BY <2>1, <2>4, <2>5, <2>6 DEF Inv
<1>9. CASE TimesOut
  <2>1. GiveBack /\ flush.stage = "hanging" /\ UNCHANGED <<dayRows, doubled, mishaps>>
    BY <1>9 DEF TimesOut, Overdue
  <2>2. RowsInv'
    BY <1>1, <1>9, TimesOutKeepsRows
  <2>3. /\ OpenOK' /\ (SealedOK' => IdsLeft') /\ WriterOK' /\ ClosingOK'
        /\ days' = days + flush.days /\ counted' = counted /\ flush'.stage = "none"
    BY <2>1, GiveBackKeeps
  <2>4. CountsOK'
    BY <1>2, <2>1, <2>3 DEF CountsOK
  <2>5. DaysCounted'
    <3>1. dayRows + days + flush.days = counted + doubled
      BY <1>1, <2>1 DEF DaysCounted
    <3>2. dayRows' + days' + 0 = counted' + doubled'
      BY <1>2, <2>1, <2>3, <3>1
    <3> QED
      BY <2>3, <3>2 DEF DaysCounted
  <2> QED
    BY <2>2, <2>3, <2>4, <2>5 DEF Inv, RowsInv
<1> QED
  BY <1>4, <1>5, <1>6, <1>7, <1>8, <1>9 DEF FlushStep

(* What a late transaction counts is counted twice.                        *)
LEMMA LateStepHolds ==
  ASSUME Inv, LateStep
  PROVE  Inv'
<1>1. PICK i \in DOMAIN late : LateCommit(i) \/ LateRollback(i)
  BY DEF LateStep
<1>2. /\ OpenOK /\ CountsOK /\ WriterOK /\ ClosingOK /\ IdsLeft /\ DaysCounted /\ RowsInv
  BY DEF Inv
<1>3. RowsInv'
  BY <1>1, <1>2, LateKeepsRows
<1>4. late[i].days \in Nat
  BY <1>2, LateHolds DEF RowsInv
<1>5. /\ UNCHANGED <<open, sealed, days, counted, flush, failureStreak, wait, mode, batches,
                     cutShort, mishaps>>
      /\ \/ dayRows' = dayRows + late[i].days /\ doubled' = doubled + late[i].days
         \/ UNCHANGED <<dayRows, doubled>>
  BY <1>1 DEF LateCommit, LateRollback, Write, sealing, counts, writer, closing
<1>6. OpenOK' /\ IdsLeft' /\ WriterOK' /\ ClosingOK'
  BY <1>2, <1>5 DEF OpenOK, IdsLeft, WriterOK, ClosingOK
<1> DEFINE d == late[i].days
           held == IF flush.stage \in {"open", "hanging"} THEN flush.days ELSE 0
<1>7. {days, dayRows, counted, doubled, mishaps} \subseteq Nat /\ held \in Nat
  BY <1>2 DEF CountsOK, RowsInv, FlushOK
<1>8. \/ dayRows' = dayRows + d /\ doubled' = doubled + d
      \/ UNCHANGED <<dayRows, doubled>>
  BY <1>5
<1>9. d \in Nat /\ held' = held /\ dayRows + days + held = counted + doubled
  BY <1>2, <1>4, <1>5 DEF DaysCounted
<1> HIDE DEF d, held
<1>10. CountsOK'
  BY <1>5, <1>7, <1>8, <1>9 DEF CountsOK
<1>11. dayRows' + days' + held' = counted' + doubled'
  BY <1>5, <1>7, <1>8, <1>9
<1>12. DaysCounted'
  BY <1>11 DEF DaysCounted, held
<1> QED
  BY <1>3, <1>6, <1>10, <1>12 DEF Inv

LEMMA TickHolds ==
  ASSUME Inv, Tick
  PROVE  Inv'
<1>1. /\ UNCHANGED <<sealing, flush, database>>
      /\ UNCHANGED <<sealed, days, counted, dayRows, failureStreak, mode, batches, cutShort,
                     doubled, mishaps>>
      /\ wait' = IF wait = 0 THEN 0 ELSE wait - 1
  BY DEF Tick, sealing, counts, closing, database
<1>2. RowsInv'
  BY <1>1, OtherwiseRowsStay DEF Inv
<1>3. OpenOK' /\ Len(open') = Len(open)
  BY TickKeepsOpen DEF Inv
<1>4. IdsLeft'
  BY <1>1, <1>3 DEF Inv, IdsLeft
<1>5. CountsOK' /\ DaysCounted' /\ ClosingOK'
  BY <1>1 DEF Inv, CountsOK, DaysCounted, ClosingOK
<1>6. WriterOK'
  BY <1>1, SizesAssumption DEF Inv, WriterOK
<1> QED
  BY <1>2, <1>3, <1>4, <1>5, <1>6 DEF Inv

LEMMA CloseHolds ==
  ASSUME Inv, NEW flushOnClose \in BOOLEAN, Close(flushOnClose)
  PROVE  Inv'
<1>1. /\ open' = << >> /\ Seal(open) /\ UNCHANGED <<flush, database>>
      /\ UNCHANGED <<days, counted, dayRows, failureStreak, wait, batches, doubled, mishaps>>
      /\ mode' \in {"draining", "closed"} /\ cutShort' = ~flushOnClose
  BY DEF Close, counts, writer, database
<1>2. open \in Seq(Sessions) /\ sealed + Len(open) <= MaxSealed
  BY DEF Inv, OpenOK, IdsLeft
<1>3. RowsInv' /\ sealed' = sealed + Len(open)
  BY <1>1, <1>2, SealKeepsRows DEF Inv
<1>4. OpenOK' /\ IdsLeft'
  <2>1. sealed' \in Nat /\ sealed' <= MaxSealed
    BY <1>2, <1>3 DEF RowsInv, SealedOK
  <2>2. MaxOpen \in Nat
    BY SizesAssumption
  <2> QED
    BY <1>1, <2>1, <2>2 DEF OpenOK, IdsLeft
<1>5. CountsOK' /\ DaysCounted' /\ WriterOK'
  BY <1>1 DEF Inv, CountsOK, DaysCounted, WriterOK
<1>6. ClosingOK'
  <2>1. cutShort' \in BOOLEAN
    BY <1>1
  <2> QED
    BY <1>1, <2>1 DEF Inv, ClosingOK
<1> QED
  BY <1>3, <1>4, <1>5, <1>6 DEF Inv

LEMMA InvInductive == Inv /\ [Next]_vars => Inv'
<1> SUFFICES ASSUME Inv, [Next]_vars
             PROVE  Inv'
  OBVIOUS
<1>1. CASE Next
  <2>1. CASE Recorded
    BY <2>1, RecordedHolds
  <2>2. CASE TimerFlush
    BY <2>2, TimerFlushHolds
  <2>3. CASE FlushStep
    BY <2>3, FlushStepHolds
  <2>4. CASE LateStep
    BY <2>4, LateStepHolds
  <2>5. CASE Tick
    BY <2>5, TickHolds
  <2>6. CASE \E flushOnClose \in BOOLEAN : Close(flushOnClose)
    BY <2>6, CloseHolds
  <2>7. CASE DrainNext
    BY <2>7, DrainNextHolds
  <2> QED
    BY <1>1, <2>1, <2>2, <2>3, <2>4, <2>5, <2>6, <2>7 DEF Next
<1>2. CASE UNCHANGED vars
  <2>1. UNCHANGED <<open, sealing, counts, flush, writer, closing, database, doubled, mishaps>>
    BY <1>2 DEF vars
  <2>2. RowsInv'
    BY <2>1, OtherwiseRowsStay DEF Inv
  <2>3. UNCHANGED <<open, sealed, days, counted, flush, failureStreak, wait, mode, batches,
                    cutShort, dayRows, doubled, mishaps>>
    BY <2>1 DEF sealing, counts, writer, closing, database
  <2>4. /\ OpenOK' /\ CountsOK' /\ WriterOK' /\ ClosingOK' /\ IdsLeft' /\ DaysCounted'
    BY <2>3 DEF Inv, OpenOK, CountsOK, WriterOK, ClosingOK, IdsLeft, DaysCounted
  <2> QED
    BY <2>2, <2>4 DEF Inv
<1> QED
  BY <1>1, <1>2

LEMMA SpecInv == Spec => []Inv
<1> QED
  BY InitHolds, InvInductive, PTL DEF Spec

-----------------------------------------------------------------------------
(* The theorems *)

(* The Map, the buffer, a batch, the backoff and the batches of close stay *)
(* within what the writer was given, and the buffer is in the order of     *)
(* sealing (createPostgresAnalytics).                                      *)
THEOREM WriterTypes == Spec => []TypeOK
<1>1. Inv => TypeOK
  BY InvHasProperties
<1> QED
  BY <1>1, SpecInv, PTL

(* Whatever flushes fail, hang or come late, a row that was sealed is in   *)
(* the buffer, in the flush under way, in Postgres, or counted as dropped, *)
(* and the daily counters have every event exactly once but for those      *)
(* whose transaction committed without an answer (flush and requeue).      *)
THEOREM NothingIsLostSilently == Spec => []NothingLostSilently
<1>1. Inv => NothingLostSilently
  BY InvHasProperties
<1> QED
  BY <1>1, SpecInv, PTL

(* A row of a rematch is never stored while the row it refers to is still  *)
(* in the buffer or in the flush under way (buildSessionRow, requeue).     *)
THEOREM RematchIsStoredAfter == Spec => []RematchRefersBack
<1>1. Inv => RematchRefersBack
  BY InvHasProperties
<1> QED
  BY <1>1, SpecInv, PTL

=============================================================================
