------------------------- MODULE SwappedVectorProofs -------------------------
(***************************************************************************)
(* SwappedVector implements DurableVector for all items, sizes and pools:  *)
(* whatever the pool, the buffers and the stale bytes of popped items are, *)
(* the items are those that the operations left, and a crash undoes at     *)
(* most the last operation.                                                *)
(***************************************************************************)
EXTENDS SwappedVector, NaturalsInduction, WellFoundedInduction, TLAPS

Sizes == Seq(Nat \ {0})

(* A set of naturals that is not empty has a least element.                *)
LEMMA LeastNumber ==
    ASSUME NEW S, S \subseteq Nat, S # {}
    PROVE  \E k \in S : \A j \in S : k <= j
<1>1. \E k \in S : \A j \in S : ~(<<j, k>> \in OpToRel(<, Nat))
  BY NatLessThanWellFounded, WFMin, Zenon
<1>2. \A j, k \in Nat : j < k => <<j, k>> \in OpToRel(<, Nat)
  BY Zenon DEF OpToRel
<1>3. \E k \in S : \A j \in S : ~(j < k)
  BY <1>1, <1>2, Zenon
<1>4. QED
  BY ONLY <1>3, S \subseteq Nat

-----------------------------------------------------------------------------
(* Offsets as open computes them.                                          *)

(* The sum over the first k sizes, as a function of k.                     *)
IsSum(f, s, n) == f = [i \in 0 .. n |-> IF i = 0 THEN 0 ELSE f[i - 1] + s[i]]

(* The recursion of open has a solution, by a longest partial one.         *)
LEMMA SumExists ==
    ASSUME NEW s \in Sizes, NEW n \in Nat, n <= Len(s)
    PROVE  \E f : IsSum(f, s, n)
<1> DEFINE S == {k \in Nat : k <= Len(s) /\ ~\E f : IsSum(f, s, k)}
<1>1. SUFFICES ASSUME S # {} PROVE FALSE
  BY Zenon
<1>2. PICK k \in S : \A j \in S : k <= j
  BY <1>1, LeastNumber, Zenon
<1>3. k \in Nat /\ k <= Len(s) /\ ~\E f : IsSum(f, s, k)
  BY <1>2, Zenon
<1>4. CASE k = 0
  <2> DEFINE f == [i \in 0 .. 0 |-> 0]
  <2>1. IsSum(f, s, 0)
    BY DEF IsSum
  <2>2. QED
    BY <1>3, <1>4, <2>1, Zenon
<1>5. CASE k # 0
  <2>0. Len(s) \in Nat
    BY DEF Sizes
  <2>1. k - 1 \in Nat /\ k - 1 \notin S
    BY <1>2, <1>3, <1>5, SMTT(40)
  <2>2. PICK f : IsSum(f, s, k - 1)
    BY <1>3, <2>0, <2>1
  <2> DEFINE g == [i \in 0 .. k |-> IF i = k THEN f[k - 1] + s[k] ELSE f[i]]
  <2>3. \A i \in 0 .. k - 1 : f[i] = IF i = 0 THEN 0 ELSE f[i - 1] + s[i]
    BY <2>2, <1>3, Zenon DEF IsSum
  <2>4. \A i \in 0 .. k : g[i] = IF i = 0 THEN 0 ELSE g[i - 1] + s[i]
    <3> TAKE i \in 0 .. k
    <3>1. CASE i = k
      BY <3>1, <1>3, <1>5
    <3>2. CASE i # k
      <4>1. i \in 0 .. k - 1 /\ (i # 0 => i - 1 \in 0 .. k /\ i - 1 # k)
        BY <1>3, <3>2
      <4>2. g[i] = f[i] /\ (i # 0 => g[i - 1] = f[i - 1])
        BY <4>1, <3>2, Zenon
      <4>3. QED
        BY <2>3, <4>1, <4>2, Zenon
    <3>3. QED
      BY <3>1, <3>2, Zenon
  <2>5. DOMAIN g = 0 .. k /\ g = [i \in 0 .. k |-> g[i]]
    BY Zenon
  <2> HIDE DEF g
  <2>6. IsSum(g, s, k)
    BY <2>4, <2>5, Zenon DEF IsSum
  <2>7. QED
    BY <1>3, <2>6, Zenon
<1>6. QED
  BY <1>4, <1>5, Zenon

(* The offsets start at 0, and each is the one before and the size of the  *)
(* item in between.                                                        *)
LEMMA SumSteps ==
    ASSUME NEW s \in Sizes
    PROVE  /\ Len(s) \in Nat
           /\ sumSizes(s)[0] = 0
           /\ \A i \in 1 .. Len(s) : sumSizes(s)[i] = sumSizes(s)[i - 1] + s[i]
           /\ \A i \in 0 .. Len(s) : sumSizes(s)[i] \in Nat
<1> DEFINE f == sumSizes(s)
           n == Len(s)
<1>1. n \in Nat /\ \A i \in 1 .. n : s[i] \in Nat \ {0}
  BY DEF Sizes
<1>2. IsSum(f, s, n)
  <2>1. f = CHOOSE g : g = [i \in 0 .. n |-> IF i = 0 THEN 0 ELSE g[i - 1] + s[i]]
    BY Zenon DEF sumSizes
  <2>2. \E g : g = [i \in 0 .. n |-> IF i = 0 THEN 0 ELSE g[i - 1] + s[i]]
    BY <1>1, SumExists DEF IsSum
  <2>3. QED
    BY <2>1, <2>2, Zenon DEF IsSum
<1> HIDE DEF f, n
<1>3. f[0] = 0 /\ \A i \in 1 .. n : f[i] = f[i - 1] + s[i]
  BY <1>1, <1>2 DEF IsSum
<1>4. \A i \in 0 .. n : f[i] \in Nat
  <2> DEFINE S == {k \in Nat : k <= n /\ f[k] \notin Nat}
  <2>1. SUFFICES ASSUME S # {} PROVE FALSE
    BY <1>1
  <2>2. PICK k \in S : \A j \in S : k <= j
    BY <2>1, LeastNumber, Zenon
  <2>3. k # 0
    BY <2>2, <1>3, Zenon
  <2>4. k - 1 \in Nat /\ k - 1 \notin S /\ k \in 1 .. n /\ k - 1 <= n
    BY <2>2, <2>3, <1>1
  <2>5. f[k - 1] \in Nat
    BY <2>4, Zenon
  <2>6. QED
    BY <1>1, <1>3, <2>2, <2>4, <2>5
<1>5. QED
  BY <1>1, <1>3, <1>4, Zenon DEF f, n

(* Offsets grow.                                                           *)
LEMMA SumGrows ==
    ASSUME NEW s \in Sizes, NEW i \in 0 .. Len(s), NEW j \in 0 .. Len(s), i < j
    PROVE  sumSizes(s)[i] < sumSizes(s)[j]
<1> DEFINE f == sumSizes(s)
           n == Len(s)
<1>1. /\ n \in Nat /\ \A k \in 1 .. n : f[k] = f[k - 1] + s[k]
      /\ \A k \in 0 .. n : f[k] \in Nat
  BY SumSteps, Zenon
<1>2. \A k \in 1 .. n : s[k] \in Nat \ {0}
  BY DEF Sizes
<1> HIDE DEF f
<1> DEFINE S == {k \in Nat : i < k /\ k <= n /\ ~(f[i] < f[k])}
<1>3. SUFFICES ASSUME S # {} PROVE FALSE
  BY <1>1 DEF f
<1>4. PICK k \in S : \A m \in S : k <= m
  BY <1>3, LeastNumber, Zenon
<1>5. /\ k \in 1 .. n /\ k - 1 \in 0 .. n /\ i \in 0 .. n /\ i <= k - 1
      /\ k - 1 \notin S /\ ~(f[i] < f[k])
  BY <1>1, <1>4
<1>6. i # k - 1 => f[i] < f[k - 1]
  BY ONLY <1>1, <1>5
<1> HIDE DEF S, n
<1>7. f[i] \in Nat /\ f[k - 1] \in Nat /\ f[k] = f[k - 1] + s[k] /\ s[k] \in Nat \ {0}
  BY ONLY <1>1, <1>2, <1>5, Zenon
<1>8. QED
  BY ONLY <1>5, <1>6, <1>7

(* The offsets depend only on the sizes before them: what setSize writes   *)
(* after them changes none.                                                *)
LEMMA SumAgrees ==
    ASSUME NEW s \in Sizes, NEW t \in Sizes, NEW n \in Nat, n <= Len(s), n <= Len(t),
           \A k \in 1 .. n : s[k] = t[k]
    PROVE  \A k \in 0 .. n : sumSizes(s)[k] = sumSizes(t)[k]
<1> DEFINE f == sumSizes(s)
           g == sumSizes(t)
<1>1. /\ f[0] = 0 /\ Len(s) \in Nat /\ \A k \in 1 .. Len(s) : f[k] = f[k - 1] + s[k]
      /\ g[0] = 0 /\ Len(t) \in Nat /\ \A k \in 1 .. Len(t) : g[k] = g[k - 1] + t[k]
  BY SumSteps, Zenon
<1> HIDE DEF f, g
<1> DEFINE S == {k \in Nat : k <= n /\ f[k] # g[k]}
<1>2. SUFFICES ASSUME S # {} PROVE FALSE
  BY DEF f, g
<1>3. PICK k \in S : \A m \in S : k <= m
  BY <1>2, LeastNumber, Zenon
<1>4. k # 0
  BY <1>1, <1>3, Zenon
<1>5. k - 1 \in Nat /\ k - 1 \notin S /\ k \in 1 .. n /\ k \in 1 .. Len(s) /\ k \in 1 .. Len(t)
  BY <1>1, <1>3, <1>4
<1>6. f[k - 1] = g[k - 1]
  BY <1>5
<1>7. QED
  BY <1>1, <1>3, <1>5, <1>6, Zenon

-----------------------------------------------------------------------------
(* The bytes of the items file.                                            *)
Bytes == (Items \cup {Garbage}) \X Nat
File == Seq(Bytes)

IsAt(f, p, x) == \A k \in 1 .. Size[x] : p + k <= Len(f) /\ f[p + k] = <<x, k>>

(* With the sizes s, item i in file f is x, whole and in its place.        *)
HoldsAt(s, f, i, x) == x \in Items /\ Size[x] <= s[i] /\ IsAt(f, sumSizes(s)[i - 1], x)

(* What a write does to a file: it changes nothing outside its range.      *)
LEMMA WriteFacts ==
    ASSUME NEW f \in File, NEW pos \in Nat, NEW x \in Items, NEW m \in Nat
    PROVE  LET g == writeBytes(f, pos, x, m)
           IN  /\ g \in File
               /\ Len(f) \in Nat /\ Len(g) \in Nat /\ Len(g) >= Len(f) /\ Len(g) >= pos + m
               /\ \A k \in 1 .. Len(f) : k <= pos \/ k > pos + m => g[k] = f[k]
               /\ \A k \in 1 .. m : g[pos + k] = <<x, k>>
<1> DEFINE N == IF Len(f) < pos + m THEN pos + m ELSE Len(f)
           byte(k) == IF pos < k /\ k <= pos + m THEN <<x, k - pos>>
                      ELSE IF k <= Len(f) THEN f[k] ELSE Hole
           g == [k \in 1 .. N |-> byte(k)]
<1>1. Len(f) \in Nat /\ \A k \in 1 .. Len(f) : f[k] \in Bytes
  BY DEF File
<1>2. N \in Nat /\ N >= Len(f) /\ N >= pos + m
  BY <1>1
<1>3. ASSUME NEW k \in 1 .. N PROVE byte(k) \in Bytes
  <2>1. Hole \in Bytes
    BY Zenon DEF Hole, Bytes
  <2>2. pos < k => <<x, k - pos>> \in Bytes
    <3>1. pos < k => k - pos \in Nat
      BY <1>2
    <3>2. QED
      BY <3>1, Zenon DEF Bytes
  <2>3. k <= Len(f) => f[k] \in Bytes
    BY <1>1, <1>2
  <2>4. QED
    BY <2>1, <2>2, <2>3, Zenon
<1>4. g \in [1 .. N -> Bytes]
  BY <1>3, Zenon
<1>5. g \in File /\ Len(g) = N
  <2> HIDE DEF g, N
  <2>1. \A h \in [1 .. N -> Bytes] : h \in Seq(Bytes) /\ Len(h) = N
    BY <1>2
  <2>2. QED
    BY <1>4, <2>1, Zenon DEF File
<1>6. \A k \in 1 .. Len(f) : k <= pos \/ k > pos + m => g[k] = f[k]
  BY <1>1, <1>2
<1>7. \A k \in 1 .. m : g[pos + k] = <<x, k>>
  <2> TAKE k \in 1 .. m
  <2>1. pos + k \in 1 .. N /\ pos < pos + k /\ pos + k <= pos + m /\ pos + k - pos = k
    BY <1>2
  <2>2. QED
    BY <2>1
<1>8. g = writeBytes(f, pos, x, m)
  BY Zenon DEF writeBytes
<1> HIDE DEF g, N
<1>9. QED
  BY <1>1, <1>2, <1>5, <1>6, <1>7, <1>8, Zenon

(* Bytes between the old end of the file and what was written are holes.   *)
LEMMA WriteHole ==
    ASSUME NEW f \in File, NEW pos \in Nat, NEW x, NEW m \in Nat, NEW k \in Nat,
           Len(f) < k, k <= pos, k <= Len(writeBytes(f, pos, x, m))
    PROVE  writeBytes(f, pos, x, m)[k] = Hole
<1> DEFINE N == IF Len(f) < pos + m THEN pos + m ELSE Len(f)
<1>1. Len(f) \in Nat /\ N \in Nat
  BY DEF File
<1>2. k \in 1 .. N /\ ~(pos < k) /\ ~(k <= Len(f))
  BY <1>1
<1>3. QED
  BY <1>2, Zenon DEF writeBytes

(* Parsing gives the item that is there: the first byte tells it.          *)
LEMMA ParseIs ==
    ASSUME NEW f, NEW p, NEW x \in Items, IsAt(f, p, x)
    PROVE  parse(f, p) = x
<1>1. \A y \in Items : IsAt(f, p, y) => y = x
  <2> TAKE y \in Items
  <2>1. 1 \in 1 .. Size[x] /\ 1 \in 1 .. Size[y]
    BY VectorAssumption
  <2>2. IsAt(f, p, y) => f[p + 1] = <<y, 1>> /\ f[p + 1] = <<x, 1>>
    BY <2>1, Zenon DEF IsAt
  <2>3. QED
    BY <2>2
<1>2. (CHOOSE y \in Items : IsAt(f, p, y)) = x
  BY <1>1, Zenon
<1>3. parse(f, p) = IF \E y \in Items : IsAt(f, p, y) THEN CHOOSE y \in Items : IsAt(f, p, y) ELSE Garbage
  BY Zenon DEF parse, IsAt
<1>4. QED
  BY <1>2, <1>3, Zenon

(* Parsing gives an item or fails.                                         *)
LEMMA ParseType ==
    ASSUME NEW f, NEW p
    PROVE  parse(f, p) \in Items \cup {Garbage}
BY Zenon DEF parse

(* An item stays as it is when something is written after it or before it. *)
LEMMA WriteKeeps ==
    ASSUME NEW s \in Sizes, NEW f \in File, NEW i \in 1 .. Len(s), NEW x, HoldsAt(s, f, i, x),
           NEW pos \in Nat, NEW y \in Items, NEW m \in Nat,
           sumSizes(s)[i] <= pos \/ pos + m <= sumSizes(s)[i - 1]
    PROVE  HoldsAt(s, writeBytes(f, pos, y, m), i, x)
<1> DEFINE g == writeBytes(f, pos, y, m)
           p == sumSizes(s)[i - 1]
<1>1. /\ Len(f) \in Nat /\ Len(g) \in Nat /\ Len(g) >= Len(f)
      /\ \A k \in 1 .. Len(f) : k <= pos \/ k > pos + m => g[k] = f[k]
  BY WriteFacts
<1>2. p \in Nat /\ sumSizes(s)[i] = p + s[i] /\ s[i] \in Nat
  BY SumSteps DEF Sizes
<1>3. x \in Items /\ Size[x] \in Nat /\ Size[x] <= s[i] /\ IsAt(f, p, x)
  BY VectorAssumption, Zenon DEF HoldsAt
<1>4. p + s[i] <= pos \/ pos + m <= p
  BY <1>2, Zenon
<1> HIDE DEF g, p
<1>5. IsAt(g, p, x)
  <2> SUFFICES ASSUME NEW k \in 1 .. Size[x]
               PROVE  p + k <= Len(g) /\ g[p + k] = <<x, k>>
    BY Zenon DEF IsAt
  <2>1. p + k <= Len(f) /\ f[p + k] = <<x, k>>
    BY <1>3, Zenon DEF IsAt
  <2>2. p + k \in 1 .. Len(f) /\ (p + k <= pos \/ p + k > pos + m)
    BY <1>1, <1>2, <1>3, <1>4, <2>1
  <2>3. g[p + k] = f[p + k]
    BY <1>1, <2>2, Zenon
  <2>4. QED
    BY <1>1, <1>2, <2>1, <2>2, <2>3
<1>6. QED
  BY <1>3, <1>5, Zenon DEF HoldsAt, g, p

(* An item that is there after something was written behind it was there   *)
(* before.                                                                 *)
LEMMA WriteBehind ==
    ASSUME NEW s \in Sizes, NEW f \in File, NEW i \in 1 .. Len(s), NEW x,
           NEW pos \in Nat, NEW y \in Items, NEW m \in Nat,
           HoldsAt(s, writeBytes(f, pos, y, m), i, x), sumSizes(s)[i] <= pos
    PROVE  HoldsAt(s, f, i, x)
<1> DEFINE g == writeBytes(f, pos, y, m)
           p == sumSizes(s)[i - 1]
<1>1. /\ Len(f) \in Nat /\ Len(g) \in Nat
      /\ \A k \in 1 .. Len(f) : k <= pos \/ k > pos + m => g[k] = f[k]
  BY WriteFacts, ZenonT(60)
<1>2. p \in Nat /\ s[i] \in Nat /\ p + s[i] <= pos
  BY SumSteps DEF Sizes
<1>3. x \in Items /\ Size[x] \in Nat /\ Size[x] <= s[i] /\ IsAt(g, p, x)
  BY VectorAssumption, Zenon DEF HoldsAt
<1> HIDE DEF g, p
<1>4. IsAt(f, p, x)
  <2> SUFFICES ASSUME NEW k \in 1 .. Size[x]
               PROVE  p + k <= Len(f) /\ f[p + k] = <<x, k>>
    BY Zenon DEF IsAt
  <2>1. p + k <= Len(g) /\ g[p + k] = <<x, k>>
    BY <1>3, Zenon DEF IsAt
  <2>2. p + k \in 1 .. Len(g) /\ p + k <= pos
    BY <1>1, <1>2, <1>3, <2>1, SMTT(40)
  <2>3. <<x, k>> # Hole
    BY <1>3, VectorAssumption, Zenon DEF Hole
  <2>4. p + k <= Len(f)
    <3>1. p + k \in Nat /\ (Len(f) < p + k \/ p + k <= Len(f))
      BY <1>1, <2>2
    <3>2. Len(f) < p + k => g[p + k] = Hole
      BY <2>1, <2>2, <3>1, WriteHole, Zenon DEF g
    <3>3. QED
      BY <2>1, <2>3, <3>1, <3>2, Zenon
  <2>5. QED
    BY <1>1, <2>1, <2>2, <2>4
<1>5. QED
  BY <1>3, <1>4, Zenon DEF HoldsAt, p

(* Where an item is depends only on the sizes up to it.                    *)
LEMMA HoldsAgrees ==
    ASSUME NEW s \in Sizes, NEW t \in Sizes, NEW n \in Nat, n <= Len(s), n <= Len(t),
           \A k \in 1 .. n : s[k] = t[k],
           NEW i \in 1 .. n, NEW f, NEW x, HoldsAt(s, f, i, x)
    PROVE  HoldsAt(t, f, i, x)
<1>1. i - 1 \in 0 .. n /\ s[i] = t[i]
  OBVIOUS
<1>2. sumSizes(s)[i - 1] = sumSizes(t)[i - 1]
  BY <1>1, SumAgrees, Zenon
<1>3. QED
  BY <1>1, <1>2, Zenon DEF HoldsAt

(* A written item is there.                                                *)
LEMMA WriteHolds ==
    ASSUME NEW s \in Sizes, NEW f \in File, NEW i \in 1 .. Len(s), NEW x \in Items,
           Size[x] <= s[i]
    PROVE  HoldsAt(s, write(f, sumSizes(s)[i - 1], x), i, x)
<1> DEFINE p == sumSizes(s)[i - 1]
           g == writeBytes(f, p, x, Size[x])
<1>1. p \in Nat /\ Size[x] \in Nat
  BY SumSteps, VectorAssumption
<1>2. /\ Len(g) \in Nat /\ Len(g) >= p + Size[x]
      /\ \A k \in 1 .. Size[x] : g[p + k] = <<x, k>>
  BY <1>1, WriteFacts, ZenonT(60)
<1> HIDE DEF g, p
<1>3. IsAt(g, p, x)
  BY <1>1, <1>2 DEF IsAt
<1>4. QED
  BY <1>3, Zenon DEF HoldsAt, write, g, p

-----------------------------------------------------------------------------
(* The inductive invariant.  The index agrees with its file: count is the  *)
(* number of items now, or, with a count in the buffer, before the last    *)
(* operation.  The undamaged items are in the items file once its buffer   *)
(* is flushed, and so are the ones before the last operation.  The item in *)
(* the buffer covers none of them: it is the last one, or lies behind.     *)
Sum == sumSizes(sizes)

IndexAgrees ==
    /\ sizes \in Sizes /\ offsets \in Seq(Nat) /\ size <= Len(sizes)
    /\ \A i \in 1 .. size : offsets[i] = Sum[i - 1]
    /\ itemsFileSize = Sum[size]
    /\ count \in 0 .. Len(sizes)
    /\ countBuf = <<size>> \/ (countBuf = <<>> /\ count = size)

ItemsTyped ==
    /\ itemsFile \in File
    /\ itemsBuf = <<>> \/ itemsBuf \in Nat \X Items
    /\ \A i \in DOMAIN items : items[i] \in Items

Undamaged ==
    /\ intact \in 0 .. size
    /\ \A i \in 1 .. intact : HoldsAt(sizes, itemsFlushed, i, lookup(i))

Undoable ==
    /\ undo \in Seq(Items) /\ Len(undo) <= count
    /\ \A i \in 1 .. Len(undo) : HoldsAt(sizes, itemsFlushed, i, undo[i])

BufferBehind ==
    itemsBuf # <<>> =>
        /\ size > 0 => itemsBuf[1] >= Sum[size - 1]
        /\ landsOnPopped(itemsBuf[1]) => itemsBuf[1] >= Sum[size]
        /\ ~landsOnPopped(itemsBuf[1]) => itemsBuf[1] >= Sum[Len(undo)]

VecInv == IndexAgrees /\ ItemsTyped /\ Undamaged /\ Undoable /\ BufferBehind

(* The flushed file is a file, and the flushed count is that of the items. *)
LEMMA FlushedFacts ==
    ASSUME IndexAgrees, ItemsTyped
    PROVE  itemsFlushed \in File /\ countFlushed = size
<1>1. itemsBuf = <<>> => itemsFlushed \in File
  BY Zenon DEF itemsFlushed, ItemsTyped
<1>2. ASSUME itemsBuf # <<>> PROVE itemsFlushed \in File
  <2>1. itemsBuf \in Nat \X Items
    BY <1>2, Zenon DEF ItemsTyped
  <2>2. itemsBuf[1] \in Nat /\ itemsBuf[2] \in Items /\ Size[itemsBuf[2]] \in Nat
    BY <2>1, VectorAssumption, Zenon
  <2>3. QED
    BY <1>2, <2>2, WriteFacts, Zenon DEF itemsFlushed, write, ItemsTyped
<1>3. countFlushed = size
  <2>1. CASE countBuf = <<>>
    BY <2>1, Zenon DEF countFlushed, IndexAgrees
  <2>2. CASE countBuf = <<size>>
    BY <2>2, Zenon DEF countFlushed
  <2>3. QED
    BY <2>1, <2>2, Zenon DEF IndexAgrees
<1>4. QED
  BY <1>1, <1>2, <1>3, Zenon

(* open: if the file holds w, the vector is w, and nothing can be undone.  *)
LEMMA OpenGives ==
    ASSUME sizes \in Sizes, NEW f \in File, NEW c \in 0 .. Len(sizes), NEW w \in Seq(Items),
           Len(w) <= c, \A i \in 1 .. Len(w) : HoldsAt(sizes, f, i, w[i]),
           open(f, c, sizes, Len(w))
    PROVE  VecInv' /\ Vec' = w /\ undo' = w
<1> DEFINE n == Len(w)
<1>0. n \in Nat /\ Len(sizes) \in Nat
  BY DEF Sizes
<1>1. /\ itemsFile' = f /\ itemsBuf' = <<>> /\ sizes' = sizes /\ count' = c /\ countBuf' = <<>>
      /\ offsets' = [i \in 1 .. c |-> Sum[i - 1]] /\ itemsFileSize' = Sum[c]
      /\ items' = NoItems /\ intact' = n /\ undo' = Vec'
  BY Zenon DEF open, Sum
<1>2. \A i \in 0 .. Len(sizes) : Sum[i] \in Nat
  BY SumSteps, Zenon DEF Sum
<1>3. offsets' \in Seq(Nat) /\ Len(offsets') = c /\ \A i \in 1 .. c : offsets'[i] = Sum[i - 1]
  <2>1. \A i \in 1 .. c : Sum[i - 1] \in Nat
    BY <1>0, <1>2
  <2>2. offsets' \in [1 .. c -> Nat]
    BY <1>1, <2>1, Zenon
  <2>3. QED
    BY <1>0, <1>1, <2>2
<1>4. DOMAIN items' = {}
  BY <1>1, Zenon DEF NoItems
<1>5. itemsFlushed' = f /\ Sum' = Sum
  BY <1>1, Zenon DEF itemsFlushed, Sum
<1>6. \A i \in 1 .. n : lookup(i)' = w[i]
  <2> TAKE i \in 1 .. n
  <2>1. HoldsAt(sizes, f, i, w[i]) /\ w[i] \in Items /\ i \in 1 .. c
    BY <1>0
  <2>2. parse(f, Sum[i - 1]) = w[i]
    BY <2>1, ParseIs, Zenon DEF HoldsAt, Sum
  <2>3. lookup(i)' = parse(f, Sum[i - 1])
    BY <1>3, <1>4, <1>5, <2>1, Zenon DEF lookup
  <2>4. QED
    BY <2>2, <2>3, Zenon
<1>7. Vec' = w
  BY <1>0, <1>1, <1>6 DEF Vec
<1>8. IndexAgrees'
  BY <1>0, <1>1, <1>3, <1>5 DEF IndexAgrees, size
<1>9. ItemsTyped'
  BY <1>1, <1>4, Zenon DEF ItemsTyped
<1>10. Undamaged'
  BY <1>0, <1>1, <1>3, <1>5, <1>6 DEF Undamaged, size
<1>11. Undoable'
  BY <1>0, <1>1, <1>5, <1>7, Zenon DEF Undoable
<1>12. QED
  BY <1>1, <1>7, <1>8, <1>9, <1>10, <1>11, Zenon DEF VecInv, BufferBehind

(* The vector is a sequence of items.                                      *)
LEMMA VecFacts ==
    ASSUME VecInv
    PROVE  /\ Vec \in Seq(Items) /\ Len(Vec) = intact /\ intact \in Nat
           /\ \A i \in 1 .. intact : /\ Vec[i] = lookup(i) /\ Vec[i] \in Items
                                      /\ HoldsAt(sizes, itemsFlushed, i, Vec[i])
<1>1. size \in Nat /\ intact \in Nat
  BY DEF VecInv, IndexAgrees, Undamaged, size
<1>2. \A i \in 1 .. intact : lookup(i) \in Items /\ HoldsAt(sizes, itemsFlushed, i, lookup(i))
  BY Zenon DEF VecInv, Undamaged, HoldsAt
<1>3. Vec = [i \in 1 .. intact |-> lookup(i)]
  BY Zenon DEF Vec
<1>4. Vec \in [1 .. intact -> Items]
  BY <1>2, <1>3, Zenon
<1>5. \A i \in 1 .. intact : Vec[i] = lookup(i)
  BY <1>3, Zenon
<1>6. QED
  BY <1>1, <1>2, <1>4, <1>5

(* Offsets do not shrink.                                                  *)
LEMMA SumMonotone ==
    ASSUME NEW s \in Sizes
    PROVE  \A i, j \in 0 .. Len(s) : i <= j => sumSizes(s)[i] <= sumSizes(s)[j]
<1> TAKE i, j \in 0 .. Len(s)
<1>1. Len(s) \in Nat /\ sumSizes(s)[i] \in Nat /\ sumSizes(s)[j] \in Nat
  BY SumSteps, Zenon
<1>2. i < j => sumSizes(s)[i] < sumSizes(s)[j]
  BY SumGrows, Zenon
<1>3. QED
  BY <1>1, <1>2

(* What is written behind the first items leaves them.                     *)
LEMMA WriteKeepsAll ==
    ASSUME sizes \in Sizes, NEW f \in File, NEW w \in Seq(Items), Len(w) <= Len(sizes),
           \A i \in 1 .. Len(w) : HoldsAt(sizes, f, i, w[i]),
           NEW pos \in Nat, NEW y \in Items, NEW m \in Nat, Sum[Len(w)] <= pos
    PROVE  \A i \in 1 .. Len(w) : HoldsAt(sizes, writeBytes(f, pos, y, m), i, w[i])
<1> TAKE i \in 1 .. Len(w)
<1>1. Len(w) \in Nat /\ Len(sizes) \in Nat
  BY DEF Sizes
<1>2. i \in 1 .. Len(sizes) /\ i \in 0 .. Len(sizes) /\ Len(w) \in 0 .. Len(sizes) /\ i <= Len(w)
  BY <1>1
<1>3. Sum[i] \in Nat /\ Sum[Len(w)] \in Nat /\ Sum[i] <= Sum[Len(w)]
  BY <1>2, SumMonotone, SumSteps, Zenon DEF Sum
<1>4. sumSizes(sizes)[i] <= pos
  BY <1>3 DEF Sum
<1>5. QED
  BY <1>2, <1>4, WriteKeeps, Zenon

(* What VecInv says of the numbers.                                        *)
LEMMA Numbers ==
    ASSUME VecInv
    PROVE  /\ sizes \in Sizes /\ Len(sizes) \in Nat /\ size \in Nat /\ size <= Len(sizes)
           /\ intact \in 0 .. size /\ count \in 0 .. Len(sizes) /\ Len(undo) \in 0 .. count
           /\ \A i \in 0 .. Len(sizes) : Sum[i] \in Nat
           /\ \A i, j \in 0 .. Len(sizes) : i <= j => Sum[i] <= Sum[j]
           /\ itemsFileSize = Sum[size] /\ countFlushed = size /\ itemsFlushed \in File
           /\ offsets \in Seq(Nat)
<1>1. sizes \in Sizes /\ offsets \in Seq(Nat) /\ undo \in Seq(Items)
  BY Zenon DEF VecInv, IndexAgrees, Undoable
<1>2. Len(sizes) \in Nat /\ size \in Nat /\ Len(undo) \in Nat
  BY <1>1 DEF Sizes, size
<1>3. /\ size <= Len(sizes) /\ intact \in 0 .. size /\ count \in 0 .. Len(sizes)
      /\ Len(undo) <= count /\ itemsFileSize = Sum[size]
  BY Zenon DEF VecInv, IndexAgrees, Undamaged, Undoable
<1>4. \A i \in 0 .. Len(sizes) : Sum[i] \in Nat
  BY <1>1, SumSteps, Zenon DEF Sum
<1>5. \A i, j \in 0 .. Len(sizes) : i <= j => Sum[i] <= Sum[j]
  BY <1>1, SumMonotone, Zenon DEF Sum
<1>6. countFlushed = size /\ itemsFlushed \in File
  BY FlushedFacts, Zenon DEF VecInv
<1>7. QED
  BY <1>1, <1>2, <1>3, <1>4, <1>5, <1>6

(* An undamaged item that is not in the pool is read from the file.        *)
LEMMA ParseUndamaged ==
    ASSUME VecInv, NEW i \in 1 .. intact
    PROVE  parse(itemsFlushed, offsets[i]) = lookup(i)
<1>1. HoldsAt(sizes, itemsFlushed, i, lookup(i)) /\ i \in 1 .. size
  BY Numbers DEF VecInv, Undamaged
<1>2. offsets[i] = Sum[i - 1]
  BY <1>1, Zenon DEF VecInv, IndexAgrees
<1>3. QED
  BY <1>1, <1>2, ParseIs, Zenon DEF HoldsAt, Sum

(* prepare puts the item into the pool, and takes at most one out.         *)
LEMMA PrepareFacts ==
    ASSUME NEW i, NEW x, prepare(i, x)
    PROVE  /\ i \in DOMAIN items' /\ items'[i] = x
           /\ \A j \in DOMAIN items' : j = i \/ (j \in DOMAIN items /\ items'[j] = items[j])
BY Zenon DEF prepare

(* The empty vector.                                                       *)
LEMMA InitFacts ==
    ASSUME VectorInit
    PROVE  VecInv /\ Vec = <<>>
<1>1. /\ offsets = <<>> /\ itemsFileSize = 0 /\ items = NoItems /\ itemsFile = <<>>
      /\ itemsBuf = <<>> /\ sizes = <<>> /\ count = 0 /\ countBuf = <<>> /\ intact = 0 /\ undo = <<>>
  BY Zenon DEF VectorInit
<1>2. sizes \in Sizes /\ Len(sizes) = 0 /\ size = 0
  BY <1>1 DEF Sizes, size
<1>3. Sum[0] = 0
  BY <1>2, SumSteps, Zenon DEF Sum
<1>4. IndexAgrees
  BY <1>1, <1>2, <1>3 DEF IndexAgrees
<1>5. ItemsTyped
  BY <1>1 DEF ItemsTyped, File, NoItems
<1>6. Undamaged /\ Undoable /\ BufferBehind
  BY <1>1, <1>2 DEF Undamaged, Undoable, BufferBehind
<1>7. Vec = <<>>
  BY <1>1 DEF Vec
<1>8. QED
  BY <1>4, <1>5, <1>6, <1>7, Zenon DEF VecInv

(* Neither the invariant nor the vector depends on the order of the pool.  *)
LEMMA CacheOrder ==
    ASSUME VecInv, UNCHANGED <<offsets, itemsFileSize, items, itemsFile, itemsBuf, sizes, count,
                               countBuf, intact, undo>>
    PROVE  VecInv' /\ Vec' = Vec
<1>1. itemsFlushed' = itemsFlushed /\ countFlushed' = countFlushed /\ size' = size /\ Sum' = Sum
  BY Zenon DEF itemsFlushed, countFlushed, size, Sum
<1>2. \A i : lookup(i)' = lookup(i)
  BY <1>1, Zenon DEF lookup
<1>3. \A p : landsOnPopped(p)' = landsOnPopped(p)
  BY <1>1, Zenon DEF landsOnPopped, popPending
<1>4. IndexAgrees' /\ ItemsTyped' /\ Undamaged' /\ Undoable'
  BY <1>1, <1>2, Zenon DEF VecInv, IndexAgrees, ItemsTyped, Undamaged, Undoable
<1>5. BufferBehind'
  BY <1>1, <1>3, Zenon DEF VecInv, BufferBehind
<1>6. Vec' = Vec
  BY <1>2, Zenon DEF Vec
<1>7. QED
  BY <1>4, <1>5, <1>6, Zenon DEF VecInv

(* operator[] changes no item, whichever leaves the pool.                  *)
LEMMA GetKeeps ==
    ASSUME VecInv, NEW i \in 1 .. size, get(i)
    PROVE  VecInv' /\ Vec' = Vec /\ undo' = undo
<1>1. CASE i \in DOMAIN items
  BY <1>1, CacheOrder, Zenon DEF get
<1>2. CASE i \notin DOMAIN items
  <2>1. /\ itemsFile' = itemsFlushed /\ itemsBuf' = <<>> /\ prepare(i, lookup(i)) /\ lookup(i) # Garbage
        /\ UNCHANGED <<offsets, itemsFileSize, sizes, count, countBuf, intact, undo>>
    BY <1>2, Zenon DEF get
  <2>2. itemsFlushed' = itemsFlushed /\ size' = size /\ Sum' = Sum
    BY <2>1, Zenon DEF itemsFlushed, size, Sum
  <2>3. /\ i \in DOMAIN items' /\ items'[i] = lookup(i)
        /\ \A j \in DOMAIN items' : j = i \/ (j \in DOMAIN items /\ items'[j] = items[j])
    BY <2>1, PrepareFacts, Zenon
  <2>4. \A j \in 1 .. intact : lookup(j)' = lookup(j)
    <3> TAKE j \in 1 .. intact
    <3>1. CASE j \in DOMAIN items'
      BY <2>3, <3>1, Zenon DEF lookup
    <3>2. CASE j \notin DOMAIN items'
      <4>1. lookup(j)' = parse(itemsFlushed, offsets[j])
        BY <2>1, <2>2, <3>2, Zenon DEF lookup
      <4>2. QED
        BY <4>1, ParseUndamaged, Zenon
    <3>3. QED
      BY <3>1, <3>2, Zenon
  <2>5. lookup(i) \in Items
    BY <1>2, <2>1, ParseType, Zenon DEF lookup
  <2>6. itemsFlushed \in File
    BY Numbers, Zenon
  <2>7. IndexAgrees' /\ Undoable' /\ Undamaged'
    BY <2>1, <2>2, <2>4, Zenon DEF VecInv, IndexAgrees, Undamaged, Undoable
  <2>8. ItemsTyped'
    BY <2>1, <2>3, <2>5, <2>6, Zenon DEF VecInv, ItemsTyped
  <2>9. BufferBehind'
    BY <2>1, Zenon DEF BufferBehind
  <2>10. Vec' = Vec
    BY <2>1, <2>4, Zenon DEF Vec
  <2>11. QED
    BY <2>1, <2>7, <2>8, <2>9, <2>10, Zenon DEF VecInv
<1>3. QED
  BY <1>1, <1>2, Zenon

(* A sequence with an item appended, as a function.                        *)
LEMMA AppendIs ==
    ASSUME NEW s \in Seq(Items), NEW x \in Items, NEW n \in Nat, n = Len(s)
    PROVE  Append(s, x) = [i \in 1 .. n + 1 |-> IF i = n + 1 THEN x ELSE s[i]]
<1> DEFINE t == Append(s, x)
<1>1. t \in Seq(Items) /\ Len(t) = n + 1 /\ \A i \in 1 .. n + 1 : t[i] = IF i = n + 1 THEN x ELSE s[i]
  OBVIOUS
<1> HIDE DEF t
<1>2. t = [i \in 1 .. n + 1 |-> t[i]]
  BY <1>1
<1>3. QED
  BY <1>1, <1>2, Zenon DEF t

(* push_back appends the item to an undamaged vector.  A damaged one keeps *)
(* what is undamaged.                                                      *)
LEMMA PushAppends ==
    ASSUME VecInv, NEW x \in Items, push_back(x)
    PROVE  /\ VecInv' /\ undo' = Vec
           /\ Vec' = IF intact = size THEN Append(Vec, x) ELSE Vec
<1> DEFINE G == write(itemsFlushed, Sum[size], x)
<1>n. /\ sizes \in Sizes /\ Len(sizes) \in Nat /\ size \in Nat /\ size <= Len(sizes)
      /\ intact \in 0 .. size
      /\ \A i \in 0 .. Len(sizes) : Sum[i] \in Nat
      /\ \A i, j \in 0 .. Len(sizes) : i <= j => Sum[i] <= Sum[j]
      /\ itemsFileSize = Sum[size] /\ countFlushed = size /\ itemsFlushed \in File
      /\ offsets \in Seq(Nat)
  BY Numbers, Zenon
<1>v. /\ Vec \in Seq(Items) /\ Len(Vec) = intact
      /\ \A i \in 1 .. intact : /\ Vec[i] = lookup(i) /\ Vec[i] \in Items
                                /\ HoldsAt(sizes, itemsFlushed, i, Vec[i])
  BY VecFacts, Zenon
<1>x. Size[x] \in Nat \ {0}
  BY VectorAssumption, Zenon
<1>1. /\ itemsFile' = itemsFlushed /\ itemsBuf' = <<Sum[size], x>>
      /\ sizes' = setSize(sizes, size + 1, Size[x]) /\ count' = size /\ countBuf' = <<size + 1>>
      /\ offsets' = Append(offsets, Sum[size]) /\ itemsFileSize' = Sum[size] + Size[x]
      /\ prepare(size + 1, x) /\ intact' = IF intact = size THEN size + 1 ELSE intact
      /\ undo' = Vec
  BY <1>n, Zenon DEF push_back
<1>2. /\ sizes' \in Sizes /\ Len(sizes') \in Nat /\ Len(sizes') >= Len(sizes)
      /\ Len(sizes') >= size + 1 /\ sizes'[size + 1] = Size[x]
      /\ \A k \in 1 .. size : sizes'[k] = sizes[k]
  <2>1. size \in 0 .. Len(sizes)
    BY <1>n
  <2>2. CASE size + 1 <= Len(sizes)
    <3>1. sizes' = [sizes EXCEPT ![size + 1] = Size[x]]
      BY <1>1, <2>2, Zenon DEF setSize
    <3>2. QED
      BY <1>n, <1>x, <2>1, <2>2, <3>1 DEF Sizes
  <2>3. CASE ~(size + 1 <= Len(sizes))
    <3>1. sizes' = Append(sizes, Size[x])
      BY <1>1, <2>3, Zenon DEF setSize
    <3>2. QED
      BY <1>n, <1>x, <2>1, <2>3, <3>1 DEF Sizes
  <2>4. QED
    BY <2>2, <2>3, Zenon
<1>3. \A k \in 0 .. size : Sum'[k] = Sum[k]
  <2>1. size <= Len(sizes') /\ size <= Len(sizes) /\ \A k \in 1 .. size : sizes[k] = sizes'[k]
    BY <1>n, <1>2
  <2>2. \A k \in 0 .. size : sumSizes(sizes)[k] = sumSizes(sizes')[k]
    BY <1>n, <1>2, <2>1, SumAgrees, Zenon
  <2>3. QED
    BY <2>2, Zenon DEF Sum
<1>4. Sum'[size + 1] = Sum[size] + Size[x]
  <2>1. size + 1 \in 1 .. Len(sizes') /\ size + 1 - 1 = size /\ size \in 0 .. size
    BY <1>n, <1>2
  <2>2. sumSizes(sizes')[size + 1] = sumSizes(sizes')[size + 1 - 1] + sizes'[size + 1]
    BY <1>2, <2>1, SumSteps
  <2>3. QED
    BY <1>2, <1>3, <2>1, <2>2, Zenon DEF Sum
<1>5. /\ Len(offsets') = size + 1 /\ offsets' \in Seq(Nat) /\ offsets'[size + 1] = Sum[size]
      /\ \A k \in 1 .. size : offsets'[k] = offsets[k]
  <2>1. Sum[size] \in Nat
    BY <1>n
  <2>2. QED
    BY <1>n, <1>1, <2>1 DEF size
<1>6. itemsFlushed' = G
  BY <1>1, Zenon DEF itemsFlushed
<1>7. \A w \in Seq(Items) : Len(w) <= size /\ (\A i \in 1 .. Len(w) : HoldsAt(sizes, itemsFlushed, i, w[i]))
                              => \A i \in 1 .. Len(w) : HoldsAt(sizes', G, i, w[i])
  <2> SUFFICES ASSUME NEW w \in Seq(Items), Len(w) <= size,
                      \A i \in 1 .. Len(w) : HoldsAt(sizes, itemsFlushed, i, w[i]),
                      NEW i \in 1 .. Len(w)
               PROVE  HoldsAt(sizes', G, i, w[i])
    BY Zenon
  <2>1. /\ Len(w) \in 0 .. Len(sizes) /\ size \in 0 .. Len(sizes) /\ Len(w) <= Len(sizes)
        /\ Sum[Len(w)] <= Sum[size] /\ Sum[size] \in Nat /\ Size[x] \in Nat /\ i \in 1 .. size
    BY <1>n, <1>x
  <2>2. HoldsAt(sizes, G, i, w[i])
    BY <1>n, <2>1, WriteKeepsAll, Zenon DEF write
  <2>3. size <= Len(sizes') /\ \A k \in 1 .. size : sizes[k] = sizes'[k]
    BY <1>n, <1>2
  <2>4. QED
    BY <1>n, <1>2, <2>1, <2>2, <2>3, HoldsAgrees, Zenon
<1>8. HoldsAt(sizes', G, size + 1, x)
  <2>1. /\ size + 1 \in 1 .. Len(sizes') /\ size + 1 - 1 = size /\ size \in 0 .. size
        /\ Size[x] <= sizes'[size + 1]
    BY <1>n, <1>2, <1>x
  <2>2. sumSizes(sizes')[size + 1 - 1] = Sum[size]
    BY <1>3, <2>1, Zenon DEF Sum
  <2>3. QED
    BY <1>n, <1>2, <2>1, <2>2, WriteHolds
<1>9. \A i \in 1 .. intact : HoldsAt(sizes', G, i, Vec[i])
  <2>1. Len(Vec) <= size /\ \A i \in 1 .. Len(Vec) : HoldsAt(sizes, itemsFlushed, i, Vec[i])
    BY <1>v, <1>n
  <2>2. \A i \in 1 .. Len(Vec) : HoldsAt(sizes', G, i, Vec[i])
    BY <1>7, <1>v, <2>1, Zenon
  <2>3. QED
    BY <1>v, <2>2, Zenon
<1>10. \A i \in 1 .. intact : lookup(i)' = Vec[i]
  <2> TAKE i \in 1 .. intact
  <2>0. i \in 1 .. size /\ i # size + 1 /\ i - 1 \in 0 .. size
    BY <1>n
  <2>1. CASE i \in DOMAIN items'
    BY <1>1, <1>v, <2>0, <2>1, PrepareFacts, Zenon DEF lookup
  <2>2. CASE i \notin DOMAIN items'
    <3>1. offsets'[i] = Sum'[i - 1]
      BY <1>3, <1>5, <2>0, Zenon DEF VecInv, IndexAgrees
    <3>2. lookup(i)' = parse(G, sumSizes(sizes')[i - 1])
      BY <1>6, <2>2, <3>1, Zenon DEF lookup, Sum
    <3>3. HoldsAt(sizes', G, i, Vec[i])
      BY <1>9, Zenon
    <3>4. Vec[i] \in Items /\ IsAt(G, sumSizes(sizes')[i - 1], Vec[i])
      BY <3>3, Zenon DEF HoldsAt
    <3>5. QED
      BY <3>2, <3>4, ParseIs, Zenon
  <2>3. QED
    BY <2>1, <2>2, Zenon
<1>11. \A i : i = size + 1 => lookup(i)' = x
  BY <1>1, PrepareFacts, Zenon DEF lookup
<1>12. Vec' = IF intact = size THEN Append(Vec, x) ELSE Vec
  <2>1. Vec' = [i \in 1 .. intact' |-> lookup(i)']
    BY Zenon DEF Vec
  <2>2. CASE intact = size
    <3>1. intact' = size + 1
      BY <1>1, <2>2, Zenon
    <3>2. Append(Vec, x) = [i \in 1 .. size + 1 |-> IF i = size + 1 THEN x ELSE Vec[i]]
      BY <1>v, <1>n, <2>2, AppendIs
    <3>3. \A i \in 1 .. size + 1 : lookup(i)' = IF i = size + 1 THEN x ELSE Vec[i]
      <4> TAKE i \in 1 .. size + 1
      <4>1. i = size + 1 \/ i \in 1 .. intact
        BY <1>n, <2>2
      <4>2. i \in 1 .. intact => i # size + 1
        BY <1>n
      <4>3. QED
        BY <1>10, <1>11, <4>1, <4>2, Zenon
    <3>4. QED
      BY <2>1, <2>2, <3>1, <3>2, <3>3, Zenon
  <2>3. CASE intact # size
    <3>1. Vec = [i \in 1 .. intact |-> Vec[i]]
      BY <1>v
    <3>2. QED
      BY <1>1, <1>10, <2>1, <2>3, <3>1, Zenon
  <2>4. QED
    BY <2>2, <2>3, Zenon
<1> HIDE DEF G
<1>13. size' = size + 1
  BY <1>5, Zenon DEF size
<1>14. IndexAgrees'
  <2>1. \A i \in 1 .. size + 1 : offsets'[i] = Sum'[i - 1]
    <3> TAKE i \in 1 .. size + 1
    <3>1. CASE i = size + 1
      BY <1>n, <1>3, <1>5, <3>1
    <3>2. CASE i \in 1 .. size
      BY <1>n, <1>3, <1>5, <3>2 DEF VecInv, IndexAgrees
    <3>3. QED
      BY <1>n, <3>1, <3>2
  <2>2. QED
    BY <1>n, <1>1, <1>2, <1>4, <1>5, <1>13, <2>1, SMTT(40) DEF IndexAgrees
<1>15. ItemsTyped'
  <2>1. \A j \in DOMAIN items' : items'[j] \in Items
    BY <1>1, PrepareFacts DEF VecInv, ItemsTyped
  <2>2. itemsBuf' \in Nat \X Items
    BY <1>1, <1>n
  <2>3. QED
    BY <1>n, <1>1, <2>1, <2>2, Zenon DEF ItemsTyped
<1>16. Undamaged'
  <2>1. intact' \in 0 .. size + 1
    BY <1>1, <1>n
  <2>2. ASSUME NEW i \in 1 .. intact' PROVE HoldsAt(sizes', G, i, lookup(i)')
    <3>1. CASE i \in 1 .. intact
      BY <1>9, <1>10, <3>1, Zenon
    <3>2. CASE i \notin 1 .. intact
      <4>1. i = size + 1
        BY <1>1, <1>n, <3>2
      <4>2. lookup(i)' = x
        BY <1>11, <4>1, Zenon
      <4>3. QED
        BY <1>8, <4>1, <4>2, Zenon
    <3>3. QED
      BY <3>1, <3>2, Zenon
  <2>3. QED
    BY <1>6, <1>13, <2>1, <2>2, Zenon DEF Undamaged
<1>17. Undoable'
  BY <1>1, <1>v, <1>n, <1>6, <1>9 DEF Undoable
<1>18. BufferBehind'
  <2>1. ~popPending'
    BY <1>1, <1>n DEF popPending, countFlushed
  <2>2. itemsBuf'[1] = Sum[size] /\ Sum'[size] = Sum[size] /\ Sum'[intact] = Sum[intact]
    BY <1>1, <1>3, <1>n
  <2>3. Sum[intact] <= Sum[size] /\ Sum[size] \in Nat /\ size + 1 - 1 = size
    BY <1>n
  <2>4. itemsBuf'[1] >= Sum'[size' - 1]
    <3>1. size' - 1 = size
      BY <1>13, <1>n, SMTT(40)
    <3>2. QED
      BY <2>2, <2>3, <3>1
  <2>5. itemsBuf'[1] >= Sum'[Len(undo')]
    BY <1>n, <1>1, <1>v, <2>2, <2>3, Zenon
  <2>6. QED
    BY <2>1, <2>4, <2>5, Zenon DEF BufferBehind, landsOnPopped
<1>19. QED
  BY <1>1, <1>12, <1>14, <1>15, <1>16, <1>17, <1>18, Zenon DEF VecInv

(* pop_back takes the last item off, and leaves a damaged vector alone.    *)
(* The bytes of the item stay, for a crash to bring it back.               *)
LEMMA PopRemoves ==
    ASSUME VecInv, pop_back
    PROVE  /\ VecInv' /\ undo' = Vec
           /\ Vec' = IF intact = size THEN SubSeq(Vec, 1, Len(Vec) - 1) ELSE Vec
           /\ intact = size => Vec # <<>>
<1>n. /\ sizes \in Sizes /\ Len(sizes) \in Nat /\ size \in Nat /\ size <= Len(sizes)
      /\ intact \in 0 .. size
      /\ \A i \in 0 .. Len(sizes) : Sum[i] \in Nat
      /\ \A i, j \in 0 .. Len(sizes) : i <= j => Sum[i] <= Sum[j]
      /\ countFlushed = size /\ offsets \in Seq(Nat)
  BY Numbers, Zenon
<1>v. /\ Vec \in Seq(Items) /\ Len(Vec) = intact
      /\ \A i \in 1 .. intact : /\ Vec[i] = lookup(i) /\ Vec[i] \in Items
                                /\ HoldsAt(sizes, itemsFlushed, i, Vec[i])
  BY VecFacts, Zenon
<1>1. /\ size > 0 /\ count' = size /\ countBuf' = <<size - 1>>
      /\ offsets' = SubSeq(offsets, 1, size - 1) /\ itemsFileSize' = offsets[size]
      /\ items' = [j \in DOMAIN items \ {size} |-> items[j]]
      /\ intact' = IF intact = size THEN size - 1 ELSE intact
      /\ undo' = Vec /\ UNCHANGED <<itemsFile, itemsBuf, sizes>>
  BY <1>n, Zenon DEF pop_back
<1>2. size \in 1 .. size /\ size - 1 \in Nat /\ size - 1 \in 0 .. Len(sizes) /\ size \in 0 .. Len(sizes)
  BY <1>n, <1>1
<1>3. /\ Len(offsets') = size - 1 /\ offsets' \in Seq(Nat)
      /\ \A k \in 1 .. size - 1 : offsets'[k] = offsets[k]
  BY <1>n, <1>1, <1>2, SMTT(40) DEF size
<1>4. itemsFlushed' = itemsFlushed /\ Sum' = Sum
  BY <1>1, Zenon DEF itemsFlushed, Sum
<1>5. size' = size - 1 /\ intact' \in 0 .. size - 1 /\ intact' <= intact
  BY <1>n, <1>1, <1>3 DEF size
<1>6. \A i \in 1 .. intact' : i \in 1 .. intact /\ i \in 1 .. size - 1 /\ i # size
  BY <1>n, <1>5
<1>7. \A i \in 1 .. intact' : lookup(i)' = Vec[i]
  <2> TAKE i \in 1 .. intact'
  <2>1. i \in 1 .. intact /\ i \in 1 .. size - 1 /\ i # size
    BY <1>6, Zenon
  <2>2. offsets'[i] = offsets[i]
    BY <1>3, <2>1, Zenon
  <2>3. i \in DOMAIN items' <=> i \in DOMAIN items
    BY <1>1, <2>1, Zenon
  <2>4. i \in DOMAIN items => items'[i] = items[i]
    BY <1>1, <2>1, Zenon
  <2>5. lookup(i)' = lookup(i)
    BY <1>4, <2>2, <2>3, <2>4, Zenon DEF lookup
  <2>6. QED
    BY <1>v, <2>1, <2>5, Zenon
<1>8. Vec' = IF intact = size THEN SubSeq(Vec, 1, Len(Vec) - 1) ELSE Vec
  <2>1. Vec' = [i \in 1 .. intact' |-> Vec[i]]
    BY <1>7, Zenon DEF Vec
  <2>2. CASE intact = size
    BY <1>n, <1>v, <1>1, <2>1, <2>2
  <2>3. CASE intact # size
    <3>1. Vec = [i \in 1 .. intact |-> Vec[i]]
      BY <1>v
    <3>2. QED
      BY <1>1, <2>1, <2>3, <3>1, Zenon
  <2>4. QED
    BY <2>2, <2>3, Zenon
<1>9. intact = size => Vec # <<>>
  BY <1>n, <1>v, <1>1
<1>10. IndexAgrees'
  <2>1. itemsFileSize' = Sum[size - 1]
    BY <1>1, <1>2, Zenon DEF VecInv, IndexAgrees
  <2>2. \A i \in 1 .. size - 1 : offsets'[i] = Sum[i - 1]
    BY <1>n, <1>3 DEF VecInv, IndexAgrees
  <2>3. count' \in 0 .. Len(sizes') /\ size' <= Len(sizes') /\ countBuf' = <<size'>>
    BY <1>n, <1>1, <1>2, <1>5
  <2>4. QED
    BY <1>n, <1>1, <1>3, <1>4, <1>5, <2>1, <2>2, <2>3, Zenon DEF IndexAgrees
<1>11. ItemsTyped'
  BY <1>1, Zenon DEF VecInv, ItemsTyped
<1>12. Undamaged'
  <2>1. \A i \in 1 .. intact' : HoldsAt(sizes', itemsFlushed', i, lookup(i)')
    BY <1>v, <1>1, <1>4, <1>6, <1>7, Zenon
  <2>2. QED
    BY <1>5, <2>1, Zenon DEF Undamaged
<1>13. Undoable'
  BY <1>1, <1>v, <1>n, <1>4 DEF Undoable
<1>14. BufferBehind'
  <2> SUFFICES ASSUME itemsBuf # <<>> PROVE BufferBehind'
    BY <1>1, Zenon DEF BufferBehind
  <2> DEFINE pos == itemsBuf[1]
  <2>0. pos \in Nat
    BY Zenon DEF VecInv, ItemsTyped
  <2>1. itemsBuf' = itemsBuf /\ pos >= Sum[size - 1]
    BY <1>1, Zenon DEF VecInv, BufferBehind
  <2>2. landsOnPopped(pos)' <=> pos < Sum[size]
    <3>1. popPending'
      BY <1>1, <1>n DEF popPending, countFlushed
    <3>2. sumSizes(sizes')[count'] = Sum[size]
      BY <1>1, Zenon DEF Sum
    <3>3. pos' = pos
      BY <1>1, Zenon
    <3>4. QED
      BY <3>1, <3>2, <3>3, Zenon DEF landsOnPopped
  <2>3. Sum[size] \in Nat /\ Sum[intact] \in Nat /\ Sum[intact] <= Sum[size]
    BY <1>n, <1>2
  <2>4. ~(pos < Sum[size]) => pos >= Sum[intact]
    BY <2>0, <2>3
  <2>5. size - 1 > 0 => pos >= Sum[size - 1 - 1]
    <3> SUFFICES ASSUME size - 1 > 0 PROVE pos >= Sum[size - 1 - 1]
      BY Zenon
    <3>1. size - 1 - 1 \in 0 .. Len(sizes) /\ size - 1 - 1 <= size - 1
      BY <1>n
    <3>2. Sum[size - 1 - 1] <= Sum[size - 1] /\ Sum[size - 1] \in Nat /\ Sum[size - 1 - 1] \in Nat
      BY <1>n, <1>2, <3>1, Zenon
    <3>3. QED
      BY <2>0, <2>1, <3>2
  <2>6. Len(undo') = intact
    BY <1>1, <1>v, Zenon
  <2>7. QED
    BY <1>4, <1>5, <2>1, <2>2, <2>4, <2>5, <2>6, Zenon DEF BufferBehind
<1>15. QED
  BY <1>1, <1>8, <1>9, <1>10, <1>11, <1>12, <1>13, <1>14, Zenon DEF VecInv

(* clear empties the vector.                                               *)
LEMMA ClearEmpties ==
    ASSUME VecInv, clear
    PROVE  VecInv' /\ undo' = Vec /\ Vec' = <<>>
<1>n. /\ sizes \in Sizes /\ Len(sizes) \in Nat /\ size \in Nat /\ size <= Len(sizes)
      /\ intact \in 0 .. size
      /\ \A i \in 0 .. Len(sizes) : Sum[i] \in Nat
      /\ \A i, j \in 0 .. Len(sizes) : i <= j => Sum[i] <= Sum[j]
      /\ countFlushed = size
  BY Numbers, Zenon
<1>v. /\ Vec \in Seq(Items) /\ Len(Vec) = intact
      /\ \A i \in 1 .. intact : HoldsAt(sizes, itemsFlushed, i, Vec[i])
  BY VecFacts, Zenon
<1>1. /\ count' = size /\ countBuf' = <<0>> /\ offsets' = <<>> /\ itemsFileSize' = 0
      /\ items' = NoItems /\ intact' = 0
      /\ undo' = Vec /\ UNCHANGED <<itemsFile, itemsBuf, sizes>>
  BY <1>n, Zenon DEF clear
<1>2. itemsFlushed' = itemsFlushed /\ Sum' = Sum /\ size' = 0 /\ Sum[0] = 0
  BY <1>n, <1>1, SumSteps, Zenon DEF itemsFlushed, Sum, size
<1>3. Vec' = <<>>
  BY <1>1 DEF Vec
<1>4. IndexAgrees'
  BY <1>n, <1>1, <1>2 DEF IndexAgrees
<1>5. ItemsTyped'
  BY <1>1, Zenon DEF VecInv, ItemsTyped, NoItems
<1>6. Undamaged' /\ Undoable'
  BY <1>n, <1>v, <1>1, <1>2 DEF Undamaged, Undoable
<1>7. BufferBehind'
  <2> SUFFICES ASSUME itemsBuf # <<>> PROVE BufferBehind'
    BY <1>1, Zenon DEF BufferBehind
  <2> DEFINE pos == itemsBuf[1]
  <2>0. pos \in Nat
    BY Zenon DEF VecInv, ItemsTyped
  <2>1. itemsBuf' = itemsBuf /\ pos' = pos
    BY <1>1, Zenon
  <2>2. landsOnPopped(pos)' <=> size > 0 /\ pos < Sum[size]
    <3>1. popPending' <=> size > 0
      BY <1>1, <1>n, Zenon DEF popPending, countFlushed
    <3>2. sumSizes(sizes')[count'] = Sum[size]
      BY <1>1, Zenon DEF Sum
    <3>3. QED
      BY <2>1, <3>1, <3>2, Zenon DEF landsOnPopped
  <2>3. Sum[size] \in Nat /\ Sum[intact] \in Nat /\ Sum[intact] <= Sum[size]
    BY <1>n
  <2>4. ~(size > 0) => size = 0 /\ intact = 0
    BY <1>n
  <2>5. ~(size > 0 /\ pos < Sum[size]) => pos >= Sum[intact]
    BY <1>2, <2>0, <2>3, <2>4
  <2>6. pos >= Sum[0] /\ ~(size' > 0) /\ Len(undo') = intact
    BY <1>1, <1>2, <1>v, <2>0
  <2>7. QED
    BY <1>2, <2>1, <2>2, <2>5, <2>6, Zenon DEF BufferBehind
<1>8. QED
  BY <1>1, <1>3, <1>4, <1>5, <1>6, <1>7, Zenon DEF VecInv

(* close and open change no item.                                          *)
LEMMA ReopenKeeps ==
    ASSUME VecInv, reopen
    PROVE  VecInv' /\ Vec' = Vec /\ undo' = Vec
<1>1. /\ Vec \in Seq(Items) /\ Len(Vec) = intact
      /\ \A i \in 1 .. intact : HoldsAt(sizes, itemsFlushed, i, Vec[i])
  BY VecFacts, Zenon
<1>2. /\ sizes \in Sizes /\ size \in 0 .. Len(sizes) /\ intact <= size /\ countFlushed = size
      /\ itemsFlushed \in File
  BY Numbers
<1>3. open(itemsFlushed, size, sizes, Len(Vec))
  BY <1>1, <1>2, Zenon DEF reopen
<1>4. QED
  BY <1>1, <1>2, <1>3, OpenGives, Zenon

(* However much of the buffer is written, the items before it stay.        *)
LEMMA PartialFlush ==
    ASSUME VecInv, itemsBuf # <<>>, NEW m \in Nat, NEW w \in Seq(Items), Len(w) <= Len(sizes),
           \A i \in 1 .. Len(w) : HoldsAt(sizes, itemsFlushed, i, w[i]),
           Sum[Len(w)] <= itemsBuf[1],
           NEW f, f = IF m = 0 THEN itemsFile ELSE writeBytes(itemsFile, itemsBuf[1], itemsBuf[2], m)
    PROVE  f \in File /\ \A i \in 1 .. Len(w) : HoldsAt(sizes, f, i, w[i])
<1> DEFINE pos == itemsBuf[1]
           y == itemsBuf[2]
<1>1. pos \in Nat /\ y \in Items /\ Size[y] \in Nat /\ itemsFile \in File /\ sizes \in Sizes
  BY VectorAssumption, Zenon DEF VecInv, ItemsTyped, IndexAgrees
<1>2. itemsFlushed = writeBytes(itemsFile, pos, y, Size[y])
  BY Zenon DEF itemsFlushed, write
<1> HIDE DEF pos, y
<1>3. writeBytes(itemsFile, pos, y, m) \in File
  BY <1>1, WriteFacts, Zenon
<1>4. \A i \in 1 .. Len(w) : HoldsAt(sizes, itemsFile, i, w[i])
  <2> TAKE i \in 1 .. Len(w)
  <2>1. Len(sizes) \in Nat /\ Len(w) \in Nat
    BY <1>1 DEF Sizes
  <2>2. i \in 1 .. Len(sizes) /\ i \in 0 .. Len(sizes) /\ Len(w) \in 0 .. Len(sizes) /\ i <= Len(w)
    BY <2>1
  <2>3. Sum[i] <= Sum[Len(w)] /\ Sum[i] \in Nat /\ Sum[Len(w)] \in Nat
    BY <2>2, Numbers, Zenon
  <2>4. sumSizes(sizes)[i] <= pos
    BY <1>1, <2>3 DEF Sum, pos
  <2>5. HoldsAt(sizes, writeBytes(itemsFile, pos, y, Size[y]), i, w[i])
    BY <1>2, Zenon
  <2>6. QED
    BY <1>1, <2>2, <2>4, <2>5, WriteBehind, Zenon
<1>5. Sum[Len(w)] <= pos
  BY Zenon DEF pos
<1>6. \A i \in 1 .. Len(w) : HoldsAt(sizes, writeBytes(itemsFile, pos, y, m), i, w[i])
  BY <1>1, <1>4, <1>5, WriteKeepsAll, Zenon
<1>7. QED
  BY <1>1, <1>3, <1>4, <1>6, Zenon DEF pos, y

(* A crash between two operations undoes at most the last of them.         *)
LEMMA CrashUndoes ==
    ASSUME VecInv, crash
    PROVE  VecInv' /\ ((Vec' = Vec /\ undo' = Vec) \/ (Vec' = undo /\ undo' = undo))
<1>n. /\ sizes \in Sizes /\ Len(sizes) \in Nat /\ size \in Nat /\ size <= Len(sizes)
      /\ intact \in 0 .. size /\ count \in 0 .. Len(sizes) /\ Len(undo) \in 0 .. count
      /\ \A i \in 0 .. Len(sizes) : Sum[i] \in Nat
      /\ \A i, j \in 0 .. Len(sizes) : i <= j => Sum[i] <= Sum[j]
      /\ countFlushed = size
  BY Numbers, Zenon
<1>v. /\ Vec \in Seq(Items) /\ Len(Vec) = intact
      /\ \A i \in 1 .. intact : HoldsAt(sizes, itemsFlushed, i, Vec[i])
  BY VecFacts, Zenon
<1>u. undo \in Seq(Items) /\ \A i \in 1 .. Len(undo) : HoldsAt(sizes, itemsFlushed, i, undo[i])
  BY Zenon DEF VecInv, Undoable
<1>1. PICK m \in 0 .. (IF itemsBuf = <<>> THEN 0 ELSE Size[itemsBuf[2]]) :
        open(IF m = 0 THEN itemsFile ELSE writeBytes(itemsFile, itemsBuf[1], itemsBuf[2], m),
             count, sizes,
             IF itemsBuf # <<>> /\ landsOnPopped(itemsBuf[1]) THEN intact ELSE Len(undo))
  BY Zenon DEF crash
<1> DEFINE f == IF m = 0 THEN itemsFile ELSE writeBytes(itemsFile, itemsBuf[1], itemsBuf[2], m)
<1>2. CASE itemsBuf = <<>>
  <2>1. f = itemsFlushed /\ open(f, count, sizes, Len(undo))
    <3>1. m = 0
      BY <1>1, <1>2
    <3>2. QED
      BY <1>1, <1>2, <3>1, Zenon DEF itemsFlushed
  <2>2. f \in File
    BY <2>1, Numbers, Zenon
  <2> HIDE DEF f
  <2>3. QED
    BY <1>n, <1>u, <2>1, <2>2, OpenGives
<1>3. CASE itemsBuf # <<>>
  <2>0. m \in Nat
    BY <1>3, VectorAssumption DEF VecInv, ItemsTyped
  <2>1. CASE landsOnPopped(itemsBuf[1])
    <3>1. open(f, count, sizes, Len(Vec))
      BY <1>1, <1>3, <1>v, <2>1, Zenon
    <3>2. count > size
      BY <1>n, <2>1, Zenon DEF landsOnPopped, popPending
    <3>3. Sum[size] <= itemsBuf[1] /\ itemsBuf[1] \in Nat
      BY <1>3, <1>n, <2>1, Zenon DEF VecInv, BufferBehind, ItemsTyped
    <3>4. Sum[Len(Vec)] <= itemsBuf[1] /\ Len(Vec) <= Len(sizes) /\ Len(Vec) <= count
      <4>1. Sum[intact] <= Sum[size] /\ Sum[intact] \in Nat /\ Sum[size] \in Nat
        BY <1>n, SMTT(40)
      <4>2. QED
        BY <1>n, <1>v, <3>2, <3>3, <4>1
    <3>5. \A i \in 1 .. Len(Vec) : HoldsAt(sizes, itemsFlushed, i, Vec[i])
      BY <1>v, Zenon
    <3>6. f \in File /\ \A i \in 1 .. Len(Vec) : HoldsAt(sizes, f, i, Vec[i])
      BY <1>3, <1>v, <2>0, <3>4, <3>5, PartialFlush, Zenon
    <3> HIDE DEF f
    <3>7. QED
      BY <1>n, <1>v, <3>1, <3>4, <3>6, OpenGives, Zenon
  <2>2. CASE ~landsOnPopped(itemsBuf[1])
    <3>1. open(f, count, sizes, Len(undo))
      BY <1>1, <2>2, Zenon
    <3>2. itemsBuf[1] >= Sum[Len(undo)] /\ itemsBuf[1] \in Nat
      BY <1>3, <2>2, Zenon DEF VecInv, BufferBehind, ItemsTyped
    <3>3. Sum[Len(undo)] <= itemsBuf[1] /\ Len(undo) <= Len(sizes) /\ Len(undo) <= count
      <4>1. Sum[Len(undo)] \in Nat
        BY <1>n, SMTT(40)
      <4>2. QED
        BY <1>n, <3>2, <4>1
    <3>4. f \in File /\ \A i \in 1 .. Len(undo) : HoldsAt(sizes, f, i, undo[i])
      BY <1>3, <1>u, <2>0, <3>3, PartialFlush, Zenon
    <3> HIDE DEF f
    <3>5. QED
      BY <1>n, <1>u, <3>1, <3>3, <3>4, OpenGives, Zenon
  <2>3. QED
    BY <2>1, <2>2, Zenon
<1>4. QED
  BY <1>2, <1>3, Zenon

(* A crash in push_back: the item being written is behind the others.      *)
LEMMA CrashInPushUndoes ==
    ASSUME VecInv, NEW x \in Items, crashInPush(x)
    PROVE  VecInv' /\ ((Vec' = Vec /\ undo' = Vec) \/ (Vec' = undo /\ undo' = undo))
<1>n. /\ sizes \in Sizes /\ Len(sizes) \in Nat /\ size \in Nat /\ size <= Len(sizes)
      /\ intact \in 0 .. size /\ count \in 0 .. Len(sizes) /\ Len(undo) \in 0 .. count
      /\ \A i \in 0 .. Len(sizes) : Sum[i] \in Nat
      /\ \A i, j \in 0 .. Len(sizes) : i <= j => Sum[i] <= Sum[j]
      /\ countFlushed = size /\ itemsFileSize = Sum[size] /\ itemsFlushed \in File
  BY Numbers, Zenon
<1>v. /\ Vec \in Seq(Items) /\ Len(Vec) = intact
      /\ \A i \in 1 .. Len(Vec) : HoldsAt(sizes, itemsFlushed, i, Vec[i])
  BY VecFacts, Zenon
<1>u. undo \in Seq(Items) /\ \A i \in 1 .. Len(undo) : HoldsAt(sizes, itemsFlushed, i, undo[i])
  BY Zenon DEF VecInv, Undoable
<1>1. PICK m \in 0 .. Size[x], c \in {count, size} :
          open(writeBytes(itemsFlushed, Sum[size], x, m), c, sizes,
               IF c = size \/ landsOnPopped(Sum[size]) THEN intact ELSE Len(undo))
  BY <1>n, Zenon DEF crashInPush
<1> DEFINE f == writeBytes(itemsFlushed, Sum[size], x, m)
<1>2. m \in Nat /\ Sum[size] \in Nat /\ c \in 0 .. Len(sizes)
  BY <1>n, VectorAssumption, SMTT(40)
<1>3. f \in File
  BY <1>n, <1>2, WriteFacts, Zenon
<1>4. CASE c = size \/ landsOnPopped(Sum[size])
  <2>1. Len(Vec) <= c /\ Len(Vec) <= Len(sizes) /\ Sum[Len(Vec)] <= Sum[size]
    <3>1. landsOnPopped(Sum[size]) => count > size
      BY <1>n, Zenon DEF landsOnPopped, popPending
    <3>2. QED
      BY <1>n, <1>v, <1>4, <3>1
  <2>2. \A i \in 1 .. Len(Vec) : HoldsAt(sizes, f, i, Vec[i])
    BY <1>n, <1>v, <1>2, <2>1, WriteKeepsAll, ZenonT(60)
  <2>3. open(f, c, sizes, Len(Vec))
    BY <1>1, <1>4, <1>v, Zenon
  <2> HIDE DEF f
  <2>4. QED
    BY <1>n, <1>v, <1>2, <1>3, <2>1, <2>2, <2>3, OpenGives, Zenon
<1>5. CASE ~(c = size \/ landsOnPopped(Sum[size]))
  <2>1. c = count /\ count < size
    <3>1. c = count /\ count # size
      BY <1>5, Zenon
    <3>2. count > size => Sum[size] < sumSizes(sizes)[count]
      <4>1. size \in 0 .. Len(sizes) /\ count \in 0 .. Len(sizes)
        BY <1>n
      <4>2. QED
        BY <1>n, <4>1, SumGrows, Zenon DEF Sum
    <3>3. ~(count > size)
      BY <1>n, <1>5, <3>2, Zenon DEF landsOnPopped, popPending
    <3>4. QED
      BY <1>n, <3>1, <3>3
  <2>2. Len(undo) <= c /\ Len(undo) <= Len(sizes) /\ Sum[Len(undo)] <= Sum[size]
    BY <1>n, <2>1, SMTT(40)
  <2>3. \A i \in 1 .. Len(undo) : HoldsAt(sizes, f, i, undo[i])
    BY <1>n, <1>u, <1>2, <2>2, WriteKeepsAll, Zenon
  <2>4. open(f, c, sizes, Len(undo))
    BY <1>1, <1>5, Zenon
  <2> HIDE DEF f
  <2>5. QED
    BY <1>n, <1>u, <1>2, <1>3, <2>2, <2>3, <2>4, OpenGives, Zenon
<1>6. QED
  BY <1>4, <1>5, Zenon

-----------------------------------------------------------------------------
(* The loop of rebuildBlocks.                                              *)

(* Round i of the loop, after the rounds with result r.                    *)
round(i, r) ==
    LET f == r.file
        x == IF i \in DOMAIN items THEN items[i] ELSE parse(f, offsets[i])
    IN  IF r.ok /\ x # Garbage
        THEN [file |-> write(f, offsets[i], Rebuilt[x]), ok |-> TRUE]
        ELSE [file |-> f, ok |-> FALSE]

started == [file |-> itemsFile, ok |-> TRUE]

IsLoop(g, n) == g = [i \in 0 .. n |-> IF i = 0 THEN started ELSE round(i, g[i - 1])]

(* The recursion has a solution, by a longest partial one.                 *)
LEMMA LoopExists ==
    ASSUME NEW n \in Nat
    PROVE  \E g : IsLoop(g, n)
<1> DEFINE S == {k \in Nat : ~\E g : IsLoop(g, k)}
<1>1. SUFFICES ASSUME S # {} PROVE FALSE
  BY Zenon
<1>2. PICK k \in S : \A j \in S : k <= j
  BY <1>1, LeastNumber, Zenon
<1>3. k \in Nat /\ ~\E g : IsLoop(g, k)
  BY <1>2, Zenon
<1>4. CASE k = 0
  <2> DEFINE g == [i \in 0 .. 0 |-> started]
  <2>1. IsLoop(g, 0)
    BY DEF IsLoop
  <2>2. QED
    BY <1>3, <1>4, <2>1, Zenon
<1>5. CASE k # 0
  <2>1. k - 1 \in Nat /\ k - 1 \notin S
    BY <1>2, <1>3, <1>5
  <2>2. PICK f : IsLoop(f, k - 1)
    BY <2>1, Zenon
  <2> DEFINE g == [i \in 0 .. k |-> IF i = k THEN round(k, f[k - 1]) ELSE f[i]]
  <2>3. \A i \in 0 .. k - 1 : f[i] = IF i = 0 THEN started ELSE round(i, f[i - 1])
    BY <2>2, <1>3, Zenon DEF IsLoop
  <2>4. \A i \in 0 .. k : g[i] = IF i = 0 THEN started ELSE round(i, g[i - 1])
    <3> TAKE i \in 0 .. k
    <3>1. CASE i = k
      <4>1. k - 1 \in 0 .. k /\ k - 1 # k /\ k \in 0 .. k
        BY <1>3, <1>5
      <4>2. g[k] = round(k, f[k - 1]) /\ g[k - 1] = f[k - 1]
        BY <4>1, Zenon
      <4>3. QED
        BY <3>1, <1>5, <4>2, Zenon
    <3>2. CASE i # k
      <4>1. i \in 0 .. k - 1 /\ (i # 0 => i - 1 \in 0 .. k /\ i - 1 # k)
        BY <1>3, <3>2
      <4>2. g[i] = f[i] /\ (i # 0 => g[i - 1] = f[i - 1])
        BY <4>1, <3>2, Zenon
      <4>3. f[i] = IF i = 0 THEN started ELSE round(i, f[i - 1])
        BY <2>3, <4>1, Zenon
      <4>4. QED
        BY <4>2, <4>3, Zenon
    <3>3. QED
      BY <3>1, <3>2, Zenon
  <2>5. DOMAIN g = 0 .. k /\ g = [i \in 0 .. k |-> g[i]]
    BY Zenon
  <2> HIDE DEF g
  <2>6. IsLoop(g, k)
    BY <2>4, <2>5, Zenon DEF IsLoop
  <2>7. QED
    BY <1>3, <2>6, Zenon
<1>6. QED
  BY <1>4, <1>5, Zenon

(* What item j is after i rounds.                                          *)
RebuiltItem(i, j) == IF j <= i THEN Rebuilt[Vec[j]] ELSE Vec[j]

RebuiltFile(f, i) == f \in File /\ \A j \in 1 .. intact : HoldsAt(sizes, f, j, RebuiltItem(i, j))

(* replace writes over its own item only.                                  *)
LEMMA ReplaceOne ==
    ASSUME VecInv, NEW i \in 1 .. intact, NEW f, RebuiltFile(f, i - 1)
    PROVE  RebuiltFile(write(f, Sum[i - 1], Rebuilt[Vec[i]]), i)
<1> DEFINE y == Rebuilt[Vec[i]]
           g == write(f, Sum[i - 1], y)
<1>n. /\ sizes \in Sizes /\ Len(sizes) \in Nat /\ size \in Nat /\ size <= Len(sizes)
      /\ intact \in 0 .. size
      /\ \A k \in 0 .. Len(sizes) : Sum[k] \in Nat
      /\ \A k, j \in 0 .. Len(sizes) : k <= j => Sum[k] <= Sum[j]
  BY Numbers, Zenon
<1>1. /\ Vec[i] \in Items /\ y \in Items /\ Size[y] \in Nat /\ Size[Vec[i]] \in Nat
      /\ Size[y] <= Size[Vec[i]] /\ Size[Vec[i]] <= sizes[i] /\ sizes[i] \in Nat
  <2>1. Vec[i] \in Items /\ HoldsAt(sizes, itemsFlushed, i, Vec[i])
    BY VecFacts, Zenon
  <2>2. i \in 1 .. Len(sizes)
    BY <1>n
  <2>3. QED
    BY <1>n, <2>1, <2>2, VectorAssumption, ReplaceAssumption DEF HoldsAt, Sizes
<1>2. i \in 1 .. Len(sizes) /\ i - 1 \in 0 .. Len(sizes) /\ i \in 0 .. Len(sizes) /\ Sum[i - 1] \in Nat
  BY <1>n
<1>3. Sum[i] = Sum[i - 1] + sizes[i]
  BY <1>n, <1>2, SumSteps, Zenon DEF Sum
<1>4. f \in File
  BY Zenon DEF RebuiltFile
<1> HIDE DEF y
<1>5. g \in File
  BY <1>1, <1>2, <1>4, WriteFacts, Zenon DEF write
<1>6. ASSUME NEW j \in 1 .. intact PROVE HoldsAt(sizes, g, j, RebuiltItem(i, j))
  <2>1. /\ j \in 1 .. Len(sizes) /\ j \in 0 .. Len(sizes) /\ j - 1 \in 0 .. Len(sizes)
        /\ (j < i \/ j = i \/ j > i)
    BY <1>n
  <2>2. HoldsAt(sizes, f, j, RebuiltItem(i - 1, j))
    BY Zenon DEF RebuiltFile
  <2>3. CASE j = i
    <3>1. RebuiltItem(i, j) = y
      BY <1>n, <2>3 DEF RebuiltItem, y
    <3>2. Size[y] <= sizes[i]
      BY <1>1, SMTT(40)
    <3>3. HoldsAt(sizes, g, i, y)
      BY <1>n, <1>1, <1>2, <1>4, <3>2, WriteHolds, Zenon DEF Sum
    <3>4. QED
      BY <2>3, <3>1, <3>3, Zenon
  <2>4. CASE j < i
    <3>1. RebuiltItem(i, j) = RebuiltItem(i - 1, j)
      BY <1>n, <2>4 DEF RebuiltItem
    <3>2. j <= i - 1
      BY <1>n, <2>4
    <3>3. sumSizes(sizes)[j] <= Sum[i - 1]
      BY <1>n, <1>2, <2>1, <3>2, Zenon DEF Sum
    <3>4. HoldsAt(sizes, g, j, RebuiltItem(i - 1, j))
      BY <1>n, <1>1, <1>2, <1>4, <2>1, <2>2, <3>3, WriteKeeps, ZenonT(60) DEF write
    <3>5. QED
      BY <3>1, <3>4, Zenon
  <2>5. CASE j > i
    <3>1. RebuiltItem(i, j) = RebuiltItem(i - 1, j)
      BY <1>n, <2>5 DEF RebuiltItem
    <3>2. i <= j - 1
      BY <1>n, <2>5
    <3>3. Sum[i] <= Sum[j - 1] /\ Sum[j - 1] \in Nat
      BY <1>n, <1>2, <2>1, <3>2, Zenon
    <3>4. Sum[i - 1] + Size[y] <= Sum[j - 1]
      BY <1>1, <1>2, <1>3, <3>3, SMTT(40)
    <3>5. Sum[i - 1] + Size[y] <= sumSizes(sizes)[j - 1]
      BY <3>4, Zenon DEF Sum
    <3>6. HoldsAt(sizes, g, j, RebuiltItem(i - 1, j))
      BY <1>n, <1>1, <1>2, <1>4, <2>1, <2>2, <3>5, WriteKeeps, Zenon DEF write
    <3>7. QED
      BY <3>1, <3>6, Zenon
  <2>6. QED
    BY <2>1, <2>3, <2>4, <2>5, Zenon
<1>7. QED
  BY <1>5, <1>6, Zenon DEF RebuiltFile, y

(* A round rebuilds its item, or, behind the undamaged ones, none of them. *)
LEMMA RoundRebuilds ==
    ASSUME VecInv, NEW i \in 1 .. size, NEW r, RebuiltFile(r.file, i - 1), i <= intact => r.ok
    PROVE  RebuiltFile(round(i, r).file, i) /\ (i <= intact => round(i, r).ok)
<1> DEFINE f == r.file
           x == IF i \in DOMAIN items THEN items[i] ELSE parse(f, offsets[i])
<1>n. /\ sizes \in Sizes /\ Len(sizes) \in Nat /\ size \in Nat /\ size <= Len(sizes)
      /\ intact \in 0 .. size
      /\ \A k \in 0 .. Len(sizes) : Sum[k] \in Nat
      /\ \A k, j \in 0 .. Len(sizes) : k <= j => Sum[k] <= Sum[j]
  BY Numbers, Zenon
<1>1. round(i, r) = IF r.ok /\ x # Garbage
                    THEN [file |-> write(f, offsets[i], Rebuilt[x]), ok |-> TRUE]
                    ELSE [file |-> f, ok |-> FALSE]
  BY Zenon DEF round
<1>2. offsets[i] = Sum[i - 1]
  BY Zenon DEF VecInv, IndexAgrees
<1>3. x \in Items \cup {Garbage}
  BY ParseType, Zenon DEF VecInv, ItemsTyped
<1>4. RebuiltFile(f, i - 1)
  BY Zenon
<1>5. CASE i <= intact
  <2>1. i \in 1 .. intact
    BY <1>n, <1>5
  <2>2. x = Vec[i]
    <3>1. Vec[i] = lookup(i)
      BY <2>1, VecFacts, Zenon
    <3>2. CASE i \in DOMAIN items
      BY <3>1, <3>2, Zenon DEF lookup
    <3>3. CASE i \notin DOMAIN items
      <4>1. HoldsAt(sizes, f, i, RebuiltItem(i - 1, i))
        BY <1>4, <2>1, Zenon DEF RebuiltFile
      <4>2. RebuiltItem(i - 1, i) = Vec[i]
        BY <1>n DEF RebuiltItem
      <4>3. Vec[i] \in Items /\ IsAt(f, Sum[i - 1], Vec[i])
        BY <4>1, <4>2, Zenon DEF HoldsAt, Sum
      <4>4. parse(f, Sum[i - 1]) = Vec[i]
        BY <4>3, ParseIs, Zenon
      <4>5. QED
        BY <1>2, <3>3, <4>4, Zenon
    <3>4. QED
      BY <3>2, <3>3, Zenon
  <2>3. Vec[i] \in Items
    BY <2>1, VecFacts, Zenon
  <2>4. Vec[i] # Garbage
    BY <2>3, VectorAssumption, Zenon
  <2> HIDE DEF x, f
  <2>5. round(i, r) = [file |-> write(f, Sum[i - 1], Rebuilt[Vec[i]]), ok |-> TRUE]
    BY <1>1, <1>2, <1>5, <2>2, <2>4, Zenon
  <2>6. RebuiltFile(write(f, Sum[i - 1], Rebuilt[Vec[i]]), i)
    BY <1>4, <2>1, ReplaceOne, Zenon
  <2>7. QED
    BY <2>5, <2>6
<1>6. CASE ~(i <= intact)
  <2>1. \A j \in 1 .. intact : RebuiltItem(i, j) = RebuiltItem(i - 1, j)
    BY <1>n, <1>6 DEF RebuiltItem
  <2>2. \A g : RebuiltFile(g, i - 1) => RebuiltFile(g, i)
    BY <2>1, Zenon DEF RebuiltFile
  <2> HIDE DEF x, f
  <2>3. CASE ~(r.ok /\ x # Garbage)
    <3>1. round(i, r).file = f
      BY <1>1, <2>3, SMTT(40)
    <3>2. QED
      BY <1>4, <1>6, <2>2, <3>1, Zenon
  <2>4. CASE r.ok /\ x # Garbage
    <3> DEFINE y == Rebuilt[x]
               g == write(f, Sum[i - 1], y)
    <3>1. y \in Items /\ Size[y] \in Nat
      BY <1>3, <2>4, VectorAssumption, Zenon
    <3>2. round(i, r).file = g
      BY <1>1, <1>2, <2>4
    <3>3. f \in File /\ Sum[i - 1] \in Nat /\ i - 1 \in 0 .. Len(sizes)
      BY <1>n, <1>4 DEF RebuiltFile
    <3> HIDE DEF y
    <3>4. g \in File
      BY <3>1, <3>3, WriteFacts, Zenon DEF write
    <3>5. ASSUME NEW j \in 1 .. intact PROVE HoldsAt(sizes, g, j, RebuiltItem(i - 1, j))
      <4>1. j \in 1 .. Len(sizes) /\ j \in 0 .. Len(sizes) /\ j <= i - 1
        BY <1>n, <1>6
      <4>2. sumSizes(sizes)[j] <= Sum[i - 1]
        BY <1>n, <3>3, <4>1, Zenon DEF Sum
      <4>3. HoldsAt(sizes, f, j, RebuiltItem(i - 1, j))
        BY <1>4, Zenon DEF RebuiltFile
      <4>4. QED
        BY <1>n, <3>1, <3>3, <4>1, <4>2, <4>3, WriteKeeps, Zenon DEF write
    <3>6. RebuiltFile(g, i)
      BY <2>2, <3>4, <3>5, Zenon DEF RebuiltFile
    <3>7. QED
      BY <1>6, <3>2, <3>6, Zenon
  <2>5. QED
    BY <2>3, <2>4, Zenon
<1>7. QED
  BY <1>5, <1>6, Zenon

(* n rounds rebuild the first n undamaged items.                           *)
LEMMA ReplacedRebuilds ==
    ASSUME VecInv, opened, NEW n \in 0 .. size
    PROVE  RebuiltFile(replaced(n), n)
<1>n. size \in Nat /\ intact \in 0 .. size /\ n \in Nat
  BY Numbers
<1> DEFINE loop == CHOOSE g : g = [i \in 0 .. n |-> IF i = 0 THEN started ELSE round(i, g[i - 1])]
<1>1. replaced(n) = loop[n].file
  BY Zenon DEF replaced, round, started
<1>2. IsLoop(loop, n)
  <2>1. \E g : g = [i \in 0 .. n |-> IF i = 0 THEN started ELSE round(i, g[i - 1])]
    BY <1>n, LoopExists, ZenonT(60) DEF IsLoop
  <2>2. QED
    BY <2>1, Zenon DEF IsLoop
<1> HIDE DEF loop
<1>3. loop[0] = started /\ \A i \in 1 .. n : loop[i] = round(i, loop[i - 1])
  <2>1. \A i \in 0 .. n : loop[i] = IF i = 0 THEN started ELSE round(i, loop[i - 1])
    BY <1>2, Zenon DEF IsLoop
  <2>2. 0 \in 0 .. n /\ \A i \in 1 .. n : i \in 0 .. n /\ i # 0
    BY <1>n
  <2>3. QED
    BY <2>1, <2>2, Zenon
<1> DEFINE P(i) == RebuiltFile(loop[i].file, i) /\ (i <= intact => loop[i].ok)
           S == {k \in Nat : k <= n /\ ~P(k)}
<1>4. SUFFICES ASSUME S # {} PROVE FALSE
  BY <1>1, <1>n
<1>5. PICK k \in S : \A j \in S : k <= j
  BY <1>4, LeastNumber, Zenon
<1>6. k \in Nat /\ k <= n /\ ~P(k)
  BY <1>5, Zenon
<1>7. P(0)
  <2>1. loop[0].file = itemsFlushed /\ loop[0].ok
    BY <1>3 DEF started, opened, itemsFlushed
  <2>2. \A j \in 1 .. intact : RebuiltItem(0, j) = Vec[j]
    BY <1>n DEF RebuiltItem
  <2>3. RebuiltFile(itemsFlushed, 0)
    BY <2>2, Numbers, VecFacts, Zenon DEF RebuiltFile
  <2>4. QED
    BY <2>1, <2>3, Zenon
<1>8. k # 0
  BY <1>6, <1>7, Zenon
<1>9. k - 1 \in Nat /\ k - 1 \notin S /\ k \in 1 .. n /\ k \in 1 .. size
  BY <1>n, <1>5, <1>6, <1>8
<1>10. P(k - 1)
  BY <1>n, <1>6, <1>9
<1>11. k <= intact => loop[k - 1].ok
  BY <1>n, <1>6, <1>9, <1>10
<1>12. P(k)
  <2>1. loop[k] = round(k, loop[k - 1])
    BY <1>3, <1>9, Zenon
  <2>2. RebuiltFile(loop[k - 1].file, k - 1)
    BY <1>10, Zenon
  <2>3. RebuiltFile(round(k, loop[k - 1]).file, k) /\ (k <= intact => round(k, loop[k - 1]).ok)
    BY <1>9, <1>11, <2>2, RoundRebuilds, Zenon
  <2>4. QED
    BY <2>1, <2>3, Zenon
<1>13. QED
  BY <1>6, <1>12, Zenon

(* The items after n rounds.                                               *)
RebuiltVec(n) == [j \in 1 .. intact |-> RebuiltItem(n, j)]

(* They are items.                                                         *)
LEMMA RebuiltVecFacts ==
    ASSUME VecInv, NEW n
    PROVE  /\ RebuiltVec(n) \in Seq(Items) /\ Len(RebuiltVec(n)) = intact
           /\ \A j \in 1 .. intact : RebuiltVec(n)[j] = RebuiltItem(n, j)
<1>1. intact \in Nat /\ \A j \in 1 .. intact : Vec[j] \in Items
  BY VecFacts, Zenon
<1>2. \A j \in 1 .. intact : RebuiltItem(n, j) \in Items
  BY <1>1, VectorAssumption, Zenon DEF RebuiltItem
<1>3. RebuiltVec(n) \in [1 .. intact -> Items]
  BY <1>2, Zenon DEF RebuiltVec
<1>4. \A j \in 1 .. intact : RebuiltVec(n)[j] = RebuiltItem(n, j)
  BY Zenon DEF RebuiltVec
<1>5. QED
  BY <1>1, <1>3, <1>4

(* rebuildBlocks leaves the first n items rebuilt and the others alone.    *)
LEMMA RebuildRebuilds ==
    ASSUME VecInv, NEW n \in 0 .. size, rebuildBlocks(n)
    PROVE  VecInv' /\ Vec' = RebuiltVec(n) /\ undo' = RebuiltVec(n)
<1>n. sizes \in Sizes /\ intact \in 0 .. size /\ count \in 0 .. Len(sizes) /\ countFlushed = size
  BY Numbers, Zenon
<1>1. opened /\ open(replaced(n), count, sizes, intact)
  BY Zenon DEF rebuildBlocks
<1>2. count = size
  BY <1>n, <1>1, Zenon DEF opened, countFlushed
<1>3. RebuiltFile(replaced(n), n)
  BY <1>1, ReplacedRebuilds, Zenon
<1> DEFINE w == RebuiltVec(n)
<1>4. w \in Seq(Items) /\ Len(w) = intact /\ \A j \in 1 .. intact : w[j] = RebuiltItem(n, j)
  BY RebuiltVecFacts, Zenon
<1> HIDE DEF w
<1>5. replaced(n) \in File /\ \A j \in 1 .. Len(w) : HoldsAt(sizes, replaced(n), j, w[j])
  BY <1>3, <1>4, Zenon DEF RebuiltFile
<1>6. Len(w) <= count /\ open(replaced(n), count, sizes, Len(w))
  BY <1>n, <1>1, <1>2, <1>4
<1>7. VecInv' /\ Vec' = w /\ undo' = w
  BY <1>n, <1>4, <1>5, <1>6, OpenGives, Zenon
<1>8. QED
  BY <1>7, Zenon DEF w

(* A crash in rebuildBlocks damages at most the item being written: those  *)
(* before it are rebuilt.                                                  *)
LEMMA CrashInRebuildKeeps ==
    ASSUME VecInv, NEW n \in 1 .. size, crashInRebuild(n)
    PROVE  /\ VecInv' /\ n <= intact /\ undo' = Vec'
           /\ Vec' = RebuiltVec(n) \/ Vec' = SubSeq(RebuiltVec(n - 1), 1, n - 1)
<1>n. /\ sizes \in Sizes /\ Len(sizes) \in Nat /\ size \in Nat /\ size <= Len(sizes)
      /\ intact \in 0 .. size /\ count \in 0 .. Len(sizes) /\ countFlushed = size
      /\ \A k \in 0 .. Len(sizes) : Sum[k] \in Nat
  BY Numbers, Zenon
<1> DEFINE y == Rebuilt[lookup(n)]
           f == replaced(n - 1)
           g(m) == writeBytes(f, offsets[n], y, m)
<1>1. PICK m \in 1 .. Size[y] : open(g(m), count, sizes, IF m = Size[y] THEN intact ELSE n - 1)
  BY Zenon DEF crashInRebuild
<1>2. opened /\ n <= intact
  BY Zenon DEF crashInRebuild
<1>3. count = size /\ n \in 1 .. intact /\ n - 1 \in 0 .. size /\ n - 1 \in Nat
  BY <1>n, <1>2 DEF opened, countFlushed
<1>4. offsets[n] = Sum[n - 1] /\ Sum[n - 1] \in Nat
  BY <1>n, <1>3, SMTT(40) DEF VecInv, IndexAgrees
<1>5. y = Rebuilt[Vec[n]] /\ y \in Items /\ Size[y] \in Nat /\ m \in Nat
  BY <1>1, <1>3, VecFacts, VectorAssumption
<1>6. RebuiltFile(f, n - 1)
  BY <1>2, <1>3, ReplacedRebuilds, Zenon
<1> HIDE DEF y, f
<1>7. CASE m = Size[y]
  <2> DEFINE h == write(f, Sum[n - 1], Rebuilt[Vec[n]])
             w == RebuiltVec(n)
  <2>1. RebuiltFile(h, n)
    BY <1>3, <1>6, ReplaceOne, Zenon
  <2>2. open(h, count, sizes, intact)
    BY <1>1, <1>4, <1>5, <1>7, Zenon DEF write
  <2>3. w \in Seq(Items) /\ Len(w) = intact /\ \A j \in 1 .. intact : w[j] = RebuiltItem(n, j)
    BY RebuiltVecFacts, Zenon
  <2> HIDE DEF w, h
  <2>4. h \in File /\ \A j \in 1 .. Len(w) : HoldsAt(sizes, h, j, w[j])
    BY <2>1, <2>3, Zenon DEF RebuiltFile
  <2>5. Len(w) <= count /\ open(h, count, sizes, Len(w))
    BY <1>n, <1>3, <2>2, <2>3
  <2>6. VecInv' /\ Vec' = w /\ undo' = w
    BY <1>n, <2>3, <2>4, <2>5, OpenGives, Zenon
  <2>7. QED
    BY <1>2, <2>6, Zenon DEF w
<1>8. CASE m # Size[y]
  <2> DEFINE h == writeBytes(f, Sum[n - 1], y, m)
             u == RebuiltVec(n - 1)
             w == SubSeq(u, 1, n - 1)
  <2>1. open(h, count, sizes, n - 1)
    BY <1>1, <1>4, <1>8, Zenon
  <2>2. u \in Seq(Items) /\ Len(u) = intact /\ \A j \in 1 .. intact : u[j] = RebuiltItem(n - 1, j)
    BY RebuiltVecFacts, Zenon
  <2> HIDE DEF u
  <2>3. w \in Seq(Items) /\ Len(w) = n - 1 /\ \A j \in 1 .. n - 1 : w[j] = u[j] /\ j \in 1 .. intact
    BY <1>n, <1>3, <2>2
  <2> HIDE DEF w
  <2>4. f \in File /\ \A j \in 1 .. Len(w) : HoldsAt(sizes, f, j, w[j])
    BY <1>6, <2>2, <2>3, Zenon DEF RebuiltFile
  <2>5. Len(w) <= Len(sizes) /\ Len(w) <= count /\ Sum[Len(w)] <= Sum[n - 1]
    BY <1>n, <1>3, <1>4, <2>3, SMTT(40)
  <2>6. h \in File
    BY <1>4, <1>5, <2>4, WriteFacts, Zenon
  <2>7. \A j \in 1 .. Len(w) : HoldsAt(sizes, h, j, w[j])
    BY <1>n, <1>4, <1>5, <2>3, <2>4, <2>5, WriteKeepsAll, Zenon
  <2> HIDE DEF h
  <2>8. open(h, count, sizes, Len(w))
    BY <2>1, <2>3, Zenon
  <2>9. VecInv' /\ Vec' = w /\ undo' = w
    BY <1>n, <2>3, <2>5, <2>6, <2>7, <2>8, OpenGives, Zenon
  <2>10. QED
    BY <1>2, <2>9, Zenon DEF w, u
<1>9. QED
  BY <1>7, <1>8, Zenon

-----------------------------------------------------------------------------
(* Every step of SwappedVector keeps the invariant, and is a step of       *)
(* DurableVector or changes neither the vector nor what can be undone.     *)
LEMMA VectorSteps ==
    ASSUME VecInv, [VectorNext]_vectorVars
    PROVE  VecInv' /\ [Vector!Next]_<<Vec, undo>>
<1>v. Vec \in Seq(Items) /\ Len(Vec) = intact /\ intact \in 0 .. size /\ size \in Nat
  BY VecFacts, Numbers, Zenon
<1>r. \A n : RebuiltVec(n) = Vector!RebuiltTo(n)
  BY <1>v, Zenon DEF RebuiltVec, RebuiltItem, Vector!RebuiltTo
<1>1. ASSUME NEW i \in 1 .. size, get(i) PROVE VecInv' /\ [Vector!Next]_<<Vec, undo>>
  BY <1>1, GetKeeps, Zenon
<1>2. ASSUME NEW x \in Items, push_back(x) PROVE VecInv' /\ [Vector!Next]_<<Vec, undo>>
  <2>1. /\ VecInv' /\ undo' = Vec
        /\ Vec' = IF intact = size THEN Append(Vec, x) ELSE Vec
    BY <1>2, PushAppends, Zenon
  <2>2. Vector!Push(x) \/ Vector!Reopen
    BY <2>1, Zenon DEF Vector!Push, Vector!Reopen
  <2>3. QED
    BY <2>1, <2>2, Zenon DEF Vector!Next
<1>3. ASSUME pop_back PROVE VecInv' /\ [Vector!Next]_<<Vec, undo>>
  <2>1. /\ VecInv' /\ undo' = Vec
        /\ Vec' = IF intact = size THEN SubSeq(Vec, 1, Len(Vec) - 1) ELSE Vec
        /\ intact = size => Vec # <<>>
    BY <1>3, PopRemoves, Zenon
  <2>2. Vector!Pop \/ Vector!Reopen
    BY <2>1, Zenon DEF Vector!Pop, Vector!Reopen
  <2>3. QED
    BY <2>1, <2>2, Zenon DEF Vector!Next
<1>4. ASSUME clear PROVE VecInv' /\ [Vector!Next]_<<Vec, undo>>
  <2>1. VecInv' /\ Vector!Clear
    BY <1>4, ClearEmpties, Zenon DEF Vector!Clear
  <2>2. QED
    BY <2>1, Zenon DEF Vector!Next
<1>5. ASSUME reopen PROVE VecInv' /\ [Vector!Next]_<<Vec, undo>>
  <2>1. VecInv' /\ Vector!Reopen
    BY <1>5, ReopenKeeps, Zenon DEF Vector!Reopen
  <2>2. QED
    BY <2>1, Zenon DEF Vector!Next
<1>6. ASSUME NEW n \in 0 .. size, rebuildBlocks(n) PROVE VecInv' /\ [Vector!Next]_<<Vec, undo>>
  <2> DEFINE k == IF n <= intact THEN n ELSE intact
  <2>1. VecInv' /\ Vec' = RebuiltVec(n) /\ undo' = RebuiltVec(n)
    BY <1>6, RebuildRebuilds, Zenon
  <2>2. k \in 0 .. Len(Vec)
    BY <1>v
  <2>3. RebuiltVec(n) = RebuiltVec(k)
    <3>1. \A j \in 1 .. intact : j <= n <=> j <= k
      BY <1>v
    <3>2. \A j \in 1 .. intact : RebuiltItem(n, j) = RebuiltItem(k, j)
      BY <3>1, Zenon DEF RebuiltItem
    <3>3. QED
      BY <3>2, Zenon DEF RebuiltVec
  <2> HIDE DEF k
  <2>4. Vector!Rebuild(k)
    BY <1>r, <2>1, <2>3, Zenon DEF Vector!Rebuild
  <2>5. QED
    BY <2>1, <2>2, <2>4, Zenon DEF Vector!Next
<1>7. ASSUME NEW n \in 1 .. size, crashInRebuild(n) PROVE VecInv' /\ [Vector!Next]_<<Vec, undo>>
  <2>1. /\ VecInv' /\ n <= intact /\ undo' = Vec'
        /\ Vec' = RebuiltVec(n) \/ Vec' = SubSeq(RebuiltVec(n - 1), 1, n - 1)
    BY <1>7, CrashInRebuildKeeps, Zenon
  <2>2. n \in 0 .. Len(Vec) /\ n \in 1 .. Len(Vec)
    BY <1>v, <2>1
  <2>3. Vector!Rebuild(n) \/ Vector!CrashInRebuild(n)
    BY <1>r, <2>1, Zenon DEF Vector!Rebuild, Vector!CrashInRebuild
  <2>4. QED
    BY <2>1, <2>2, <2>3, Zenon DEF Vector!Next
<1>8. ASSUME (Vec' = Vec /\ undo' = Vec) \/ (Vec' = undo /\ undo' = undo)
      PROVE  [Vector!Next]_<<Vec, undo>>
  <2>1. Vector!Reopen \/ Vector!Crash
    BY <1>8, Zenon DEF Vector!Reopen, Vector!Crash
  <2>2. QED
    BY <2>1, Zenon DEF Vector!Next
<1>9. ASSUME crash PROVE VecInv' /\ [Vector!Next]_<<Vec, undo>>
  BY <1>8, <1>9, CrashUndoes, Zenon
<1>10. ASSUME NEW x \in Items, crashInPush(x) PROVE VecInv' /\ [Vector!Next]_<<Vec, undo>>
  BY <1>8, <1>10, CrashInPushUndoes, Zenon
<1>11. ASSUME UNCHANGED vectorVars PROVE VecInv' /\ [Vector!Next]_<<Vec, undo>>
  BY <1>11, CacheOrder, Zenon DEF vectorVars
<1>12. QED
  BY <1>1, <1>2, <1>3, <1>4, <1>5, <1>6, <1>7, <1>9, <1>10, <1>11, Zenon DEF VectorNext

(* SwappedVector implements DurableVector: for all items, sizes and sizes  *)
(* of the pool, operator[] gives what push_back, pop_back, clear and       *)
(* rebuildBlocks left, whatever is in the pool, and a crash undoes at most *)
(* the last of them.                                                       *)
THEOREM VectorImplementsDurable == VectorSpec => ImplementsVector
<1>1. VectorInit => VecInv /\ Vector!Init
  BY InitFacts, Zenon DEF VectorInit, Vector!Init
<1>2. VecInv /\ [VectorNext]_vectorVars => VecInv' /\ [Vector!Next]_(Vector!vars)
  BY VectorSteps, Zenon DEF Vector!vars
<1>3. QED
  BY <1>1, <1>2, PTL DEF VectorSpec, ImplementsVector, Vector!Spec

=============================================================================
