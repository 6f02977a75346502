---------------------------- MODULE SwappedVector ----------------------------
(***************************************************************************)
(* cn::SwappedVector, the vector behind m_blocks: the items are in one     *)
(* file, their number and sizes in another, and the PoolSize items used    *)
(* last are kept in memory.                                                *)
(*                                                                         *)
(* The items file is a sequence of bytes <<x, k>>, byte k of item x.  A    *)
(* std::fstream keeps what was written since the last seek, or a part of   *)
(* it, in its buffer: itemsBuf is the item, and countBuf the count, that   *)
(* may not be in the file yet.  They are lost when the process dies.       *)
(***************************************************************************)
EXTENDS Integers, Sequences, FiniteSets

CONSTANTS Items,      \* the values of T
          Size,       \* Size[x]: bytes of x when serialized
          Rebuilt,    \* Rebuilt[x]: what rebuildBlocks replaces x by
          Garbage,    \* an item that cannot be parsed
          PoolSize,   \* m_poolSize
          MaxBytes    \* bound on the size of the items

ASSUME VectorAssumption == /\ Size \in [Items -> Nat \ {0}]
                           /\ Rebuilt \in [Items -> Items]
                           /\ Garbage \notin Items
                           /\ PoolSize \in Nat \ {0}
                           /\ MaxBytes \in Nat

(* replace writes over the old item and leaves offsets and sizes alone: it *)
(* takes a new item for no longer than the old one.                        *)
ASSUME ReplaceAssumption == \A x \in Items : Size[Rebuilt[x]] <= Size[x]

VARIABLES
    offsets, itemsFileSize,     \* m_offsets, m_itemsFileSize
    items, cache,               \* m_items, and its indices in the order of m_cache
    itemsFile, itemsBuf,        \* m_itemsFile, and its buffer: <<>> or <<offset, item>>
    sizes, count, countBuf,     \* m_indexesFile, and its buffer: <<>> or <<count>>
    intact,                     \* history: how many items, from the first on, are undamaged
    undo                        \* history: those items, before the last operation

vectorVars == <<offsets, itemsFileSize, items, cache, itemsFile, itemsBuf, sizes, count, countBuf,
                intact, undo>>

NoItems == [i \in {} |-> Garbage]

VectorInit ==
    /\ offsets = <<>> /\ itemsFileSize = 0
    /\ items = NoItems /\ cache = <<>>
    /\ itemsFile = <<>> /\ itemsBuf = <<>>
    /\ sizes = <<>> /\ count = 0 /\ countBuf = <<>>
    /\ intact = 0 /\ undo = <<>>

-----------------------------------------------------------------------------
Hole == <<Garbage, 0>>

(* The first m bytes of x written at offset pos of f.                      *)
writeBytes(f, pos, x, m) ==
    [k \in 1 .. (IF Len(f) < pos + m THEN pos + m ELSE Len(f)) |->
        IF pos < k /\ k <= pos + m THEN <<x, k - pos>>
        ELSE IF k <= Len(f) THEN f[k] ELSE Hole]

write(f, pos, x) == writeBytes(f, pos, x, Size[x])

(* What parsing f from offset pos on gives.                                *)
parse(f, pos) ==
    LET IsAt(x) == \A k \in 1 .. Size[x] : pos + k <= Len(f) /\ f[pos + k] = <<x, k>>
    IN  IF \E x \in Items : IsAt(x) THEN CHOOSE x \in Items : IsAt(x) ELSE Garbage

(* The files after a seek has flushed the buffer.                          *)
itemsFlushed == IF itemsBuf = <<>> THEN itemsFile
                ELSE write(itemsFile, itemsBuf[1], itemsBuf[2])
countFlushed == IF countBuf = <<>> THEN count ELSE countBuf[1]

size == Len(offsets)

(* What operator[] returns; Garbage stands for the exception.              *)
lookup(i) == IF i \in DOMAIN items THEN items[i] ELSE parse(itemsFlushed, offsets[i])

Vec == [i \in 1 .. intact |-> lookup(i)]

(* prepare: room for item i, in place of the one used least recently.      *)
prepare(i, x) ==
    LET full == Cardinality(DOMAIN items) = PoolSize
        kept == IF full THEN Tail(cache) ELSE cache
        keys == IF full THEN DOMAIN items \ {cache[1]} ELSE DOMAIN items
    IN  /\ cache' = Append(kept, i)
        /\ items' = [j \in keys \cup {i} |-> IF j = i THEN x ELSE items[j]]

without(s, i) == SelectSeq(s, LAMBDA j : j # i)

setSize(s, i, n) == IF i <= Len(s) THEN [s EXCEPT ![i] = n] ELSE Append(s, n)

(* open: the offsets are the sums of the sizes.  n items are undamaged.    *)
sumSizes(s) ==
    LET sum[i \in 0 .. Len(s)] == IF i = 0 THEN 0 ELSE sum[i - 1] + s[i] IN sum

open(f, c, s, n) ==
    /\ itemsFile' = f /\ itemsBuf' = <<>>
    /\ sizes' = s /\ count' = c /\ countBuf' = <<>>
    /\ offsets' = [i \in 1 .. c |-> sumSizes(s)[i - 1]]
    /\ itemsFileSize' = sumSizes(s)[c]
    /\ items' = NoItems /\ cache' = <<>>
    /\ intact' = n /\ undo' = Vec'

-----------------------------------------------------------------------------
(* operator[] of an item that can be parsed.                               *)
get(i) ==
    /\ lookup(i) # Garbage
    /\ IF i \in DOMAIN items
       THEN cache' = Append(without(cache, i), i) /\ UNCHANGED <<items, itemsFile, itemsBuf>>
       ELSE /\ itemsFile' = itemsFlushed /\ itemsBuf' = <<>>
            /\ prepare(i, lookup(i))
    /\ UNCHANGED <<offsets, itemsFileSize, sizes, count, countBuf, intact, undo>>

push_back(x) ==
    /\ itemsFileSize + Size[x] <= MaxBytes
    /\ itemsFile' = itemsFlushed /\ itemsBuf' = <<itemsFileSize, x>>
    /\ sizes' = setSize(sizes, size + 1, Size[x])
    /\ count' = countFlushed /\ countBuf' = <<size + 1>>
    /\ offsets' = Append(offsets, itemsFileSize)
    /\ itemsFileSize' = itemsFileSize + Size[x]
    /\ prepare(size + 1, x)
    /\ intact' = IF intact = size THEN size + 1 ELSE intact
    /\ undo' = Vec

pop_back ==
    /\ size > 0
    /\ count' = countFlushed /\ countBuf' = <<size - 1>>
    /\ offsets' = SubSeq(offsets, 1, size - 1)
    /\ itemsFileSize' = offsets[size]
    /\ items' = [j \in DOMAIN items \ {size} |-> items[j]]
    /\ cache' = without(cache, size)
    /\ intact' = IF intact = size THEN size - 1 ELSE intact
    /\ undo' = Vec
    /\ UNCHANGED <<itemsFile, itemsBuf, sizes>>

clear ==
    /\ count' = countFlushed /\ countBuf' = <<0>>
    /\ offsets' = <<>> /\ itemsFileSize' = 0
    /\ items' = NoItems /\ cache' = <<>>
    /\ intact' = 0
    /\ undo' = Vec
    /\ UNCHANGED <<itemsFile, itemsBuf, sizes>>

(* close flushes, then open.                                               *)
reopen == open(itemsFlushed, countFlushed, sizes, intact)

(* n rounds of the loop of rebuildBlocks: each item is read, through the   *)
(* pool, and replace writes another at its offset.  An exception ends it.  *)
replaced(n) ==
    LET step[i \in 0 .. n] ==
            IF i = 0 THEN [file |-> itemsFile, ok |-> TRUE]
            ELSE LET f == step[i - 1].file
                     x == IF i \in DOMAIN items THEN items[i] ELSE parse(f, offsets[i])
                 IN  IF step[i - 1].ok /\ x # Garbage
                     THEN [file |-> write(f, offsets[i], Rebuilt[x]), ok |-> TRUE]
                     ELSE [file |-> f, ok |-> FALSE]
    IN  step[n].file

(* init calls rebuildBlocks after open.                                    *)
opened == itemsBuf = <<>> /\ countBuf = <<>>

(* rebuildBlocks: the loop, up to the end or to a reward that cannot be    *)
(* computed, then close and open, which empties the pool.                  *)
rebuildBlocks(n) == opened /\ open(replaced(n), count, sizes, intact)

(* The process dies in rebuildBlocks, with m bytes of item n written.      *)
crashInRebuild(n) ==
    /\ opened
    /\ n <= intact
    /\ \E m \in 1 .. Size[Rebuilt[lookup(n)]] :
          open(writeBytes(replaced(n - 1), offsets[n], Rebuilt[lookup(n)], m), count, sizes,
               IF m = Size[Rebuilt[lookup(n)]] THEN intact ELSE n - 1)

(* A pop_back or clear that is in the buffer of the index file only: the   *)
(* process dies, and the items come back.  What is written, or was to be   *)
(* written, at offset pos may be one of them.                              *)
popPending == count > countFlushed
landsOnPopped(pos) == popPending /\ pos < sumSizes(sizes)[count]

(* The process dies between two operations, with m bytes of the item in    *)
(* the buffer written.  Mutant of crash: the count is written before.      *)
crashCountFirst ==
    \E m \in 0 .. (IF itemsBuf = <<>> THEN 0 ELSE Size[itemsBuf[2]]) :
        open(IF m = 0 THEN itemsFile ELSE writeBytes(itemsFile, itemsBuf[1], itemsBuf[2], m),
             countFlushed, sizes, intact)

crash ==
    \E m \in 0 .. (IF itemsBuf = <<>> THEN 0 ELSE Size[itemsBuf[2]]) :
        open(IF m = 0 THEN itemsFile ELSE writeBytes(itemsFile, itemsBuf[1], itemsBuf[2], m),
             count, sizes,
             IF itemsBuf # <<>> /\ landsOnPopped(itemsBuf[1]) THEN intact ELSE Len(undo))

(* The process dies in push_back(x): m bytes of the item are in its file,  *)
(* and the index file may have been flushed by then.                       *)
crashInPush(x) ==
    /\ itemsFileSize + Size[x] <= MaxBytes
    /\ \E m \in 0 .. Size[x] :
       \E c \in {count, countFlushed} :
          open(writeBytes(itemsFlushed, itemsFileSize, x, m), c, sizes,
               IF c = countFlushed \/ landsOnPopped(itemsFileSize) THEN intact ELSE Len(undo))

VectorNext ==
    \/ \E i \in 1 .. size : get(i)
    \/ \E x \in Items : push_back(x)
    \/ pop_back
    \/ clear
    \/ reopen
    \/ \E n \in 0 .. size : rebuildBlocks(n)
    \/ \E n \in 1 .. size : crashInRebuild(n)
    \/ crash
    \/ \E x \in Items : crashInPush(x)

VectorSpec == VectorInit /\ [][VectorNext]_vectorVars

-----------------------------------------------------------------------------
(* Refinement: operator[] gives the items that push_back, pop_back, clear  *)
(* and rebuildBlocks left, whatever is in the pool, and a crash undoes at  *)
(* most the last of them.  A crash that brings popped items back, or comes *)
(* while replace writes, damages no item before those: the refinement is   *)
(* of the items that are not damaged.                                      *)
Vector == INSTANCE DurableVector WITH v <- Vec, undo <- undo

ImplementsVector == Vector!Spec
=============================================================================
