-------------------------- MODULE BlockchainOutputs --------------------------
(***************************************************************************)
(* The output indices of cn::Blockchain: m_outputs and                     *)
(* m_multisignatureOutputs, which give each output of an amount its global *)
(* index, with m_transactionMap, m_spent_keys and m_depositIndex, as       *)
(* blocks are pushed, refused half way, popped, rolled back and rebuilt.   *)
(*                                                                         *)
(* Every operation runs under m_blockchain_lock and is one step.  A block  *)
(* is its list of transactions.  One that spends its own outputs, or is    *)
(* too big, leaves entries behind: that is in Blockchain, not here.        *)
(* Global indices count from 1, heights from 0.                            *)
(***************************************************************************)
EXTENDS Integers, SequencesExt

CONSTANTS
    Txs,            \* transactions, other than miner transactions
    Ins,            \* Ins[t]: the sequence of its inputs
    Outs,           \* Outs[t]: the sequence of its outputs
    UnlockTime,     \* UnlockTime[t], as a height
    Candidates,     \* the lists of transactions a block may come with
    Amounts,        \* amounts of outputs
    MinerOuts,      \* outputs of a miner transaction
    UnlockWindow,   \* minedMoneyUnlockWindow()
    DeltaBlocks,    \* lockedTxAllowedDeltaBlocks()
    Interest(_, _, _),  \* getInterestForInput: of an amount, a term and a height
    Int64Max,       \* std::numeric_limits<int64_t>::max()
    MaxBlocks,      \* bound on the length of the chain
    MaxDepositBlocks    \* bound on blockCount of m_depositIndex

(* A key input names its ring by global indices, a multisignature input    *)
(* one output.  check_tx_semantic wants inputs, all different.             *)
KeyInput == [type : {"key"}, amount : Amounts, image : Nat, ring : SUBSET Nat]
MultisignatureInput == [type : {"multisig"}, amount : Amounts, index : Nat, term : Nat]
Output == [type : {"key", "multisig"}, amount : Amounts, term : Nat]

ASSUME OutputsAssumption ==
    /\ Ins \in [Txs -> Seq(KeyInput \cup MultisignatureInput) \ {<<>>}]
    /\ Outs \in [Txs -> Seq(Output)]
    /\ \A t \in Txs : \A i, j \in DOMAIN Ins[t] : i # j => Ins[t][i] # Ins[t][j]
    /\ Candidates \subseteq Seq(Txs)
    /\ Amounts \subseteq Nat \ {0}
    /\ MinerOuts \in Seq(Output)

VARIABLES
    blocks,         \* m_blocks: transactions, with m_global_output_indexes
    ix,             \* m_transactionMap, m_spent_keys, m_outputs, m_multisignatureOutputs
    depositIndex,   \* m_depositIndex: its entries ...
    depositBlocks,  \* ... and its blockCount
    behind          \* history: has rollbackBlockchainTo left m_depositIndex behind?

vars == <<blocks, ix, depositIndex, depositBlocks, behind>>

Deposits == INSTANCE DepositIndex WITH
    index <- depositIndex, blockCount <- depositBlocks,
    Amounts <- Int, Interests <- Nat, MaxBlocks <- MaxDepositBlocks

-----------------------------------------------------------------------------
(* The miner transaction of a block with transactions txs at height h.     *)
Miner(h, txs) == [height |-> h, txs |-> txs]

ins(t) == IF t \in Txs THEN Ins[t] ELSE <<>>
outs(t) == IF t \in Txs THEN Outs[t] ELSE MinerOuts
unlockTime(t) == IF t \in Txs THEN UnlockTime[t] ELSE t.height + UnlockWindow

inputs(t, type) == {ins(t)[i] : i \in {j \in DOMAIN ins(t) : ins(t)[j].type = type}}
images(t) == {in.image : in \in inputs(t, "key")}

(* The positions in t of its outputs of a type and amount.                 *)
outputsOf(t, type, a) ==
    SelectSeq([o \in 1 .. Len(outs(t)) |-> o],
              LAMBDA o : outs(t)[o].type = type /\ outs(t)[o].amount = a)

(* The entries of m_outputs and m_multisignatureOutputs for the outputs of *)
(* t with amount a.                                                        *)
keyUsages(t, a, at) ==
    LET o == outputsOf(t, "key", a) IN [k \in DOMAIN o |-> [at |-> at, out |-> o[k]]]
multisigUsages(t, a, at) ==
    LET o == outputsOf(t, "multisig", a)
    IN  [k \in DOMAIN o |-> [at |-> at, out |-> o[k], isUsed |-> FALSE]]

EmptyIndices == [map |-> [t \in {} |-> <<>>], keys |-> {},
                 outputs |-> [a \in Amounts |-> <<>>],
                 multisig |-> [a \in Amounts |-> <<>>]]

inRange(I, in) == in.index \in 1 .. Len(I.multisig[in.amount])

setUsed(I, t, used) ==
    [a \in Amounts |-> [k \in DOMAIN I.multisig[a] |->
        IF \E in \in inputs(t, "multisig") : in.amount = a /\ in.index = k
        THEN [I.multisig[a][k] EXCEPT !.isUsed = used]
        ELSE I.multisig[a][k]]]

(* checkMultisignatureInputsDiff, the duplicates and the range checked by  *)
(* pushTransaction, which undoes what it has done when one fails.          *)
pushable(I, t) ==
    /\ t \notin DOMAIN I.map
    /\ \A i, j \in DOMAIN ins(t) :
          i # j /\ ins(t)[i].type = "multisig" /\ ins(t)[j].type = "multisig"
             => <<ins(t)[i].amount, ins(t)[i].index>> # <<ins(t)[j].amount, ins(t)[j].index>>
    /\ images(t) \cap I.keys = {}
    /\ \A in \in inputs(t, "multisig") : inRange(I, in)

(* pushTransaction.  at is the transactionIndex.                           *)
pushTransaction(I, t, at) ==
    IF ~pushable(I, t) THEN I
    ELSE [map      |-> (t :> at) @@ I.map,
          keys     |-> I.keys \cup images(t),
          outputs  |-> [a \in Amounts |-> I.outputs[a] \o keyUsages(t, a, at)],
          multisig |-> [a \in Amounts |-> setUsed(I, t, TRUE)[a] \o multisigUsages(t, a, at)]]

(* m_global_output_indexes, as pushTransaction sets it.                    *)
globalIndexes(I, t) ==
    [o \in DOMAIN outs(t) |->
        LET out == outs(t)[o]
            before == {p \in 1 .. o : outs(t)[p].type = out.type /\ outs(t)[p].amount = out.amount}
        IN  Cardinality(before)
              + Len(IF out.type = "key" THEN I.outputs[out.amount] ELSE I.multisig[out.amount])]

(* The outputs are popped last first.  One that is not at the back, or is  *)
(* used, is left there with "Blockchain consistency broken".               *)
removeOutputs(s, old) ==
    FoldLeft(LAMBDA r, u : IF r # <<>> /\ Last(r) = u THEN Front(r) ELSE r,
             s, Reverse(old))

(* Mutant of popTransaction: withdrawn outputs stay used.                  *)
popTransactionKeepsUsed(I, t) ==
    LET at == I.map[t]
    IN  [map      |-> [u \in DOMAIN I.map \ {t} |-> I.map[u]],
         keys     |-> I.keys \ images(t),
         outputs  |-> [a \in Amounts |-> removeOutputs(I.outputs[a], keyUsages(t, a, at))],
         multisig |-> [a \in Amounts |-> removeOutputs(I.multisig[a], multisigUsages(t, a, at))]]

popTransaction(I, t) ==
    LET at == I.map[t]
        popped == [map      |-> [u \in DOMAIN I.map \ {t} |-> I.map[u]],
                   keys     |-> I.keys \ images(t),
                   outputs  |-> [a \in Amounts |-> removeOutputs(I.outputs[a], keyUsages(t, a, at))],
                   multisig |-> [a \in Amounts |-> removeOutputs(I.multisig[a], multisigUsages(t, a, at))]]
    IN  [popped EXCEPT !.multisig = setUsed(popped, t, FALSE)]

popTransactions(I, txs) == FoldLeft(popTransaction, I, Reverse(txs))

-----------------------------------------------------------------------------
height == Len(blocks)       \* getCurrentBlockchainHeight(), and of the next block

is_tx_spendtime_unlocked(u) == height - 1 + DeltaBlocks >= u

(* The transaction and output an index entry refers to.                    *)
transactionByIndex(at) == blocks[at.block + 1].txs[at.tx]
outputAt(e) == outs(transactionByIndex(e.at))[e.out]

check_tx_input(I, in) ==
    /\ in.ring # {}
    /\ in.image \notin I.keys
    /\ \A k \in in.ring :
          /\ k \in 1 .. Len(I.outputs[in.amount])
          /\ is_tx_spendtime_unlocked(unlockTime(transactionByIndex(I.outputs[in.amount][k].at)))

(* Mutant of validateInput: the term is one block short.                   *)
validateInputEarly(I, in) ==
    /\ inRange(I, in)
    /\ LET e == I.multisig[in.amount][in.index]
       IN  /\ ~e.isUsed
           /\ is_tx_spendtime_unlocked(unlockTime(transactionByIndex(e.at)))
           /\ in.term = outputAt(e).term
           /\ in.term # 0 => e.at.block + in.term <= height + 1

validateInput(I, in) ==
    /\ inRange(I, in)
    /\ LET e == I.multisig[in.amount][in.index]
       IN  /\ ~e.isUsed
           /\ is_tx_spendtime_unlocked(unlockTime(transactionByIndex(e.at)))
           /\ in.term = outputAt(e).term
           /\ in.term # 0 => e.at.block + in.term <= height

(* An input that refers to the block being pushed, which is not in         *)
(* m_blocks yet: the lookup throws.                                        *)
refersToBlock(I, t) ==
    \/ \E in \in inputs(t, "key") :
          \E k \in in.ring \cap 1 .. Len(I.outputs[in.amount]) :
             I.outputs[in.amount][k].at.block = height
    \/ \E in \in inputs(t, "multisig") :
          inRange(I, in) /\ I.multisig[in.amount][in.index].at.block = height

checkTransactionInputs(I, t) ==
    /\ ~refersToBlock(I, t)
    /\ \A in \in inputs(t, "key") : check_tx_input(I, in)
    /\ \A in \in inputs(t, "multisig") : validateInput(I, in)

(* The indices when pushBlock has pushed the miner transaction and the     *)
(* first n of txs.                                                         *)
pushed(txs, n) ==
    LET all == <<Miner(height, txs)>> \o txs
        step[k \in 0 .. n + 1] ==
            IF k = 0 THEN ix
            ELSE pushTransaction(step[k - 1], all[k], [block |-> height, tx |-> k])
    IN  step[n + 1]

(* pushToDepositIndex: what the deposits made exceed those withdrawn by.   *)
depositOf(t) ==
    LET locks(o) == IF outs(t)[o].type = "multisig" /\ outs(t)[o].term > 0
                    THEN outs(t)[o].amount ELSE 0
        frees(in) == IF in.term > 0 THEN in.amount ELSE 0
    IN  MapThenSumSet(locks, DOMAIN outs(t)) - MapThenSumSet(frees, inputs(t, "multisig"))

(* calculateTotalTransactionInterest                                       *)
interestOf(t, h) ==
    LET pays(in) == IF in.term # 0 THEN Interest(in.amount, in.term, h) ELSE 0
    IN  MapThenSumSet(pays, inputs(t, "multisig"))

netDeposit(txs) == FoldLeft(LAMBDA n, t : n + depositOf(t), 0, txs)
totalInterest(txs, h) == FoldLeft(LAMBDA n, t : n + interestOf(t, h), 0, txs)

Init == LET genesis == Miner(0, <<>>)
        IN  /\ blocks = <<[txs |-> <<genesis>>, indexes |-> <<globalIndexes(EmptyIndices, genesis)>>]>>
            /\ ix = pushTransaction(EmptyIndices, genesis, [block |-> 0, tx |-> 1])
            /\ depositIndex = <<>> /\ depositBlocks = 1 /\ behind = FALSE

-----------------------------------------------------------------------------
(* The transactions pass the checks, each after those before it.           *)
accepted(txs) ==
    \A k \in DOMAIN txs : checkTransactionInputs(pushed(txs, k - 1), txs[k])

pushBlock(txs) ==
    LET all == <<Miner(height, txs)>> \o txs
    IN  /\ height < MaxBlocks
        /\ accepted(txs)
        /\ ix' = pushed(txs, Len(txs))
        /\ blocks' = Append(blocks,
              [txs     |-> all,
               indexes |-> [k \in DOMAIN all |->
                              globalIndexes(IF k = 1 THEN ix ELSE pushed(txs, k - 2), all[k])]])
        /\ Deposits!pushBlock(netDeposit(all), totalInterest(txs, height))
        /\ UNCHANGED behind

(* pushBlock returns false when it has pushed txs, the first transactions  *)
(* of a block: the next one fails a check (a signature, the version, its   *)
(* outputs, its inputs), or the reward is wrong, and popTransactions       *)
(* removes what was pushed.                                                *)
pushBlockFails(txs) ==
    /\ height < MaxBlocks
    /\ accepted(txs)
    /\ ix' = popTransactions(pushed(txs, Len(txs)), <<Miner(height, txs)>> \o txs)
    /\ UNCHANGED <<blocks, depositIndex, depositBlocks, behind>>

(* popBlock.  The first block is never popped: a switch keeps the block it *)
(* splits at.                                                              *)
popBlock ==
    /\ height > 1
    /\ ix' = popTransactions(ix, Last(blocks).txs)
    /\ blocks' = Front(blocks)
    /\ Deposits!popBlock
    /\ UNCHANGED behind

(* rollbackBlockchainTo(h): removeLastBlock until block h is the last.  It *)
(* leaves m_depositIndex alone.                                            *)
rollbackBlockchainTo(h) ==
    /\ h < height - 1
    /\ ix' = FoldLeft(LAMBDA I, b : popTransactions(I, b.txs), ix,
                      Reverse(SubSeq(blocks, h + 2, height)))
    /\ blocks' = SubSeq(blocks, 1, h + 1)
    /\ behind' = TRUE
    /\ UNCHANGED <<depositIndex, depositBlocks>>

(* The loop of rebuildCache, for the transaction at `at`.  No check is     *)
(* made, except that an input out of range makes rebuildCache fail.        *)
rebuildTransaction(R, at) ==
    LET t == transactionByIndex(at)
        I == R.ix
    IN  [ok |-> R.ok /\ \A in \in inputs(t, "multisig") : inRange(I, in),
         ix |-> [map      |-> IF t \in DOMAIN I.map THEN I.map ELSE (t :> at) @@ I.map,
                 keys     |-> I.keys \cup images(t),
                 outputs  |-> [a \in Amounts |-> I.outputs[a] \o keyUsages(t, a, at)],
                 multisig |-> [a \in Amounts |-> setUsed(I, t, TRUE)[a] \o multisigUsages(t, a, at)]]]

rebuilt ==
    FoldLeft(rebuildTransaction, [ok |-> TRUE, ix |-> EmptyIndices],
             FlattenSeq([b \in DOMAIN blocks |->
                           [k \in DOMAIN blocks[b].txs |-> [block |-> b - 1, tx |-> k]]]))

(* The entries that pushToDepositIndex adds, block after block, to an      *)
(* empty index.                                                            *)
rebuiltDeposits ==
    LET step[b \in 0 .. height] ==
            IF b = 0 THEN <<>>
            ELSE LET net == netDeposit(blocks[b].txs)
                     interest == totalInterest(blocks[b].txs, b - 1)
                     prev == step[b - 1]
                     last == IF prev = <<>> THEN [amount |-> 0, interest |-> 0] ELSE Last(prev)
                 IN  IF net = 0 THEN prev
                     ELSE Append(prev, [height   |-> b - 1,
                                        amount   |-> net + last.amount,
                                        interest |-> interest + last.interest])
    IN  step[height]

(* init, when no cache fits m_blocks: m_depositIndex is new and empty.     *)
rebuildCache ==
    /\ rebuilt.ok
    /\ ix' = rebuilt.ix
    /\ depositIndex' = rebuiltDeposits /\ depositBlocks' = height /\ behind' = FALSE
    /\ UNCHANGED blocks

Next == \/ \E txs \in Candidates : pushBlock(txs)
        \/ \E txs \in UNION {Prefixes(c) : c \in Candidates} : pushBlockFails(txs)
        \/ popBlock
        \/ \E h \in 0 .. height - 1 : rollbackBlockchainTo(h)
        \/ rebuildCache

Spec == Init /\ [][Next]_vars

-----------------------------------------------------------------------------
(* The indices that pushes and pops maintain are the ones rebuildCache     *)
(* computes from m_blocks: a node that loads its cache and one that        *)
(* rebuilds it give every output the same global index, and agree on what  *)
(* is spent.                                                               *)
RebuildAgrees == rebuilt.ok /\ rebuilt.ix = ix

(* The inputs of the chain that withdraw multisignature output g of a.     *)
withdrawals(a, g) ==
    {<<b, k>> \in UNION {{b} \X DOMAIN blocks[b].txs : b \in DOMAIN blocks} :
        \E in \in inputs(blocks[b].txs[k], "multisig") : in.amount = a /\ in.index = g}

(* No deposit is withdrawn twice, none before its term has passed, and     *)
(* isUsed tells which are withdrawn, across reorganisations that move      *)
(* deposits to other global indices.                                       *)
WithdrawnOnceAfterTerm ==
    \A a \in Amounts : \A g \in DOMAIN ix.multisig[a] :
        LET e == ix.multisig[a][g]
        IN  /\ Cardinality(withdrawals(a, g)) = (IF e.isUsed THEN 1 ELSE 0)
            /\ \A w \in withdrawals(a, g) : e.at.block + outputAt(e).term <= w[1] - 1

(* The amount of the deposits not yet withdrawn.                           *)
locked ==
    LET amountIn(a) == a * Cardinality({g \in DOMAIN ix.multisig[a] :
                              ~ix.multisig[a][g].isUsed /\ outputAt(ix.multisig[a][g]).term > 0})
    IN  MapThenSumSet(amountIn, Amounts)

(* DepositIndex::pushBlock asserts that the total does not go below zero.  *)
(* Every block that passes the checks of pushBlock satisfies it.           *)
DepositNeverNegative ==
    \A txs \in Candidates :
        accepted(txs) => netDeposit(txs) + Deposits!fullDepositAmount >= 0
=============================================================================
