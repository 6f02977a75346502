--------------------------- MODULE UpgradeDetector ---------------------------
(***************************************************************************)
(* BasicUpgradeDetector (UpgradeDetector.h): when does the next major      *)
(* block version start?  Either at a height fixed in the currency, or      *)
(* UpgradeWindow blocks after the miners of VotingThreshold percent of the *)
(* last VotingWindow blocks have voted for it with their minor version.    *)
(* Blockchain holds one detector for each target version, tells each of    *)
(* them of a pushed and a popped block, and asks them which version a      *)
(* block must have.                                                        *)
(***************************************************************************)
EXTENDS Integers, Sequences, FiniteSets

CONSTANTS Targets,           \* the target versions of the detectors
          UpgradeHeight,     \* UpgradeHeight[v]: fixed height, or UNDEF_HEIGHT when v is voted on
          UNDEF_HEIGHT,      \* above every height of a block
          VotingWindow,
          VotingThreshold,   \* percent
          UpgradeWindow,
          MaxVersions          \* bound on the length of the chain

(* The heights of the currency ascend with the versions, so that only the  *)
(* highest can be open, as blockPushed asserts; CurrencyBuilder refuses a   *)
(* threshold out of range and an upgrade window of zero.                    *)
ASSUME UpgradeAssumption ==
    /\ Targets \subseteq 2..255
    /\ UNDEF_HEIGHT \in Nat
    /\ UpgradeHeight \in [Targets -> 0..UNDEF_HEIGHT]
    /\ \A v, w \in Targets : v < w => UpgradeHeight[v] < UpgradeHeight[w]
    /\ MaxVersions \in Nat /\ MaxVersions < UNDEF_HEIGHT
    /\ VotingWindow \in Nat /\ VotingWindow > 1
    /\ VotingThreshold \in 1..100
    /\ UpgradeWindow \in Nat /\ UpgradeWindow > 0

VARIABLES versions,              \* m_blocks: the major and minor version of each block
          votingCompleteHeight,  \* m_votingCompleteHeight of each detector
          running,               \* FALSE when Blockchain::init has failed
          outvoted               \* targets whose vote rollbackBlockchainTo has taken back, untold

upgradeVars == <<versions, votingCompleteHeight, running, outvoted>>

Voted == {v \in Targets : UpgradeHeight[v] = UNDEF_HEIGHT}

(* The block at a height; heights start at zero.                           *)
At(c, h) == c[h + 1]

-----------------------------------------------------------------------------
upgradeHeight(v, vch) ==
    IF UpgradeHeight[v] # UNDEF_HEIGHT THEN UpgradeHeight[v]
    ELSE IF vch[v] = UNDEF_HEIGHT THEN UNDEF_HEIGHT ELSE vch[v] + UpgradeWindow

(* The version that a block at height h must have: the highest target whose *)
(* upgrade lies below h.                                                    *)
get_block_major_version_for_height(h, vch) ==
    LET reached == {v \in Targets : h > upgradeHeight(v, vch)}
    IN IF reached = {} THEN 1 ELSE CHOOSE v \in reached : \A w \in reached : w <= v

getNumberOfVotes(c, v, h) ==
    IF h < VotingWindow - 1 THEN 0
    ELSE Cardinality({i \in (h + 1 - VotingWindow)..h :
                         At(c, i).major = v - 1 /\ At(c, i).minor = 1})

isVotingComplete(c, v, h) == VotingThreshold * VotingWindow <= 100 * getNumberOfVotes(c, v, h)

(* The first height of a set, or UNDEF_HEIGHT.                             *)
First(S) == IF S = {} THEN UNDEF_HEIGHT ELSE CHOOSE h \in S : \A k \in S : h <= k

findVotingCompleteHeightNear(c, v, probableUpgradeHeight) ==
    LET from == IF probableUpgradeHeight > UpgradeWindow THEN probableUpgradeHeight - UpgradeWindow ELSE 0
    IN First({h \in from..probableUpgradeHeight : isVotingComplete(c, v, h)})

(* The search starts maxUpgradeDistance, seven upgrade windows, below.     *)
findVotingCompleteHeight(c, v, probableUpgradeHeight) ==
    LET distance == 7 * UpgradeWindow
        from == IF probableUpgradeHeight > distance THEN probableUpgradeHeight - distance ELSE 0
    IN First({h \in from..probableUpgradeHeight : isVotingComplete(c, v, h)})

(* The first block of version v or above, which std::lower_bound finds.    *)
firstBlockOf(c, v) == First({h \in 0..(Len(c) - 1) : At(c, h).major >= v})

(* What init sets votingCompleteHeight to, and whether it returns true.    *)
initHeight(c, v) ==
    LET tip == At(c, Len(c) - 1).major
    IN IF UpgradeHeight[v] # UNDEF_HEIGHT THEN UNDEF_HEIGHT
       ELSE IF v - 1 = tip THEN findVotingCompleteHeight(c, v, Len(c) - 1)
       ELSE IF v <= tip THEN findVotingCompleteHeight(c, v, firstBlockOf(c, v))
       ELSE UNDEF_HEIGHT

initSucceeds(c, v) ==
    LET tip == At(c, Len(c) - 1).major
    IN IF UpgradeHeight[v] = UNDEF_HEIGHT
       THEN v <= tip => /\ At(c, firstBlockOf(c, v)).major = v
                        /\ initHeight(c, v) # UNDEF_HEIGHT
       ELSE IF Len(c) <= UpgradeHeight[v] + 1
       THEN tip < v
       ELSE At(c, UpgradeHeight[v] + 1).major = v

blockPushed(c, v) ==
    IF /\ UpgradeHeight[v] = UNDEF_HEIGHT
       /\ votingCompleteHeight[v] = UNDEF_HEIGHT
       /\ isVotingComplete(c, v, Len(c) - 1)
    THEN Len(c) - 1
    ELSE votingCompleteHeight[v]

blockPoppedKeeps(c, v) == votingCompleteHeight[v]

blockPopped(c, v) ==
    IF votingCompleteHeight[v] = Len(c) THEN UNDEF_HEIGHT ELSE votingCompleteHeight[v]

-----------------------------------------------------------------------------
(* The chain starts with the genesis block, of version one.                *)
UpgradeInit ==
    /\ versions = <<[major |-> 1, minor |-> 0]>>
    /\ votingCompleteHeight = [v \in Targets |-> UNDEF_HEIGHT]
    /\ running = TRUE
    /\ outvoted = {}

(* The miner of a block chooses the minor version; checkBlockVersion        *)
(* refuses any other major version.                                         *)
pushVersion ==
    /\ running
    /\ Len(versions) < MaxVersions
    /\ \E minor \in {0, 1} :
         LET major == get_block_major_version_for_height(Len(versions), votingCompleteHeight)
         IN versions' = Append(versions, [major |-> major, minor |-> minor])
    /\ votingCompleteHeight' = [v \in Targets |-> blockPushed(versions', v)]
    /\ UNCHANGED <<running, outvoted>>

popVersion ==
    /\ running
    /\ Len(versions) > 1
    /\ versions' = SubSeq(versions, 1, Len(versions) - 1)
    /\ votingCompleteHeight' = [v \in Targets |-> blockPopped(versions', v)]
    /\ UNCHANGED <<running, outvoted>>

(* removeLastBlock does not tell the detectors of the blocks it removes.   *)
rollbackVersionsTo(height) ==
    /\ running
    /\ height < Len(versions) - 1
    /\ versions' = SubSeq(versions, 1, height + 1)
    /\ outvoted' = outvoted \cup {v \in Voted : votingCompleteHeight[v] # UNDEF_HEIGHT
                                                /\ votingCompleteHeight[v] > height}
    /\ UNCHANGED <<votingCompleteHeight, running>>

(* The process ends, in whatever way, and is started again on its blocks.  *)
(* A detector that fails leaves the ones after it uninitialised; the node   *)
(* then does not run.                                                       *)
initDetectors ==
    /\ running
    /\ running' = \A v \in Targets : initSucceeds(versions, v)
    /\ votingCompleteHeight' = [v \in Targets |-> initHeight(versions, v)]
    /\ UNCHANGED <<versions, outvoted>>

UpgradeNext ==
    \/ pushVersion
    \/ popVersion
    \/ \E height \in 0..(MaxVersions - 1) : rollbackVersionsTo(height)
    \/ initDetectors

UpgradeSpec == UpgradeInit /\ [][UpgradeNext]_upgradeVars

-----------------------------------------------------------------------------
(* A detector that heard of every block it votes on knows the first height *)
(* at which the vote succeeded in this chain: not a later one after a pop   *)
(* and a new push, not one of a chain that was popped, and after a restart  *)
(* not one that init's bounded search missed.                               *)
VotingCompleteExact ==
    running => \A v \in Voted \ outvoted :
        votingCompleteHeight[v] = First({h \in 0..(Len(versions) - 1) : isVotingComplete(versions, v, h)})

(* Blockchain::init accepts the chain this node has built: none of its       *)
(* "Internal error" exits is taken.                                          *)
CanRestart ==
    running /\ outvoted = {} => \A v \in Targets : initSucceeds(versions, v)
=============================================================================
