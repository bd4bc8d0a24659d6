-------------------------- MODULE AnchoringProofs --------------------------
(***************************************************************************)
(* Anchoring, for every set of relayers, every length of an epoch and      *)
(* every quorum the owner may set.                                         *)
(***************************************************************************)
EXTENDS Anchoring, FiniteSetTheorems, TLAPS

\* What a poll works on is a block of an epoch other than the first: 0, the
\* epoch of the contract before its first checkpoint, is never submitted.
FetchedIsDue ==
    \A r \in Relayers : fetched[r] # 0 => EpochOf(fetched[r]) # 0

\* A transaction carries the parent of a block of its epoch, and the signature
\* of its sender alone.
PendingIsSound ==
    \A tx \in BagToSet(pending) :
       /\ EpochOf(tx.blockHash + 1) = tx.epoch
       /\ tx.signers = {tx.sender}

\* The latest epoch is one of the anchored ones.
LatestIsAnchored ==
    IF latestEpoch = 0 THEN DOMAIN checkpoints = {}
                       ELSE latestEpoch \in DOMAIN checkpoints

\* The inductive invariant.
AnchorInv ==
    /\ TypeOK
    /\ FetchedIsDue
    /\ PendingIsSound
    /\ LatestIsAnchored
    /\ AnchoredBlockIsOfEpoch

-----------------------------------------------------------------------------
(* Operators                                                               *)

\* A block up to MaxHeight is of one of the epochs, or of epoch 0.
LEMMA EpochOfType ==
    ASSUME NEW h \in 0 .. MaxHeight
    PROVE  EpochOf(h) \in Epochs \cup {0}
<1> DEFINE n == EpochSlots
           q == h \div n
           m == MaxHeight \div n
<1>1. n \in Nat \ {0} /\ MaxHeight \in Nat /\ h \in Nat /\ h <= MaxHeight
  BY RelayerAssumption, AnchoringAssumption
<1>2. /\ q \in Nat /\ n * q <= h
      /\ m \in Nat /\ MaxHeight < n * (m + 1)
  BY <1>1
<1>3. q <= m
  <2> HIDE DEF n, q, m
  <2> SUFFICES ASSUME q >= m + 1 PROVE FALSE
    BY <1>2
  <2>1. n * q >= n * (m + 1)
    BY <1>1, <1>2
  <2> QED
    BY <1>1, <1>2, <2>1
<1> QED
  BY <1>2, <1>3 DEF EpochOf, Epochs

\* What BagAdd and BagRemove do to the elements of a bag.
LEMMA MempoolElements ==
    ASSUME NEW B, NEW tx
    PROVE  /\ BagToSet(BagAdd(B, tx)) = BagToSet(B) \cup {tx}
           /\ BagToSet(BagRemove(B, tx)) \subseteq BagToSet(B)
  BY DEF BagToSet, BagAdd, BagRemove

\* The transaction a poll submits is well typed and sound.
LEMMA SubmittedIsSound ==
    ASSUME TypeOK, FetchedIsDue, NEW r \in Relayers, NEW h, fetched[r] # 0
    PROVE  /\ Submitted(r, h) \in CheckpointTxs
           /\ EpochOf(Submitted(r, h).blockHash + 1) = Submitted(r, h).epoch
           /\ Submitted(r, h).signers = {Submitted(r, h).sender}
<1>1. fetched[r] \in 1 .. MaxHeight /\ EpochOf(fetched[r]) # 0
  BY DEF TypeOK, FetchedIsDue
<1>2. EpochOf(fetched[r]) \in Epochs
  BY <1>1, EpochOfType
<1>3. fetched[r] - 1 \in BlockHashes /\ fetched[r] - 1 + 1 = fetched[r]
  BY <1>1, AnchoringAssumption DEF BlockHashes
<1> QED
  BY <1>2, <1>3 DEF Submitted, CheckpointTx, CheckpointTxs

-----------------------------------------------------------------------------
(* The invariant                                                           *)

\* The invariant holds of a new contract and idle relayers.
LEMMA InitAnchorInv ==
    ASSUME Init
    PROVE  AnchorInv
<1>1. TypeOK
  BY AnchoringAssumption
  DEF Init, constructor, RelayerInit, TypeOK, EmptyBag, SetToBag, BagToSet
<1> QED
  BY <1>1 DEF Init, constructor, RelayerInit, AnchorInv, FetchedIsDue,
     PendingIsSound, LatestIsAnchored, AnchoredBlockIsOfEpoch, EmptyBag, SetToBag,
     BagToSet

\* A poll submits the parent of a block it fetched, signed by its relayer alone.
LEMMA PollInv ==
    ASSUME AnchorInv, NEW r \in Relayers, poll(r) \/ restart(r)
    PROVE  AnchorInv'
<1>1. /\ UNCHANGED contractVars /\ UNCHANGED height
      /\ height \in 0 .. MaxHeight
  BY DEF poll, restart, AnchorInv, TypeOK
<1>2. ASSUME TypeOK', FetchedIsDue', PendingIsSound'
      PROVE  AnchorInv'
  BY <1>1, <1>2 DEF AnchorInv, LatestIsAnchored, AnchoredBlockIsOfEpoch, contractVars
<1>3. CASE Fetch(r, height)
  <2>1. fetched' = [fetched EXCEPT ![r] = height] /\ EpochOf(height) # 0
    BY <1>3 DEF Fetch, Due
  <2>2. UNCHANGED <<lastEpoch, pending>>
    BY <1>3 DEF Fetch
  <2>3. TypeOK'
    BY <1>1, <2>1, <2>2 DEF AnchorInv, TypeOK, contractVars
  <2>4. FetchedIsDue'
    BY <2>1 DEF AnchorInv, TypeOK, FetchedIsDue
  <2> QED
    BY <1>2, <2>2, <2>3, <2>4 DEF AnchorInv, PendingIsSound
<1>4. CASE Submit(r, height) \/ SubmitNoAnswer(r, height)
  <2>1. /\ fetched[r] # 0
        /\ fetched' = [fetched EXCEPT ![r] = 0]
        /\ pending' = BagAdd(pending, Submitted(r, height))
        /\ \/ lastEpoch' = lastEpoch
           \/ lastEpoch' = [lastEpoch EXCEPT ![r] = EpochOf(fetched[r])]
    BY <1>4 DEF Submit, SubmitNoAnswer
  <2>2. BagToSet(pending') = BagToSet(pending) \cup {Submitted(r, height)}
    BY <2>1, MempoolElements
  <2>3. /\ Submitted(r, height) \in CheckpointTxs
        /\ EpochOf(Submitted(r, height).blockHash + 1) = Submitted(r, height).epoch
        /\ Submitted(r, height).signers = {Submitted(r, height).sender}
    BY <2>1, SubmittedIsSound DEF AnchorInv
  <2>4. EpochOf(fetched[r]) \in Epochs \cup {0}
    BY EpochOfType DEF AnchorInv, TypeOK
  <2>5. TypeOK'
    <3>1. lastEpoch' \in [Relayers -> Epochs \cup {0}]
      BY <2>1, <2>4 DEF AnchorInv, TypeOK
    <3>2. fetched' \in [Relayers -> 0 .. MaxHeight]
      BY <2>1, AnchoringAssumption DEF AnchorInv, TypeOK
    <3> QED
      BY <1>1, <2>2, <2>3, <3>1, <3>2 DEF AnchorInv, TypeOK, contractVars
  <2>6. FetchedIsDue'
    BY <2>1 DEF AnchorInv, TypeOK, FetchedIsDue
  <2>7. PendingIsSound'
    BY <2>2, <2>3 DEF AnchorInv, PendingIsSound
  <2> QED
    BY <1>2, <2>5, <2>6, <2>7
<1>5. CASE SubmitFails(r) \/ restart(r)
  <2>1. /\ fetched' = [fetched EXCEPT ![r] = 0]
        /\ \/ lastEpoch' = lastEpoch
           \/ lastEpoch' = [lastEpoch EXCEPT ![r] = 0]
        /\ UNCHANGED pending
    BY <1>5 DEF SubmitFails, restart, Restart
  <2>2. TypeOK'
    <3>1. lastEpoch' \in [Relayers -> Epochs \cup {0}]
      BY <2>1 DEF AnchorInv, TypeOK
    <3>2. fetched' \in [Relayers -> 0 .. MaxHeight]
      BY <2>1, AnchoringAssumption DEF AnchorInv, TypeOK
    <3> QED
      BY <1>1, <2>1, <3>1, <3>2 DEF AnchorInv, TypeOK, contractVars
  <2>3. FetchedIsDue'
    BY <2>1 DEF AnchorInv, TypeOK, FetchedIsDue
  <2> QED
    BY <1>2, <2>1, <2>2, <2>3 DEF AnchorInv, PendingIsSound
<1> QED
  BY <1>3, <1>4, <1>5 DEF poll

\* submitCheckpoint writes the checkpoint of the transaction it executes.
LEMMA ExecuteInv ==
    ASSUME AnchorInv, NEW tx \in BagToSet(pending), Execute(tx)
    PROVE  AnchorInv'
<1>1. /\ tx \in CheckpointTxs
      /\ EpochOf(tx.blockHash + 1) = tx.epoch
  BY DEF AnchorInv, TypeOK, PendingIsSound
<1>2. tx.epoch \in Epochs /\ tx.epoch # 0 /\ tx.blockHash \in BlockHashes
  BY <1>1 DEF CheckpointTxs, Epochs
<1>3. /\ checkpoints' = [e \in DOMAIN checkpoints \cup {tx.epoch} |->
                           IF e = tx.epoch THEN tx.blockHash ELSE checkpoints[e]]
      /\ latestEpoch' = tx.epoch
      /\ UNCHANGED <<isRelayer, quorumRequired, lastEpoch, fetched, height>>
      /\ pending' = BagRemove(pending, tx)
  BY DEF Execute, submitCheckpoint, LeavesMempool
<1>4. BagToSet(pending') \subseteq BagToSet(pending)
  BY <1>3, MempoolElements
<1>5. /\ DOMAIN checkpoints' = DOMAIN checkpoints \cup {tx.epoch}
      /\ checkpoints'[tx.epoch] = tx.blockHash
      /\ \A e \in DOMAIN checkpoints \ {tx.epoch} : checkpoints'[e] = checkpoints[e]
  BY <1>3
<1>6. TypeOK'
  BY <1>2, <1>3, <1>4, <1>5 DEF AnchorInv, TypeOK
<1>7. FetchedIsDue' /\ PendingIsSound'
  BY <1>3, <1>4 DEF AnchorInv, FetchedIsDue, PendingIsSound
<1>8. LatestIsAnchored'
  BY <1>2, <1>3, <1>5 DEF LatestIsAnchored
<1>9. AnchoredBlockIsOfEpoch'
  BY <1>1, <1>5 DEF AnchorInv, AnchoredBlockIsOfEpoch
<1> QED
  BY <1>6, <1>7, <1>8, <1>9 DEF AnchorInv

\* A transaction that reverts or is lost changes nothing on the contract.
LEMMA LostInv ==
    ASSUME AnchorInv, NEW tx \in BagToSet(pending), Revert(tx) \/ Drop(tx)
    PROVE  AnchorInv'
<1>1. /\ UNCHANGED <<contractVars, lastEpoch, fetched, height>>
      /\ pending' = BagRemove(pending, tx)
  BY DEF Revert, Drop, LeavesMempool
<1>2. BagToSet(pending') \subseteq BagToSet(pending)
  BY <1>1, MempoolElements
<1> QED
  BY <1>1, <1>2 DEF AnchorInv, TypeOK, FetchedIsDue, PendingIsSound,
     LatestIsAnchored, AnchoredBlockIsOfEpoch, contractVars

\* A new block, or a call of the contract's owner.
LEMMA OwnerInv ==
    ASSUME AnchorInv, NewBlock \/ Owner
    PROVE  AnchorInv'
<1>1. CASE NewBlock
  <2>1. height' \in 0 .. MaxHeight
    BY <1>1, AnchoringAssumption DEF NewBlock, AnchorInv, TypeOK
  <2> QED
    BY <1>1, <2>1 DEF NewBlock, AnchorInv, TypeOK, FetchedIsDue, PendingIsSound,
       LatestIsAnchored, AnchoredBlockIsOfEpoch, contractVars, relayerVars
<1>2. CASE Owner
  <2>1. /\ UNCHANGED <<checkpoints, latestEpoch, relayerVars, height>>
        /\ isRelayer' \subseteq Relayers
        /\ quorumRequired' \in Nat
    BY <1>2, AnchoringAssumption
    DEF Owner, addRelayer, removeRelayer, setQuorum, AnchorInv, TypeOK
  <2> QED
    BY <2>1 DEF AnchorInv, TypeOK, FetchedIsDue, PendingIsSound,
       LatestIsAnchored, AnchoredBlockIsOfEpoch, relayerVars
<1> QED
  BY <1>1, <1>2

\* A step that changes nothing.
LEMMA StutterAnchorInv ==
    ASSUME AnchorInv, UNCHANGED vars
    PROVE  AnchorInv'
  BY DEF AnchorInv, TypeOK, FetchedIsDue, PendingIsSound, LatestIsAnchored,
     AnchoredBlockIsOfEpoch, vars, contractVars, relayerVars

\* Every step keeps the invariant.
LEMMA NextAnchorInv ==
    ASSUME AnchorInv, [Next]_vars
    PROVE  AnchorInv'
  BY PollInv, ExecuteInv, LostInv, OwnerInv, StutterAnchorInv DEF Next

\* The invariant holds in every state that chain, relayers, mempool and
\* contract reach together, whatever L1 loses and whatever the owner does.
THEOREM AnchoringInvariant == Spec => []AnchorInv
<1>1. Init => AnchorInv
  BY InitAnchorInv
<1>2. AnchorInv /\ [Next]_vars => AnchorInv'
  BY NextAnchorInv
<1> QED
  BY <1>1, <1>2, PTL DEF Spec

\* The variables of contract and relayers keep their types: no epoch 0 is
\* submitted, and no hash is of a block above the height.
THEOREM AnchoringTypeCorrectness == Spec => []TypeOK
<1>1. AnchorInv => TypeOK
  BY DEF AnchorInv
<1> QED
  BY <1>1, AnchoringInvariant, PTL

\* The contract holds, for each epoch, the parent of a block of that epoch,
\* however late the relayer's transaction is executed after the poll.
THEOREM AnchoredBlockTheorem == Spec => []AnchoredBlockIsOfEpoch
<1>1. AnchorInv => AnchoredBlockIsOfEpoch
  BY DEF AnchorInv
<1> QED
  BY <1>1, AnchoringInvariant, PTL

-----------------------------------------------------------------------------
(* Steps                                                                   *)

\* Only the execution of a transaction writes a checkpoint.
LEMMA OnlyExecuteAnchors ==
    ASSUME [Next]_vars
    PROVE  \/ UNCHANGED checkpoints
           \/ \E tx \in BagToSet(pending) : Execute(tx)
  BY DEF Next, NewBlock, poll, restart, Revert, Drop, Owner, addRelayer,
     removeRelayer, setQuorum, vars, contractVars

\* A checkpoint is written only by a transaction that members of the relayer set
\* signed, as many as the quorum, both as they are when it executes: what the
\* owner changed while it was in the mempool counts.
THEOREM QuorumTheorem == Spec => AnchoredUnderCurrentQuorum
<1> DEFINE Signed(e) ==
             \E tx \in BagToSet(pending) :
                /\ tx.epoch = e
                /\ tx.blockHash = checkpoints'[e]
                /\ tx.signers \subseteq isRelayer
                /\ MeetsQuorum(tx.signers)
<1>1. ASSUME [Next]_vars, NEW e \in DOMAIN checkpoints' \ DOMAIN checkpoints
      PROVE  Signed(e)
  <2>1. PICK tx \in BagToSet(pending) : Execute(tx)
    <3>1. checkpoints' # checkpoints
      BY <1>1
    <3> QED
      BY <1>1, <3>1, OnlyExecuteAnchors, Zenon
  <2>2. /\ checkpoints' = [f \in DOMAIN checkpoints \cup {tx.epoch} |->
                             IF f = tx.epoch THEN tx.blockHash ELSE checkpoints[f]]
        /\ tx.signers \subseteq isRelayer
        /\ MeetsQuorum(tx.signers)
    BY <2>1 DEF Execute, submitCheckpoint, Accepted, verifyRelayerSignatures
  <2>3. e = tx.epoch /\ checkpoints'[e] = tx.blockHash
    BY <1>1, <2>2
  <2> QED
    BY <2>2, <2>3, Zenon
<1>2. [Next]_vars =>
        [\A e \in DOMAIN checkpoints' \ DOMAIN checkpoints : Signed(e)]_vars
  BY <1>1
<1> QED
  BY <1>2, PTL DEF Spec, AnchoredUnderCurrentQuorum

\* The contract implements the log of checkpoints: it starts empty, and each
\* step appends the entry after the latest one or leaves the log alone, so no
\* checkpoint is ever replaced and no epoch between two anchored ones is missing.
THEOREM LogTheorem == Spec => ImplementsLog
<1>1. Init => Log!Init
  BY DEF Init, constructor, Log!Init
<1>2. ASSUME AnchorInv, [Next]_vars
      PROVE  [Log!Next]_checkpoints
  <2> SUFFICES ASSUME NEW tx \in BagToSet(pending), Execute(tx)
               PROVE  Log!Next
    BY <1>2, OnlyExecuteAnchors
  <2>1. tx.epoch \in Epochs /\ tx.blockHash \in BlockHashes
    BY <1>2 DEF AnchorInv, TypeOK, CheckpointTxs
  <2>2. /\ tx.epoch \notin DOMAIN checkpoints
        /\ latestEpoch # 0 => tx.epoch = latestEpoch + 1
        /\ checkpoints' = [e \in DOMAIN checkpoints \cup {tx.epoch} |->
                             IF e = tx.epoch THEN tx.blockHash ELSE checkpoints[e]]
    BY DEF Execute, submitCheckpoint, Accepted, EpochAccepted
  <2>3. DOMAIN checkpoints # {} => tx.epoch - 1 \in DOMAIN checkpoints
    BY <1>2, <2>2 DEF AnchorInv, LatestIsAnchored, TypeOK, Epochs
  <2>4. Log!Append(tx.epoch, tx.blockHash)
    BY <2>2, <2>3 DEF Log!Append
  <2> QED
    BY <2>1, <2>4 DEF Log!Next
<1> QED
  BY <1>1, <1>2, AnchoringInvariant, PTL DEF Spec, ImplementsLog, Log!Spec
=============================================================================
