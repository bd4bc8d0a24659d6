--------------------------- MODULE CheckpointLog ---------------------------
(***************************************************************************)
(* What the L1 contract promises a node that bootstraps from it: a log of  *)
(* block hashes, one per epoch, without gaps, to which entries are only    *)
(* ever appended.                                                          *)
(***************************************************************************)
EXTENDS Integers

CONSTANTS Epochs, BlockHashes

VARIABLE log   \* block hash of each anchored epoch

Init == log = [e \in {} |-> 0]

\* The first entry may be any epoch; every other one follows the last.
Append(epoch, blockHash) ==
    /\ epoch \notin DOMAIN log
    /\ DOMAIN log # {} => epoch - 1 \in DOMAIN log
    /\ log' = [e \in DOMAIN log \cup {epoch} |->
                 IF e = epoch THEN blockHash ELSE log[e]]

Next == \E e \in Epochs, h \in BlockHashes : Append(e, h)

Spec == Init /\ [][Next]_log
=============================================================================
