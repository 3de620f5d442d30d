---------------------------- MODULE RegistryMirror ----------------------------
(****************************************************************************)
(* What the key registry promises to the rest of the service for one        *)
(* staking module, with ALL the rows a reader can find in its operators and *)
(* keys tables.  An update is one step: every operator the contract has at  *)
(* the block becomes the contract's, row and keys, and every other operator *)
(* a reader can find stays exactly as it was, row and keys.  So the tables  *)
(* are not a picture of one block: an operator that an update saw on a      *)
(* branch that was reorganised away is still there after the next one       *)
(* (RegistrySyncPhantom), but whole, never with some of its rows gone or of *)
(* another block.  No update brings the tables to a block that conflicts    *)
(* with finality as a reader of the node sees it at that moment.            *)
(****************************************************************************)
CONSTANTS
    Blocks,     \* blocks the contract can be read at
    NoBlock,    \* before the first update
    Ancestors,  \* Ancestors[b]: the blocks of b's chain, b included
    Empty,      \* the tables before the first update
    Picture     \* Picture[b]: the contract's operators at block b with their keys

VARIABLES
    finalized,  \* the node's finalized block
    block,      \* block the tables were last brought to
    picture     \* all operators and keys a reader finds

vars == <<finalized, block, picture>>

Init == finalized \in Blocks /\ block = NoBlock /\ picture = Empty

(* Finality advances along one chain. *)
Finalize ==
    /\ finalized' \in Blocks
    /\ finalized \in Ancestors[finalized']
    /\ UNCHANGED <<block, picture>>

(* AbstractRegistryService.update at block b, as one step. *)
Update(b) ==
    /\ finalized \in Ancestors[b]
    /\ block' = b
    /\ picture' = [o \in DOMAIN picture |->
                      IF o \in DOMAIN Picture[b] THEN Picture[b][o] ELSE picture[o]]
    /\ UNCHANGED finalized

Next == Finalize \/ \E b \in Blocks : Update(b)

Spec == Init /\ [][Next]_vars
=============================================================================
