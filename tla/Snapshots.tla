------------------------------ MODULE Snapshots -------------------------------
(****************************************************************************)
(* What the keys job promises to the readers: beside the block of el_meta   *)
(* they find, at every moment, exactly the modules of that block with the   *)
(* keys of that block, all of them replaced at once.  A later snapshot is   *)
(* never of an older height and never lacks a module of the one before.     *)
(* The modules are those whose id stands for one contract on every branch   *)
(* of the chain (KeysUpdate, OneAddress); for others the row that readers   *)
(* go by may name the contract of a branch that is gone.                    *)
(* HttpReads and ValidatorsExit take this promise from the job.             *)
(****************************************************************************)
EXTENDS Integers

CONSTANTS
    Blocks,     \* blocks the contracts can be read at
    NoBlock,    \* before the first snapshot
    Number,     \* block number
    Empty,      \* the content before the first snapshot
    Content     \* Content[b]: the keys of each module at block b

VARIABLES
    block,      \* the block of el_meta
    content     \* the keys a reader finds, module by module

vars == <<block, content>>

Init == block = NoBlock /\ content = Empty

(* A round of the keys job, as one step. *)
Publish(b) ==
    /\ block # NoBlock => Number[block] <= Number[b]
    /\ DOMAIN content \subseteq DOMAIN Content[b]
    /\ block' = b
    /\ content' = Content[b]

Next == \E b \in Blocks : Publish(b)

Spec == Init /\ [][Next]_vars
===============================================================================
