------------------------------- MODULE ELChain -------------------------------
(****************************************************************************)
(* The execution-layer chain as the Keys API sees it: a tree of blocks,     *)
(* each with its parent hash and its number.  A block stands for its hash;  *)
(* the service asks the node for a block by tag ('latest', 'finalized'),    *)
(* by hash or by number, and for contract state "at" a hash.                *)
(*                                                                          *)
(* The chain is not part of the service.  It is given by constants, so that *)
(* a configuration draws one tree by hand and a proof ranges over all.      *)
(****************************************************************************)
EXTENDS Integers

CONSTANTS
    Blocks,     \* block hashes
    NoBlock,    \* "no such block": parent of the root, absent value in the db
    Parent,     \* parent hash of a block, NoBlock at the root of the tree
    Number,     \* block number
    Ancestors   \* the blocks on the chain that ends in a block, itself included

(* What a chain of blocks is: the only facts about it the proofs use. *)
ASSUME ChainAssumption ==
    /\ NoBlock \notin Blocks
    /\ Parent \in [Blocks -> Blocks \cup {NoBlock}]
    /\ Number \in [Blocks -> Nat]
    /\ Ancestors \in [Blocks -> SUBSET Blocks]
    /\ \A b \in Blocks :
         /\ Ancestors[b] =
              {b} \cup (IF Parent[b] = NoBlock THEN {} ELSE Ancestors[Parent[b]])
         /\ Parent[b] # NoBlock => Number[b] = Number[Parent[b]] + 1
         /\ \A a \in Ancestors[b] : Ancestors[a] \subseteq Ancestors[b]
         /\ \A a1, a2 \in Ancestors[b] : Number[a1] = Number[a2] => a1 = a2

(* The answer of a node whose head is `head' to "the block with number n". *)
AtNumber(head, n) ==
    IF \E b \in Ancestors[head] : Number[b] = n
    THEN CHOOSE b \in Ancestors[head] : Number[b] = n
    ELSE NoBlock

(* The blocks a node whose head is `head' answers for the numbers in a range. *)
Between(head, from, to) == {b \in Ancestors[head] : Number[b] \in from..to}
=============================================================================
