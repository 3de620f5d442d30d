----------------------------- MODULE MCKeysUpdate -----------------------------
(****************************************************************************)
(* A small block tree for KeysUpdate:                                       *)
(*                                                                          *)
(*      g0 --- a1 --- a2 --- a3 --- a4                                      *)
(*               \                                                          *)
(*                b2 --- b3 --- b4                                          *)
(*                                                                          *)
(* Module 1 (curated) exists from g0.  Its nonce moves in a1, and in a2 and *)
(* b2 to the SAME value with different keys; a3 and b3 rename an operator   *)
(* without touching the nonce.  Module 2 (csm) appears in a2 on one branch  *)
(* and in b3 on the other, again with one nonce and two key sets; a4        *)
(* changes a reward address of it.  Module 3 (curated, as the second module *)
(* of that type is) appears in a3 and in b3 with DIFFERENT addresses, D and *)
(* E, so its row, which keeps the address it was made with, is wrong after  *)
(* a reorganisation.  b4 brings a module of a type that is not known.       *)
(* With MaxBlocksOverlap = 3 a round from g0 or a1 to a4 is "too much       *)
(* difference", shorter ones are checked.                                   *)
(****************************************************************************)
EXTENDS KeysUpdate

MCBlocks == {"g0", "a1", "a2", "a3", "a4", "b2", "b3", "b4"}

MCParent == [b \in MCBlocks |->
    CASE b = "g0" -> NoBlock
      [] b = "a1" -> "g0"
      [] b \in {"a2", "b2"} -> "a1"
      [] b = "a3" -> "a2"
      [] b = "a4" -> "a3"
      [] b = "b3" -> "b2"
      [] b = "b4" -> "b3"]

MCNumber == [b \in MCBlocks |->
    CASE b = "g0" -> 0
      [] b = "a1" -> 1
      [] b \in {"a2", "b2"} -> 2
      [] b \in {"a3", "b3"} -> 3
      [] b \in {"a4", "b4"} -> 4]

MCAncestors == [b \in MCBlocks |->
    CASE b = "g0" -> {"g0"}
      [] b = "a1" -> {"g0", "a1"}
      [] b = "a2" -> {"g0", "a1", "a2"}
      [] b = "a3" -> {"g0", "a1", "a2", "a3"}
      [] b = "a4" -> {"g0", "a1", "a2", "a3", "a4"}
      [] b = "b2" -> {"g0", "a1", "b2"}
      [] b = "b3" -> {"g0", "a1", "b2", "b3"}
      [] b = "b4" -> {"g0", "a1", "b2", "b3", "b4"}]

MCAddresses  == {"A", "B", "C", "D", "E"}
MCKnownTypes == {"curated", "csm"}
MCTypes      == MCKnownTypes \cup {"new"}
MCTypeOf     == [a \in MCAddresses |->
    CASE a \in {"A", "D", "E"} -> "curated" [] a = "B" -> "csm" [] a = "C" -> "new"]

MCModuleCount == [b \in MCBlocks |->
    CASE b \in {"g0", "a1", "b2"} -> 1
      [] b = "a2" -> 2
      [] b \in {"a3", "a4", "b3"} -> 3
      [] b = "b4" -> 4]

MCAddress == [b \in MCBlocks |-> [m \in 1..4 |->
    CASE m = 1 -> "A"
      [] m = 2 -> "B"
      [] m = 3 -> IF b \in {"b2", "b3", "b4"} THEN "E" ELSE "D"
      [] m = 4 -> "C"]]

MCNonce == [b \in MCBlocks |-> [a \in MCAddresses |->
    CASE a = "A" -> (CASE b = "g0" -> 0 [] b = "a1" -> 1 [] OTHER -> 2)
      [] a \in {"B", "C"} -> IF b \in {"g0", "a1", "b2"} THEN 0 ELSE 1
      [] a = "D" -> IF b \in {"a3", "a4"} THEN 1 ELSE 0
      [] a = "E" -> IF b \in {"b3", "b4"} THEN 1 ELSE 0]]

MCKeyset == [b \in MCBlocks |-> [a \in MCAddresses |->
    CASE a = "A" -> (CASE b = "g0" -> "none"
                       [] b = "a1" -> "k1"
                       [] b \in {"a2", "a3", "a4"} -> "k2"
                       [] b \in {"b2", "b3", "b4"} -> "k3")
      [] a \in {"B", "C"} -> (CASE b \in {"g0", "a1", "b2"} -> "none"
                                [] b \in {"a2", "a3", "a4"} -> "q1"
                                [] b \in {"b3", "b4"} -> "q2")
      [] a = "D" -> IF b \in {"a3", "a4"} THEN "d" ELSE "none"
      [] a = "E" -> IF b \in {"b3", "b4"} THEN "e" ELSE "none"]]

MCNames == [b \in MCBlocks |-> [a \in MCAddresses |->
    IF a = "A"
    THEN CASE b \in {"a3", "a4"} -> "renamed"
           [] b \in {"b3", "b4"} -> "renamed otherwise"
           [] OTHER -> "original"
    ELSE IF a = "B" /\ b = "a4" THEN "new address" ELSE "original"]]

MCTopics == [b \in MCBlocks |->
    CASE b \in {"a3", "b3"} -> {"curated"}
      [] b = "a4" -> {"csm"}
      [] OTHER -> {}]

\* A node at a4 has forgotten the other branch; any other node has every block.
MCKnown == [b \in MCBlocks |-> IF b = "a4" THEN MCAncestors["a4"] ELSE MCBlocks]
=============================================================================
