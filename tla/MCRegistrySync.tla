---------------------------- MODULE MCRegistrySync ----------------------------
(****************************************************************************)
(* A small block tree for RegistrySync:                                     *)
(*                                                                          *)
(*            g0 --- a1 --- a2 --- a3                                       *)
(*                     \                                                    *)
(*                      b2 --- b3                                           *)
(*                                                                          *)
(* Operator 0 exists from g0.  Block by block: a1 deposits its first key;   *)
(* on branch a, a2 replaces its undeposited key, a3 removes that key and    *)
(* changes the reward address; on branch b, b2 deposits the second key (one *)
(* key more than a2 at the same height), b3 adds a third.  Operator 1 is    *)
(* added in a2 and exists on branch a only.                                 *)
(****************************************************************************)
EXTENDS RegistrySync

MCBlocks == {"g0", "a1", "a2", "a3", "b2", "b3"}

MCParent == [b \in MCBlocks |->
    CASE b = "g0" -> NoBlock
      [] b = "a1" -> "g0"
      [] b \in {"a2", "b2"} -> "a1"
      [] b = "a3" -> "a2"
      [] b = "b3" -> "b2"]

MCNumber == [b \in MCBlocks |->
    CASE b = "g0" -> 0
      [] b = "a1" -> 1
      [] b \in {"a2", "b2"} -> 2
      [] b \in {"a3", "b3"} -> 3]

MCAncestors == [b \in MCBlocks |->
    CASE b = "g0" -> {"g0"}
      [] b = "a1" -> {"g0", "a1"}
      [] b = "a2" -> {"g0", "a1", "a2"}
      [] b = "a3" -> {"g0", "a1", "a2", "a3"}
      [] b = "b2" -> {"g0", "a1", "b2"}
      [] b = "b3" -> {"g0", "a1", "b2", "b3"}]

MCRewards == {"r1", "r2"}
MCKeys == {"k0", "k1", "k2", "k3", "none"}

MCOpCount == [b \in MCBlocks |-> IF b \in {"a2", "a3"} THEN 2 ELSE 1]

Op(reward, used, limit, total) ==
    [reward |-> reward, limit |-> limit, total |-> total, used |-> used]

Absent == Op("r1", 0, 0, 0)

MCOperator == [b \in MCBlocks |-> [o \in 0..1 |->
    CASE o = 0 /\ b = "g0" -> Op("r1", 0, 1, 2)
      [] o = 0 /\ b = "a1" -> Op("r1", 1, 1, 2)
      [] o = 0 /\ b = "a2" -> Op("r1", 1, 2, 2)
      [] o = 0 /\ b = "a3" -> Op("r2", 1, 1, 1)
      [] o = 0 /\ b = "b2" -> Op("r1", 2, 2, 2)
      [] o = 0 /\ b = "b3" -> Op("r1", 2, 3, 3)
      [] o = 1 /\ b = "a2" -> Op("r1", 0, 0, 1)
      [] o = 1 /\ b = "a3" -> Op("r1", 1, 1, 1)
      [] OTHER -> Absent]]

(* Keys of operator 0 and of operator 1, by index. *)
MCSigningKey == [b \in MCBlocks |-> [o \in 0..1 |-> [i \in 0..2 |->
    CASE o = 0 /\ i = 0 -> "k0"
      [] o = 0 /\ i = 1 -> IF b = "a2" THEN "k2" ELSE "k1"
      [] o = 0 /\ i = 2 -> IF b = "b3" THEN "k3" ELSE "none"
      [] o = 1 /\ i = 0 -> "k3"
      [] OTHER -> "none"]]]
=============================================================================
