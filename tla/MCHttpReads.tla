---------------------------- MODULE MCHttpReads ----------------------------
(* Snapshot 1 has one module, from snapshot 2 on there are two. The number *)
(* of rows changes from snapshot to snapshot; a pubkey is found first in   *)
(* snapshot 2.                                                             *)
EXTENDS HttpReads

ModulesIn(s) == CASE s = 0 -> {} [] s = 1 -> {"curated"} [] OTHER -> {"curated", "csm"}

Found(e, s, m) ==
    CASE e \in EmptyIsNotFound -> (IF m = "curated" /\ s >= 2 THEN 1 ELSE 0)
      [] m = "curated"         -> 1 + (s % 2)
      [] OTHER                 -> s
============================================================================
