----------------------------- MODULE ContractRead -----------------------------
(****************************************************************************)
(* What one read of a module's contract promises to the update that asked   *)
(* for it (AbstractRegistryService.update): the operators and the keys of   *)
(* one block, all of them, or nothing.  RegistrySync takes its reads to be  *)
(* that; ContractFetch shows that the requests they are made of, sent in    *)
(* batches and answered in any order or not at all, come to it.             *)
(****************************************************************************)
EXTENDS ModuleContract

VARIABLES
    type,       \* the module's type
    asked,      \* the block asked for, if a read is going on
    picture     \* what was read, if it was: a set of one picture or of none

vars == <<type, asked, picture>>

(* p shows block b: every operator, and of each its keys from some border   *)
(* on (the keys before it are not asked for).                               *)
Shows(b, p) ==
    /\ DOMAIN p.operators = Indices(b)
    /\ \A o \in Indices(b) : IsOperator(type, b, o, p.operators[o])
    /\ DOMAIN p.keys = Indices(b)
    /\ \A o \in Indices(b) : \E from \in 0 .. OperatorsAt[b][o].added :
         p.keys[o] = {ContractKey(b, o, i) : i \in from .. (OperatorsAt[b][o].added - 1)}

Init ==
    /\ type \in STAKING_MODULE_TYPE
    /\ asked = None
    /\ picture = {}

Ask ==
    /\ asked' \in Blocks
    /\ picture' = {}
    /\ UNCHANGED type

Read ==
    /\ asked # None
    /\ picture = {}
    /\ \E p \in picture' : Shows(asked, p) /\ picture' = {p}
    /\ UNCHANGED <<type, asked>>

GiveUp ==
    /\ asked' = None
    /\ picture' = {}
    /\ UNCHANGED type

Spec == Init /\ [][Ask \/ Read \/ GiveUp]_vars
=============================================================================
