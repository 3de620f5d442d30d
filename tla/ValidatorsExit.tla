---------------------------- MODULE ValidatorsExit ----------------------------
(***************************************************************************)
(* The readers that join the two databases the jobs fill independently: the *)
(* keys of the Execution Layer (EL) and the validators of the Consensus    *)
(* Layer (CL).  Source:                                                    *)
(*   http/sr-modules-validators/sr-modules-validators.service.ts           *)
(*   validators/validators.service.ts, http/status/status.service.ts       *)
(*                                                                         *)
(* Both jobs commit whole snapshots and only move forward; el and cl are   *)
(* the EL block numbers of the two snapshots last committed (0: none yet). *)
(* A request reads in one REPEATABLE READ transaction, in several queries  *)
(* between which either job may commit.  One request is modelled: requests *)
(* only read, and do not meet.  The two endpoints for exits differ only in *)
(* the fields of a validator they print.                                   *)
(***************************************************************************)
EXTENDS Naturals, FiniteSets

CONSTANTS
    MaxBlock,       \* bound: the last EL block a snapshot is taken at
    Pubkeys,        \* the keys one operator of one module ever has
    Index,          \* the validator index the CL gives to each of them
    KeysAt(_),      \* the operator's keys in the contract at a block
    UsedAt(_),      \* those of them that are deposited (used) at a block
    ExitableAt(_),  \* the keys with a validator that is active or pending in
                    \* the CL snapshot whose EL block this is
    ModuleSince,    \* the first block at which the module is in the router
    Percents,       \* the values of ?percent a client sends
    Amounts,        \* the values of ?max_amount a client sends
    None            \* a parameter that is not sent, or sent empty

Blocks == 0 .. MaxBlock

\* The index identifies a validator; a used key stays in the contract.
ASSUME ExitAssumption ==
    /\ MaxBlock \in Nat /\ ModuleSince \in Nat \ {0}
    /\ IsFiniteSet(Pubkeys)
    /\ Index \in [Pubkeys -> Nat]
    /\ \A v, w \in Pubkeys : Index[v] = Index[w] => v = w
    /\ Percents \subseteq Nat /\ Amounts \subseteq Nat /\ None \notin Nat

ASSUME ChainAssumption ==
    \A b \in Blocks :
        /\ UsedAt(b) \subseteq KeysAt(b) /\ KeysAt(b) \subseteq Pubkeys
        /\ ExitableAt(b) \subseteq Pubkeys
        /\ \A c \in Blocks : b <= c => UsedAt(b) \subseteq UsedAt(c)

Query == [percent : Percents \cup {None}, max_amount : Amounts \cup {None}]

VARIABLES
    enabled,    \* VALIDATOR_REGISTRY_ENABLE, read when the process starts
    el,         \* block of the keys snapshot last committed
    cl,         \* block of the validators snapshot last committed
    moments,    \* history: the pairs (el, cl) the database has held
    pc,         \* where the request stands
    query,      \* its parameters
    view,       \* the pair its transaction sees, fixed by its first query
    elMeta,     \* the EL meta it has read
    keys,       \* the keys it has read
    reply       \* the last answer

vars == <<enabled, el, cl, moments, pc, query, view, elMeta, keys, reply>>
jobs == <<el, cl, moments>>

Now == [el |-> el, cl |-> cl]
Pair == [el : Blocks, cl : Blocks]
Kind == {"none", "exits", "status"}

\* Status code, the validators listed and the two snapshots it was made of
Answer(kind, code, list, meta) ==
    [kind |-> kind, code |-> code, list |-> list, meta |-> meta]
Empty == [el |-> 0, cl |-> 0]
Nothing == Answer("none", 0, {}, Empty)

Init ==
    /\ enabled \in BOOLEAN
    /\ el = 0 /\ cl = 0
    /\ moments = {Empty}
    /\ pc = "idle"
    /\ query = [percent |-> None, max_amount |-> None]
    /\ view = Empty
    /\ elMeta = 0
    /\ keys = {}
    /\ reply = Nothing

(***************************************************************************)
(* The choice of validators: they are sorted by index and a prefix is cut. *)
(***************************************************************************)

\* Mutant of Oldest: the order of the sort is descending.
OldestDescending(S, k) ==
    {v \in S : Cardinality({w \in S : Index[w] >= Index[v]}) <= k}

\* The k validators of S with the lowest indexes; all of S if it has fewer.
Oldest(S, k) == {v \in S : Cardinality({w \in S : Index[w] <= Index[v]}) <= k}

\* Math.ceil(length * percent / 100)
PercentOf(S, percent) == Oldest(S, (Cardinality(S) * percent + 99) \div 100)

EffectivePercent(q) ==
    IF q.percent = None /\ q.max_amount = None THEN 10 ELSE q.percent

\* In JavaScript undefined and 0 are both falsy.
Truthy(x) == x \notin {None, 0}

\* getOldestValidators, after the database has returned the validators S
Chosen(S, q) ==
    LET percent == EffectivePercent(q)
    IN  IF Truthy(percent)           THEN PercentOf(S, percent)
        ELSE IF Truthy(q.max_amount) THEN Oldest(S, q.max_amount)
        ELSE IF percent = 0          THEN {}
        ELSE S

\* The validators the registry returns for the keys, in the exit statuses.
Exitable(known, b) == known \cap ExitableAt(b)

-----------------------------------------------------------------------------
(***************************************************************************)
(* The jobs.  Each commits a whole snapshot in one transaction, and neither *)
(* waits for the other.  A disabled registry is never updated.             *)
(***************************************************************************)

CommitKeys ==
    /\ el' \in (el + 1) .. MaxBlock
    /\ moments' = moments \cup {[el |-> el', cl |-> cl]}
    /\ UNCHANGED <<enabled, cl, pc, query, view, elMeta, keys, reply>>

CommitValidators ==
    /\ enabled
    /\ cl' \in (cl + 1) .. MaxBlock
    /\ moments' = moments \cup {[el |-> el, cl |-> cl']}
    /\ UNCHANGED <<enabled, el, pc, query, view, elMeta, keys, reply>>

-----------------------------------------------------------------------------
(***************************************************************************)
(* A request for validators to exit.                                       *)
(***************************************************************************)

\* Mutant of Seen: every query sees what is committed when it runs.
SeenCommitted == Now

Seen == view

Finish(kind, code, list, meta) ==
    /\ pc' = "idle"
    /\ reply' = Answer(kind, code, list, meta)

RegistryDisabled ==
    /\ pc = "idle" /\ ~enabled
    /\ Finish("exits", 500, {}, Empty)
    /\ UNCHANGED <<enabled, jobs, query, view, elMeta, keys>>

AskExits ==
    /\ pc = "idle" /\ enabled
    /\ query' \in Query
    /\ pc' = "module"
    /\ reply' = Nothing
    /\ UNCHANGED <<enabled, jobs, view, elMeta, keys>>

\* getStakingModuleAndMeta. Modules and EL meta are committed together: where
\* the meta is null there is no module either, and 404 comes before 425.
Lookup(b) ==
    IF b < ModuleSince THEN 404 ELSE IF b = 0 THEN 425 ELSE 200

\* The first query of the transaction fixes what it sees.
ReadModule ==
    /\ pc = "module"
    /\ view' = Now
    /\ elMeta' = el
    /\ IF Lookup(el) = 200
       THEN pc' = "keys" /\ UNCHANGED reply
       ELSE Finish("exits", Lookup(el), {}, Empty)
    /\ UNCHANGED <<enabled, jobs, query, keys>>

\* moduleInstance.getKeys(address, { operatorIndex }): used or not
ReadKeys ==
    /\ pc = "keys"
    /\ keys' = KeysAt(Seen.el)
    /\ pc' = "validators"
    /\ UNCHANGED <<enabled, jobs, query, view, elMeta, reply>>

\* Mutant of Verdict: the blocks of the two snapshots are not compared.
VerdictOfMetaAlone(seenEl, seenCl) == IF seenCl = 0 THEN 425 ELSE 200

Verdict(seenEl, seenCl) ==
    IF seenCl = 0 THEN 425 ELSE IF seenEl < seenCl THEN 500 ELSE 200

\* The validators and their meta, the choice, and the two late checks
ReadValidators ==
    /\ pc = "validators"
    /\ LET code == Verdict(elMeta, Seen.cl)
       IN  IF code = 200
           THEN Finish("exits", 200, Chosen(Exitable(keys, Seen.cl), query),
                       [el |-> elMeta, cl |-> Seen.cl])
           ELSE Finish("exits", code, {}, Empty)
    /\ UNCHANGED <<enabled, jobs, query, view, elMeta, keys>>

-----------------------------------------------------------------------------
(***************************************************************************)
(* GET /v1/status: the EL meta and the CL meta, in one transaction         *)
(***************************************************************************)

AskStatus ==
    /\ pc = "idle"
    /\ pc' = "elMeta"
    /\ reply' = Nothing
    /\ UNCHANGED <<enabled, jobs, query, view, elMeta, keys>>

ReadElMeta ==
    /\ pc = "elMeta"
    /\ view' = Now
    /\ elMeta' = el
    /\ pc' = "clMeta"
    /\ UNCHANGED <<enabled, jobs, query, keys, reply>>

\* Mutant of ReadClMeta: the null of a disabled registry is sent as it is.
ReadClMetaUnchecked ==
    /\ pc = "clMeta"
    /\ Finish("status", 200, {},
              [el |-> elMeta, cl |-> IF enabled THEN Seen.cl ELSE None])
    /\ UNCHANGED <<enabled, jobs, query, view, elMeta, keys>>

\* A disabled registry is not asked: the CL meta is null.
ReadClMeta ==
    /\ pc = "clMeta"
    /\ Finish("status", 200, {}, [el |-> elMeta, cl |-> IF enabled THEN Seen.cl ELSE 0])
    /\ UNCHANGED <<enabled, jobs, query, view, elMeta, keys>>

-----------------------------------------------------------------------------

\* Any query of the transaction may fail; the exception filter answers 500.
QueryFails ==
    /\ pc # "idle"
    /\ Finish(IF pc \in {"elMeta", "clMeta"} THEN "status" ELSE "exits", 500, {}, Empty)
    /\ UNCHANGED <<enabled, jobs, query, view, elMeta, keys>>

\* The process stops and starts again, perhaps with another configuration.
\* The database survives.
Restart ==
    /\ enabled' \in BOOLEAN
    /\ pc' = "idle"
    /\ reply' = Nothing
    /\ UNCHANGED <<jobs, query, view, elMeta, keys>>

Next ==
    \/ CommitKeys \/ CommitValidators
    \/ RegistryDisabled \/ AskExits \/ ReadModule \/ ReadKeys \/ ReadValidators
    \/ AskStatus \/ ReadElMeta \/ ReadClMeta
    \/ QueryFails \/ Restart

Spec == Init /\ [][Next]_vars

-----------------------------------------------------------------------------
(***************************************************************************)
(* Properties                                                              *)
(***************************************************************************)

\* Type invariant: where a request can stand and what it can hold.
TypeOK ==
    /\ enabled \in BOOLEAN
    /\ el \in Blocks /\ cl \in Blocks
    /\ moments \subseteq Pair
    /\ pc \in {"idle", "module", "keys", "validators", "elMeta", "clMeta"}
    /\ query \in Query
    /\ view \in Pair /\ elMeta \in Blocks
    /\ keys \subseteq Pubkeys
    /\ reply \in [kind : Kind, code : {0, 200, 404, 425, 500}, list : SUBSET Pubkeys,
                  meta : Pair]

\* A list of validators was sent.
Listed == reply.kind = "exits" /\ reply.code = 200

\* The validators a listing is chosen from, by the snapshots it was made of
Candidates == KeysAt(reply.meta.el) \cap ExitableAt(reply.meta.cl)

\* An exit list holds only validators of the operator that can exit, and no
\* validator it leaves out is older than one it names: operators exit oldest
\* first, whatever the jobs commit while the list is made.
ExitListIsOldest ==
    Listed =>
        /\ reply.list \subseteq Candidates
        /\ \A v \in reply.list, w \in Candidates \ reply.list : Index[v] < Index[w]

\* Every exitable validator belongs to a key that was used by the block of
\* its snapshot: nobody deposits to a key of the operator but the module.
DepositsByModule ==
    \A b, e \in Blocks : ExitableAt(b) \cap KeysAt(e) \subseteq UsedAt(b)

\* The reply names only the CL snapshot, and that is enough: two replies with
\* the same CL block and the same parameters are the same list, whatever keys
\* snapshot each was made from. A keys snapshot older than the CL snapshot
\* would miss validators; the comparison of block numbers refuses it.
MetaDeterminesReply ==
    Listed =>
        reply.list = Chosen(UsedAt(reply.meta.cl) \cap ExitableAt(reply.meta.cl), query)

\* The two snapshots of a status reply were in the database together.
StatusIsOneMoment ==
    reply.kind = "status" /\ reply.code = 200 =>
        \E m \in moments :
            /\ reply.meta.el = m.el
            /\ reply.meta.cl = IF enabled THEN m.cl ELSE 0

=============================================================================
