----------------------------- MODULE RegistrySync -----------------------------
(****************************************************************************)
(* AbstractRegistryService.update (src/common/registry/main, and its CSM    *)
(* copy in src/common/registry-csm/main): bring the operators and keys      *)
(* tables of ONE staking module to the contract's state at a block hash.    *)
(*                                                                          *)
(* The hard part is what the code does NOT fetch.  For an operator whose    *)
(* reward address is unchanged the keys below its stored                    *)
(* finalizedUsedSigningKeys are kept as they are in the db.  That number is *)
(* read with the block tag 'finalized' when the operator is fetched, on its *)
(* own, not at the hash the rest of the operator is read at; meanwhile the  *)
(* head reorganises and finality advances.                                  *)
(*                                                                          *)
(* Everything the update writes is inside the transaction KeysUpdateService *)
(* opened: ops/keys are the committed tables (what HTTP readers see),       *)
(* workOps/workKeys the writer's uncommitted copy.                          *)
(****************************************************************************)
EXTENDS ELChain

CONSTANTS
    NOperators,     \* operator indices are 0..NOperators-1 on every branch
    NKeys,          \* key indices are 0..NKeys-1 on every branch
    OpCount,        \* OpCount[b]: getNodeOperatorsCount at block b
    Operator,       \* Operator[b][o]: getNodeOperator at block b
    SigningKey,     \* SigningKey[b][o][i]: key and signature stored at index i
    Rewards, Keys,  \* reward addresses; key material
    NoRow,          \* no such row in a table
    FinalityWaits   \* timing assumption: an update is shorter than finality

Ops   == 0 .. NOperators - 1
Slots == 0 .. NKeys - 1

(* An operator as the contract returns it at one block. *)
OnChainOperators ==
    [reward : Rewards, limit : 0..NKeys, total : 0..NKeys, used : 0..NKeys]

(* A row of the operators table; fin is finalizedUsedSigningKeys. *)
OperatorRows ==
    [reward : Rewards, limit : 0..NKeys, total : 0..NKeys, used : 0..NKeys,
     fin : 0..NKeys]

(* A row of the keys table. *)
KeyRows == [key : Keys, used : BOOLEAN, vetted : BOOLEAN]

(* What the staking module's contract guarantees along one chain: operators *)
(* are never removed, deposited keys stay deposited, stay at their index    *)
(* and stay vetted.                                                         *)
ASSUME ContractAssumption ==
    /\ NOperators \in Nat
    /\ NKeys \in Nat
    /\ FinalityWaits \in BOOLEAN
    /\ NoRow \notin OperatorRows
    /\ NoRow \notin KeyRows
    /\ OpCount \in [Blocks -> 0..NOperators]
    /\ Operator \in [Blocks -> [Ops -> OnChainOperators]]
    /\ SigningKey \in [Blocks -> [Ops -> [Slots -> Keys]]]
    /\ \A b \in Blocks, o \in Ops :
         /\ Operator[b][o].used <= Operator[b][o].limit
         /\ Operator[b][o].limit <= Operator[b][o].total
    /\ \A b \in Blocks : \A f \in Ancestors[b] :
         /\ OpCount[f] <= OpCount[b]
         /\ \A o \in Ops : o < OpCount[f] =>
              /\ Operator[f][o].used <= Operator[b][o].used
              /\ \A i \in Slots : i < Operator[f][o].used =>
                   SigningKey[f][o][i] = SigningKey[b][o][i]

-----------------------------------------------------------------------------

VARIABLES
    latest,         \* head of the chain, the node's answer to 'latest'
    finalized,      \* the node's answer to 'finalized'
    ops, keys,      \* committed operators and keys tables
    synced,         \* block of the last committed update
    pc,             \* where the update is
    target,         \* blockHash the update works on
    previous,       \* previousOperators: the operators table before the update
    current,        \* currentOperators: operators fetched so far
    workOps,        \* the transaction's operators table
    workKeys,       \* the transaction's keys table
    next            \* currentIndex of the loop in syncUpdatedKeysWithContract

chain    == <<latest, finalized>>
tables   == <<ops, keys, synced>>
work     == <<workOps, workKeys>>
vars     == <<chain, tables, pc, target, previous, current, work, next>>

Phases == {"idle", "called", "fetching", "syncing"}

NoOperators == [o \in Ops |-> NoRow]
NoKeys      == [o \in Ops |-> [i \in Slots |-> NoRow]]

Init ==
    /\ latest \in Blocks
    /\ finalized \in Ancestors[latest]
    /\ ops = NoOperators
    /\ keys = NoKeys
    /\ synced = NoBlock
    /\ pc = "idle"
    /\ target = NoBlock
    /\ previous = NoOperators
    /\ current = NoOperators
    /\ workOps = NoOperators
    /\ workKeys = NoKeys
    /\ next = 0

-----------------------------------------------------------------------------
(* The contract as the update reads it. *)

Exists(b, o) == o < OpCount[b]

(* The key rows the service would store if it fetched operator o entirely. *)
ContractKeys(b, o) ==
    [i \in Slots |->
        IF i < Operator[b][o].total
        THEN [key    |-> SigningKey[b][o][i],
              used   |-> i < Operator[b][o].used,
              vetted |-> i < Operator[b][o].limit]
        ELSE NoRow]

(* Mutants of FinalizedUsed: no answer on failure; read at the target.      *)
FinalizedUsedUndefined(o) ==
    {NoRow} \cup (IF Exists(finalized, o) THEN {Operator[finalized][o].used} ELSE {})

FinalizedUsedAtTarget(o) == {0, Operator[target][o].used}

(* getFinalizedNodeOperatorUsedSigningKeys: the count at the block that is  *)
(* finalized NOW, and 0 when the call fails or the operator is not there.   *)
FinalizedUsed(o) ==
    {0} \cup (IF Exists(finalized, o) THEN {Operator[finalized][o].used} ELSE {})

(* fetchOne: the operator at the target, with the finalized count. *)
FetchedOperator(b, o, fin) ==
    [reward |-> Operator[b][o].reward, limit |-> Operator[b][o].limit,
     total  |-> Operator[b][o].total,  used  |-> Operator[b][o].used,
     fin    |-> fin]

(* compareOperators: only the reward address counts, null equals nothing. *)
IsSameOperator(prev, curr) ==
    /\ prev # NoRow
    /\ prev.reward = curr.reward

(* Mutant of UnchangedKeysMaxIndex: skip by usedSigningKeys, as the comment *)
(* above the code says.                                                     *)
UnchangedByUsed(prev, curr) ==
    IF IsSameOperator(prev, curr) THEN prev.used ELSE 0

(* Keys below this index are left as they are in the db. *)
UnchangedKeysMaxIndex(prev, curr) ==
    IF IsSameOperator(prev, curr) THEN prev.fin ELSE 0

FromIndex(prev, curr) ==
    LET unchanged == UnchangedKeysMaxIndex(prev, curr)
    IN  IF unchanged <= curr.total THEN unchanged ELSE 0

-----------------------------------------------------------------------------
(* The environment. *)

(* The node's head moves: a new block, a reorganisation, or an answer from  *)
(* another node.  A finalized block is never reorganised away.              *)
HeadMoves ==
    /\ \E b \in Blocks \ {latest} :
         /\ finalized \in Ancestors[b]
         /\ latest' = b
    /\ UNCHANGED <<finalized, tables, pc, target, previous, current, work, next>>

(* Finality advances along the canonical chain.  Under FinalityWaits it     *)
(* does not pass the block an update in progress works on.                  *)
FinalityAdvances ==
    /\ \E b \in Ancestors[latest] \ {finalized} :
         /\ finalized \in Ancestors[b]
         /\ FinalityWaits /\ pc # "idle" => b \in Ancestors[target]
         /\ finalized' = b
    /\ UNCHANGED <<latest, tables, pc, target, previous, current, work, next>>

-----------------------------------------------------------------------------
(* The update. *)

(* KeysUpdateService took the hash of 'latest' for this round. *)
ChooseTarget ==
    /\ pc = "idle"
    /\ target' = latest
    /\ pc' = "called"
    /\ UNCHANGED <<chain, tables, previous, current, work, next>>

(* update reads previousOperators before anything is fetched. *)
ReadStorage ==
    /\ pc = "called"
    /\ previous' = ops
    /\ current' = NoOperators
    /\ pc' = "fetching"
    /\ UNCHANGED <<chain, tables, target, work, next>>

(* getOperatorsFromContract: the operators of a batch are fetched           *)
(* concurrently, so in any order; each reads 'finalized' for itself.        *)
FetchOperator(o) ==
    /\ pc = "fetching"
    /\ Exists(target, o)
    /\ current[o] = NoRow
    /\ \E fin \in FinalizedUsed(o) :
         current' = [current EXCEPT ![o] = FetchedOperator(target, o, fin)]
    /\ UNCHANGED <<chain, tables, pc, target, previous, work, next>>

(* Mutant of SaveOperators: operators that were not fetched are deleted,    *)
(* their keys are forgotten.                                                *)
SaveOperatorsDroppingOthers ==
    /\ pc = "fetching"
    /\ \A o \in Ops : Exists(target, o) => current[o] # NoRow
    /\ workOps' = current
    /\ workKeys' = [o \in Ops |-> [i \in Slots |->
                       IF Exists(target, o) /\ i >= current[o].total
                       THEN NoRow ELSE keys[o][i]]]
    /\ next' = 0
    /\ pc' = "syncing"
    /\ UNCHANGED <<chain, tables, target, previous, current>>

(* Mutant of SaveOperators: keys removed on the contract are not deleted.   *)
SaveOperatorsKeepingKeys ==
    /\ pc = "fetching"
    /\ \A o \in Ops : Exists(target, o) => current[o] # NoRow
    /\ workOps' = [o \in Ops |-> IF Exists(target, o) THEN current[o] ELSE ops[o]]
    /\ workKeys' = keys
    /\ next' = 0
    /\ pc' = "syncing"
    /\ UNCHANGED <<chain, tables, target, previous, current>>

(* saveOperators: drop the keys at or beyond each operator's total, upsert  *)
(* the operators.  Operators that are not in currentOperators are kept.     *)
SaveOperators ==
    /\ pc = "fetching"
    /\ \A o \in Ops : Exists(target, o) => current[o] # NoRow
    /\ workOps' = [o \in Ops |-> IF Exists(target, o) THEN current[o] ELSE ops[o]]
    /\ workKeys' = [o \in Ops |-> [i \in Slots |->
                       IF Exists(target, o) /\ i >= current[o].total
                       THEN NoRow ELSE keys[o][i]]]
    /\ next' = 0
    /\ pc' = "syncing"
    /\ UNCHANGED <<chain, tables, target, previous, current>>

(* The rows formatKeys builds and saveKeys merges over the stored ones. *)
MergedKeys(stored, o, from, curr) ==
    [i \in Slots |->
        IF i >= from /\ i < curr.total
        THEN [key    |-> SigningKey[target][o][i],
              used   |-> i < Operator[target][o].used,
              vetted |-> i < curr.limit]
        ELSE stored[i]]

(* One iteration of syncUpdatedKeysWithContract. *)
SyncOperatorKeys ==
    /\ pc = "syncing"
    /\ Exists(target, next)
    /\ LET curr == current[next]
           from == FromIndex(previous[next], curr)
       IN  workKeys' = [workKeys EXCEPT ![next] =
                           MergedKeys(workKeys[next], next, from, curr)]
    /\ next' = next + 1
    /\ UNCHANGED <<chain, tables, pc, target, previous, current, workOps>>

(* The call is over: its locals and the transaction's copy are gone. *)
Return ==
    /\ pc' = "idle"
    /\ target' = NoBlock
    /\ previous' = NoOperators
    /\ current' = NoOperators
    /\ workOps' = NoOperators
    /\ workKeys' = NoKeys
    /\ next' = 0

(* The loop ends and the transaction that surrounds the update commits. *)
Commit ==
    /\ pc = "syncing"
    /\ ~Exists(target, next)
    /\ ops' = workOps
    /\ keys' = workKeys
    /\ synced' = target
    /\ Return
    /\ UNCHANGED chain

(* An RPC call or a statement throws, or the process dies: rolled back. *)
Abort ==
    /\ pc # "idle"
    /\ Return
    /\ UNCHANGED <<chain, tables>>

Next ==
    \/ HeadMoves
    \/ FinalityAdvances
    \/ ChooseTarget
    \/ ReadStorage
    \/ \E o \in Ops : FetchOperator(o)
    \/ SaveOperators
    \/ SyncOperatorKeys
    \/ Commit
    \/ Abort

Spec == Init /\ [][Next]_vars

-----------------------------------------------------------------------------
(* Properties. *)

TypeOK ==
    /\ latest \in Blocks
    /\ finalized \in Blocks
    /\ ops \in [Ops -> OperatorRows \cup {NoRow}]
    /\ keys \in [Ops -> [Slots -> KeyRows \cup {NoRow}]]
    /\ synced \in Blocks \cup {NoBlock}
    /\ pc \in Phases
    /\ target \in Blocks \cup {NoBlock}
    /\ previous \in [Ops -> OperatorRows \cup {NoRow}]
    /\ current \in [Ops -> OperatorRows \cup {NoRow}]
    /\ workOps \in [Ops -> OperatorRows \cup {NoRow}]
    /\ workKeys \in [Ops -> [Slots -> KeyRows \cup {NoRow}]]
    /\ next \in 0..NOperators

(* The operator row without the finalized count: what the contract says.    *)
ContractPart(row) ==
    [reward |-> row.reward, limit |-> row.limit,
     total  |-> row.total,  used  |-> row.used]

(* A reader finds, for every operator that exists at the block the tables   *)
(* were brought to, exactly that operator and exactly its keys with their   *)
(* used and vetted flags: whatever was skipped, whatever was reorganised    *)
(* since, and however many updates failed half way (abstract-registry.ts    *)
(* update, saveOperators, syncUpdatedKeysWithContract).                     *)
TablesMatchContract ==
    synced # NoBlock =>
        \A o \in Ops : Exists(synced, o) =>
            /\ ops[o] # NoRow
            /\ ContractPart(ops[o]) = Operator[synced][o]
            /\ keys[o] = ContractKeys(synced, o)

(* The stored finalizedUsedSigningKeys is safe to skip by: the keys below   *)
(* it are deposited at the finalized block, and the db holds them as they   *)
(* are there.  A count that outlives a reorganisation, or one stored beside *)
(* keys it does not describe, breaks this (operator.fetch.ts 66-128).       *)
SafeToSkip(opRows, keyRows) ==
    \A o \in Ops : opRows[o] # NoRow /\ opRows[o].fin > 0 =>
        /\ Exists(finalized, o)
        /\ opRows[o].fin <= Operator[finalized][o].used
        /\ \A i \in Slots : i < opRows[o].fin =>
             keyRows[o][i] = ContractKeys(finalized, o)[i]

FinalizedPrefixStored == SafeToSkip(ops, keys)

(* abstract-registry.ts 117-118: "skip updating keys from 0 to              *)
(* `usedSigningKeys` of previous collected data since the contract          *)
(* guarantees that these keys cannot be changed": when the loop is about to *)
(* skip keys of an operator, the contract at the update's block holds, at   *)
(* each skipped index, the very row the db has.                             *)
SkippedKeysUnchanged ==
    pc = "syncing" /\ Exists(target, next) =>
        \A i \in Slots :
            /\ i < FromIndex(previous[next], current[next])
            /\ i < current[next].total
            => workKeys[next][i] = ContractKeys(target, next)[i]

(* abstract-registry.ts 215-216: "remove all keys from the database that    *)
(* are greater than the total number of keys; it's needed to clear the list *)
(* in db when removing keys from the contract": after an update no key row  *)
(* is left that the contract does not have at that block.                   *)
NoKeyBeyondContract ==
    synced # NoBlock =>
        \A o \in Ops, i \in Slots : keys[o][i] # NoRow =>
            Exists(synced, o) /\ i < Operator[synced][o].total

(* Once a reader has been shown a key that is deposited at the finalized    *)
(* block, by tables that descend from that block, no later commit shows     *)
(* another row at its index: no update, retry, reorganisation or advance of *)
(* finality can make a finalized validator key change or vanish.            *)
DepositedKeysStable ==
    [][synced # NoBlock /\ finalized \in Ancestors[synced] =>
         \A o \in Ops, i \in Slots :
            Exists(finalized, o) /\ i < Operator[finalized][o].used =>
                keys'[o][i] = keys[o][i]]_vars

(* All a reader can find: every row, those of operators that the contract   *)
(* does not have at the synced block (any more) included.                   *)
Listing(opRows, keyRows) ==
    [o \in Ops |->
        [operator |-> IF opRows[o] = NoRow THEN NoRow ELSE ContractPart(opRows[o]),
         keys     |-> keyRows[o]]]

(* The contract's operators at a block, with their keys. *)
OnChainListing(b) ==
    [o \in {p \in Ops : Exists(b, p)} |->
        [operator |-> Operator[b][o], keys |-> ContractKeys(b, o)]]

Mirror == INSTANCE RegistryMirror WITH
    Empty   <- Listing(NoOperators, NoKeys),
    Picture <- [b \in Blocks |-> OnChainListing(b)],
    block   <- synced,
    picture <- Listing(ops, keys)

(* The update, fetched in pieces, skipping keys and failing anywhere, is    *)
(* one step on ALL the rows: it replaces the operators the contract has at  *)
(* its block and leaves every other operator whole, with the keys it had    *)
(* (saveOperators is given the fetched operators only, abstract-registry.ts *)
(* 206-237), and its block never conflicts with finality.                   *)
MirrorSpec == Mirror!Spec
-----------------------------------------------------------------------------
(* The inductive invariant behind TablesMatchContract and SkippedKeysUn-    *)
(* changed.  It adds what the update carries between its steps: the target  *)
(* descends from the finalized block, the operators fetched so far are the  *)
(* target's, and the transaction's copy is the target's up to `next' and    *)
(* still the committed one from there on.                                   *)

FinalityBehindTarget ==
    /\ finalized \in Ancestors[latest]
    /\ pc # "idle" => target \in Blocks /\ finalized \in Ancestors[target]

PreviousIsCommitted == pc \in {"fetching", "syncing"} => previous = ops

FetchedFaithful ==
    pc \in {"fetching", "syncing"} =>
        \A o \in Ops : current[o] # NoRow =>
            /\ Exists(target, o)
            /\ ContractPart(current[o]) = Operator[target][o]
            /\ current[o].fin > 0 =>
                 /\ Exists(finalized, o)
                 /\ current[o].fin <= Operator[finalized][o].used

WorkFaithful ==
    pc = "syncing" =>
        /\ next <= OpCount[target]
        /\ \A o \in Ops :
             IF Exists(target, o)
             THEN /\ current[o] # NoRow
                  /\ workOps[o] = current[o]
                  /\ o < next => workKeys[o] = ContractKeys(target, o)
                  /\ o >= next =>
                       \A i \in Slots : workKeys[o][i] =
                          IF i >= current[o].total THEN NoRow ELSE keys[o][i]
             ELSE /\ workOps[o] = ops[o]
                  /\ workKeys[o] = keys[o]

Inv ==
    /\ TypeOK
    /\ TablesMatchContract
    /\ FinalizedPrefixStored
    /\ FinalityBehindTarget
    /\ PreviousIsCommitted
    /\ FetchedFaithful
    /\ WorkFaithful
=============================================================================
