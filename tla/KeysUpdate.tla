------------------------------ MODULE KeysUpdate ------------------------------
(****************************************************************************)
(* KeysUpdateService.update and StakingModuleUpdaterService                 *)
(* (src/jobs/keys-update): one round takes the node's latest block, decides *)
(* module by module whether its registry must be brought to that block or   *)
(* may be kept, and records the block in el_meta, all in one transaction.   *)
(*                                                                          *)
(* What is read by HASH (modules, nonces, registries) does not depend on    *)
(* when it is read.  What is read by TAG or by NUMBER (the latest block,    *)
(* the blocks of the reorg check, the events) is answered from the node's   *)
(* head at that moment, and the head moves while the round runs.            *)
(*                                                                          *)
(* A registry update (RegistrySync) is one step here, as it is one step in  *)
(* RegistryMirror: tables[a] is the block the operators and keys of the     *)
(* module at address a were last brought to.  Rows of operators that the    *)
(* contract does not have at that block are left out (RegistrySyncPhantom). *)
(****************************************************************************)
EXTENDS ELChain

CONSTANTS
    NModules,           \* module ids are 1..NModules on every branch
    Addresses, Types,   \* contract addresses; module types
    STAKING_MODULE_TYPE,\* the types this release knows
    ModuleCount,        \* ModuleCount[b]: modules the staking router has at b
    Address,            \* Address[b][m]: the contract of module m at b
    TypeOf,             \* TypeOf[a]: type of the module contract at a
    Nonce,              \* Nonce[b][a]: getNonce of the contract a at b
    Keyset,             \* Keyset[b][a]: its keys and their limits at b
    Names,              \* Names[b][a]: its operators, names, reward addresses
    Known,              \* Known[h]: the blocks that a node whose head is h
                        \* still has, to be asked for by hash
    Topics,             \* Topics[b]: module types whose operator events, from
                        \* any contract, are among the logs of block b
    MaxBlocksOverlap,   \* MAX_BLOCKS_OVERLAP
    NoRow,              \* no such row in sr_modules
    Missing             \* null: the node has no block with that number

Modules == 1 .. NModules
Numbers == {Number[b] : b \in Blocks}

(* The staking router appends modules and keeps their addresses; a nonce    *)
(* that did not move means keys that did not change; operators and names    *)
(* that changed under the same nonce left an event in between.              *)
ASSUME ModulesAssumption ==
    /\ NModules \in Nat
    /\ MaxBlocksOverlap \in Nat \ {0}
    /\ ModuleCount \in [Blocks -> 0..NModules]
    /\ Address \in [Blocks -> [Modules -> Addresses]]
    /\ TypeOf \in [Addresses -> Types]
    /\ STAKING_MODULE_TYPE \subseteq Types
    /\ Nonce \in [Blocks -> [Addresses -> Nat]]
    /\ Topics \in [Blocks -> SUBSET Types]
    /\ Known \in [Blocks -> SUBSET Blocks]
    /\ \A h \in Blocks : Ancestors[h] \subseteq Known[h]
    /\ \A b \in Blocks : \A m1, m2 \in 1..ModuleCount[b] :
         Address[b][m1] = Address[b][m2] => m1 = m2
    /\ \A b \in Blocks : \A a \in Ancestors[b] :
         /\ ModuleCount[a] <= ModuleCount[b]
         /\ \A m \in 1..ModuleCount[a] : Address[a][m] = Address[b][m]
         /\ \A c \in Addresses : Nonce[a][c] = Nonce[b][c] =>
              /\ Keyset[a][c] = Keyset[b][c]
              /\ Names[a][c] # Names[b][c] =>
                   \E e \in Ancestors[b] \ Ancestors[a] : TypeOf[c] \in Topics[e]

(* A row of sr_modules.  shown is the block whose status, fees and name of  *)
(* the module the row carries.                                              *)
ModuleRows ==
    [address : Addresses, nonce : Nat, lastChanged : Blocks, shown : Blocks]

ASSUME AbsentAssumption ==
    /\ NoRow \notin ModuleRows
    /\ Missing \notin Blocks \cup {NoBlock}

-----------------------------------------------------------------------------

VARIABLES
    head,               \* the node's head
    calm,               \* from now on: no new head, no failure
    stable,             \* history: no round's block has ever left the node's
                        \* chain while the round was running
    db,                 \* committed: el_meta, sr_modules, registry tables
    txn,                \* the round's uncommitted copy of db
    pc,                 \* where the round is
    curr,               \* currElMeta: the block of the round
    module,             \* id of the contractModule the loop is at
    lastChanged,        \* updaterState.lastChangedBlockHash
    isReorgDetected,    \* updaterState.isReorgDetected
    blocks              \* blocks the reorg check has got by number

env    == <<head, calm, stable>>
state  == <<lastChanged, isReorgDetected>>
vars   == <<env, db, txn, pc, curr, module, state, blocks>>

Phases == {"idle", "compare", "module", "reorg", "events", "down"}

NoBlocks == [n \in Numbers |-> NoBlock]

EmptyDb ==
    [block       |-> NoBlock,
     lastChanged |-> NoBlock,
     rows        |-> [m \in Modules |-> NoRow],
     tables      |-> [a \in Addresses |-> NoBlock]]

Init ==
    /\ head \in Blocks
    /\ calm = FALSE
    /\ stable = TRUE
    /\ db = EmptyDb
    /\ txn = EmptyDb
    /\ pc = "idle"
    /\ curr = NoBlock
    /\ module = 1
    /\ lastChanged = NoBlock
    /\ isReorgDetected = FALSE
    /\ blocks = NoBlocks

prev == db.block        \* prevElMeta: the block of the last committed round

-----------------------------------------------------------------------------
(* The environment. *)

(* A new block, a reorganisation, or an answer from another node. *)
HeadMoves ==
    /\ ~calm
    /\ \E b \in Blocks \ {head} :
         /\ head' = b
         /\ stable' = (stable /\ (curr # NoBlock => curr \in Ancestors[b]))
    /\ UNCHANGED <<calm, db, txn, pc, curr, module, state, blocks>>

(* The node settles and nothing fails any more: what progress is owed under.*)
CalmDown ==
    /\ ~calm
    /\ calm' = TRUE
    /\ UNCHANGED <<head, stable, db, txn, pc, curr, module, state, blocks>>

-----------------------------------------------------------------------------
(* KeysUpdateService.update *)

(* The round is over; its locals and an unfinished transaction are gone. *)
EndRound ==
    /\ pc' = "idle"
    /\ txn' = EmptyDb
    /\ curr' = NoBlock
    /\ module' = 1
    /\ lastChanged' = NoBlock
    /\ isReorgDetected' = FALSE
    /\ blocks' = NoBlocks

GetLatest ==
    /\ pc = "idle"
    /\ curr' = head
    /\ pc' = "compare"
    /\ UNCHANGED <<env, db, txn, module, state, blocks>>

(* Mutant of NodeIsBehind: a node that is one block behind is followed.      *)
NodeIsBehindByTwo == prev # NoBlock /\ Number[prev] > Number[curr] + 1

NodeIsBehind == prev # NoBlock /\ Number[prev] > Number[curr]

(* The node has fallen behind the db, or there is no new block. *)
NothingToUpdate ==
    /\ pc = "compare"
    /\ NodeIsBehind \/ prev = curr
    /\ EndRound
    /\ UNCHANGED <<env, db>>

(* getStakingModules meets a module of a type it does not know. *)
TypeIsUnknown(b) == \E m \in 1..ModuleCount[b] : TypeOf[Address[b][m]] \notin STAKING_MODULE_TYPE

ExitOnUnknownType ==
    /\ pc = "compare"
    /\ ~NodeIsBehind /\ prev # curr
    /\ TypeIsUnknown(curr)
    /\ pc' = "down"
    /\ curr' = NoBlock
    /\ UNCHANGED <<env, db, txn, module, state, blocks>>

(* A module of the db is not among the contract's modules at the block. *)
ModulesWereDeleted ==
    \E m \in Modules : db.rows[m] # NoRow /\ m > ModuleCount[curr]

(* process.exit(1); whatever supervises the service starts it again. *)
ExitOnDeletedModules ==
    /\ pc = "compare"
    /\ ~NodeIsBehind /\ prev # curr
    /\ ~TypeIsUnknown(curr) /\ ModulesWereDeleted
    /\ pc' = "down"
    /\ curr' = NoBlock
    /\ UNCHANGED <<env, db, txn, module, state, blocks>>

Restart ==
    /\ pc = "down"
    /\ EndRound
    /\ UNCHANGED <<env, db>>

(* The transaction opens; updaterState is set up. *)
BeginTransaction ==
    /\ pc = "compare"
    /\ ~NodeIsBehind /\ prev # curr
    /\ ~TypeIsUnknown(curr) /\ ~ModulesWereDeleted
    /\ txn' = db
    /\ lastChanged' = IF db.lastChanged # NoBlock THEN db.lastChanged ELSE curr
    /\ module' = 1
    /\ pc' = "module"
    /\ UNCHANGED <<env, db, curr, isReorgDetected, blocks>>

-----------------------------------------------------------------------------
(* StakingModuleUpdaterService.updateStakingModules, one module at a time.  *)

InLoop == module <= ModuleCount[curr]
Row    == txn.rows[module]
Addr   == Address[curr][module]

(* Mutant of Upserted: marked with the previous block instead of the round's.*)
UpsertedMarkingPrev(row, a, nonce, hash) ==
    [address     |-> IF row = NoRow THEN a ELSE row.address,
     nonce       |-> nonce,
     lastChanged |-> prev,
     shown       |-> curr]

(* SRModuleStorageService.upsert: an existing row keeps its address. *)
Upserted(row, a, nonce, hash) ==
    [address     |-> IF row = NoRow THEN a ELSE row.address,
     nonce       |-> nonce,
     lastChanged |-> hash,
     shown       |-> curr]

(* stakingModuleAddress is unique: inserting it twice throws. *)
AddressIsFree(row, a) ==
    row = NoRow => \A m \in Modules : txn.rows[m] # NoRow => txn.rows[m].address # a

(* Mutant of UpdateModule: updaterState.lastChangedBlockHash is not set.     *)
UpdateModuleUnmarked ==
    /\ AddressIsFree(Row, Addr)
    /\ txn' = [txn EXCEPT
                 !.tables[Addr] = curr,
                 !.rows[module] = Upserted(Row, Addr, Nonce[curr][Addr], curr)]
    /\ lastChanged' = lastChanged
    /\ module' = module + 1
    /\ blocks' = NoBlocks
    /\ pc' = "module"
    /\ UNCHANGED <<env, db, curr>>

(* Mutant of UpdateModule: the contract is looked up by the stored address.  *)
UpdateModuleAtRowsAddress ==
    LET a == IF Row = NoRow THEN Addr ELSE Row.address IN
    /\ AddressIsFree(Row, Addr)
    /\ txn' = [txn EXCEPT
                 !.tables[a] = curr,
                 !.rows[module] = Upserted(Row, a, Nonce[curr][a], curr)]
    /\ lastChanged' = curr
    /\ module' = module + 1
    /\ blocks' = NoBlocks
    /\ pc' = "module"
    /\ UNCHANGED <<env, db, curr>>

(* updateStakingModule: bring the registry to the block, mark the change. *)
UpdateModule ==
    /\ AddressIsFree(Row, Addr)
    /\ txn' = [txn EXCEPT
                 !.tables[Addr] = curr,
                 !.rows[module] = Upserted(Row, Addr, Nonce[curr][Addr], curr)]
    /\ lastChanged' = curr
    /\ module' = module + 1
    /\ blocks' = NoBlocks
    /\ pc' = "module"
    /\ UNCHANGED <<env, db, curr>>

(* No change detected: only the row's metadata is refreshed. *)
KeepModule ==
    /\ txn' = [txn EXCEPT
                 !.rows[module] = Upserted(Row, Addr, Row.nonce, Row.lastChanged)]
    /\ module' = module + 1
    /\ blocks' = NoBlocks
    /\ pc' = "module"
    /\ UNCHANGED <<env, db, curr, state>>

NoPastState  == prev = NoBlock \/ Row = NoRow
NonceChanged == Row.nonce # Nonce[curr][Addr]
TooMuchDiff  == Number[curr] - Number[prev] >= MaxBlocksOverlap

(* No past state, a new nonce, or too many blocks since the last round. *)
MustUpdate == IF NoPastState THEN TRUE ELSE NonceChanged \/ TooMuchDiff

UpdateOutright ==
    /\ pc = "module"
    /\ InLoop
    /\ MustUpdate \/ isReorgDetected
    /\ UpdateModule
    /\ UNCHANGED isReorgDetected

(* isReorgDetected asks for both blocks by hash. *)
ReorgCheckBegins ==
    /\ pc = "module"
    /\ InLoop
    /\ ~MustUpdate /\ ~isReorgDetected

BothKnown == {prev, curr} \subseteq Known[head]

(* The node has forgotten a block that left its chain: null is read, and    *)
(* the round is undone.                                                     *)
ReorgCheckForgotten ==
    /\ ReorgCheckBegins
    /\ ~BothKnown
    /\ EndRound
    /\ UNCHANGED <<env, db>>

(* The previous block is the parent of the current one. *)
ReorgCheckParent ==
    /\ ReorgCheckBegins
    /\ BothKnown
    /\ Parent[curr] = prev
    /\ pc' = "events"
    /\ UNCHANGED <<env, db, txn, curr, module, state, blocks>>

(* Another block of the same height: the chain was reorganised. *)
ReorgCheckSameHeight ==
    /\ ReorgCheckBegins
    /\ BothKnown
    /\ Parent[curr] # prev
    /\ Number[curr] = Number[prev]
    /\ isReorgDetected' = TRUE
    /\ UpdateModule

(* Otherwise the blocks between the two are asked for by number. *)
ReorgCheckStart ==
    /\ ReorgCheckBegins
    /\ BothKnown
    /\ Parent[curr] # prev
    /\ Number[curr] # Number[prev]
    /\ pc' = "reorg"
    /\ UNCHANGED <<env, db, txn, curr, module, state, blocks>>

CheckedNumbers == Number[prev] .. Number[curr]

(* One of the concurrent getFullBlock calls is answered. *)
GetFullBlock(n) ==
    /\ pc = "reorg"
    /\ n \in CheckedNumbers
    /\ blocks[n] = NoBlock
    /\ blocks' = [blocks EXCEPT ![n] =
                    IF AtNumber(head, n) = NoBlock THEN Missing ELSE AtNumber(head, n)]
    /\ UNCHANGED <<env, db, txn, pc, curr, module, state>>

AllAnswered == \A n \in CheckedNumbers : blocks[n] # NoBlock

First == blocks[Number[prev]]
Last  == blocks[Number[curr]]

(* The block with number n names the one before it as its parent. *)
Linked(n) == blocks[n] # Missing /\ Parent[blocks[n]] = blocks[n - 1]

(* First and last are the two blocks and each is the parent of the next. *)
ChainIsIntact ==
    /\ First = prev
    /\ Last = curr
    /\ \A n \in CheckedNumbers \ {Number[prev]} : Linked(n)

(* A field of null is read before any difference is seen: it throws. *)
ReadsNull ==
    \/ First = Missing
    \/ First = prev /\ Last = Missing
    \/ /\ First = prev /\ Last = curr
       /\ \E n \in CheckedNumbers :
            /\ blocks[n] = Missing
            /\ \A k \in (Number[prev] + 1) .. (n - 1) : Linked(k)

NoReorg ==
    /\ pc = "reorg"
    /\ AllAnswered
    /\ ChainIsIntact
    /\ pc' = "events"
    /\ UNCHANGED <<env, db, txn, curr, module, state, blocks>>

ReorgFound ==
    /\ pc = "reorg"
    /\ AllAnswered
    /\ ~ChainIsIntact /\ ~ReadsNull
    /\ isReorgDetected' = TRUE
    /\ UpdateModule

(* Mutant of ReorgCheckThrows: the round asks again until nothing is null.   *)
ReorgCheckRetries ==
    /\ pc = "reorg"
    /\ AllAnswered
    /\ ReadsNull
    /\ blocks' = NoBlocks
    /\ UNCHANGED <<env, db, txn, pc, curr, module, state>>

(* The TypeError is caught by wrapJob's caller; the transaction is undone. *)
ReorgCheckThrows ==
    /\ pc = "reorg"
    /\ AllAnswered
    /\ ReadsNull
    /\ EndRound
    /\ UNCHANGED <<env, db>>

(* Mutants of OperatorsWereChanged: the range is one block short at an end.  *)
OperatorsChangedBeforeCurrent ==
    /\ Number[prev] < Number[curr]
    /\ \E b \in Between(head, Number[prev] + 1, Number[curr] - 1) :
         TypeOf[Addr] \in Topics[b]

OperatorsChangedLater ==
    /\ Number[prev] < Number[curr]
    /\ \E b \in Between(head, Number[prev] + 2, Number[curr]) :
         TypeOf[Addr] \in Topics[b]

(* operatorsWereChanged: the logs of the blocks the node has, at this       *)
(* moment, for the numbers after the previous block up to the current one.  *)
(* The filter is by topic only, not by address.                             *)
OperatorsWereChanged ==
    /\ Number[prev] < Number[curr]
    /\ \E b \in Between(head, Number[prev] + 1, Number[curr]) :
         TypeOf[Addr] \in Topics[b]

CheckEvents ==
    /\ pc = "events"
    /\ IF OperatorsWereChanged
       THEN UpdateModule /\ UNCHANGED isReorgDetected
       ELSE KeepModule

(* elMetaStorage.update, and the transaction commits. *)
Commit ==
    /\ pc = "module"
    /\ ~InLoop
    /\ db' = [txn EXCEPT !.block = curr, !.lastChanged = lastChanged]
    /\ EndRound
    /\ UNCHANGED env

(* A call to the node or the db fails, or the process dies: rolled back.    *)
Rollback ==
    /\ ~calm \/ curr \notin Known[head]
    /\ pc \in {"compare", "module", "reorg", "events"}
    /\ EndRound
    /\ UNCHANGED <<env, db>>

(* Steps of the service itself, as the interval and the event loop run it.  *)
Progress ==
    \/ GetLatest
    \/ NothingToUpdate
    \/ ExitOnUnknownType
    \/ ExitOnDeletedModules
    \/ Restart
    \/ BeginTransaction
    \/ UpdateOutright
    \/ ReorgCheckForgotten
    \/ ReorgCheckParent
    \/ ReorgCheckSameHeight
    \/ ReorgCheckStart
    \/ \E n \in Numbers : GetFullBlock(n)
    \/ NoReorg
    \/ ReorgFound
    \/ ReorgCheckThrows
    \/ CheckEvents
    \/ Commit

Next ==
    \/ HeadMoves
    \/ CalmDown
    \/ Progress
    \/ Rollback

Spec == Init /\ [][Next]_vars

(* setInterval calls updateKeys again and again, and every step of a round  *)
(* is resumed by the event loop once its answer is there.                   *)
FairSpec == Spec /\ WF_vars(Progress)
-----------------------------------------------------------------------------
(* Properties. *)

Databases ==
    [block       : Blocks \cup {NoBlock},
     lastChanged : Blocks \cup {NoBlock},
     rows        : [Modules -> ModuleRows \cup {NoRow}],
     tables      : [Addresses -> Blocks \cup {NoBlock}]]

TypeOK ==
    /\ head \in Blocks
    /\ calm \in BOOLEAN
    /\ stable \in BOOLEAN
    /\ db \in Databases
    /\ txn \in Databases
    /\ pc \in Phases
    /\ curr \in Blocks \cup {NoBlock}
    /\ module \in 1..(NModules + 1)
    /\ lastChanged \in Blocks \cup {NoBlock}
    /\ isReorgDetected \in BOOLEAN
    /\ blocks \in [Numbers -> Blocks \cup {NoBlock, Missing}]

(* Modules a reader of the committed db is entitled to: those of its block. *)
ModulesAt(b) == 1..ModuleCount[b]

(* The keys a reader finds beside an el_meta block are the contract's keys  *)
(* at THAT block, although most rounds fetch nothing: no reorganisation,    *)
(* skipped block, head moving under the checks, failed round or exit makes  *)
(* el_meta run ahead of the tables (staking-module-updater.service.ts       *)
(* 37-158).                                                                 *)
SnapshotKeysFaithful ==
    prev # NoBlock =>
        \A m \in ModulesAt(prev) :
            LET a == Address[prev][m] IN
            /\ db.tables[a] # NoBlock
            /\ Keyset[db.tables[a]][a] = Keyset[prev][a]

(* The same for operators, names and reward addresses, which a nonce does   *)
(* not cover: here the events must not be missed.  It holds as long as no   *)
(* round's block left the node's chain under it (updateStakingModules asks  *)
(* for the events by number).                                               *)
SnapshotNamesFaithful ==
    stable /\ prev # NoBlock =>
        \A m \in ModulesAt(prev) :
            LET a == Address[prev][m] IN
            db.tables[a] # NoBlock => Names[db.tables[a]][a] = Names[prev][a]

(* abstract-registry.ts 74: "@returns Check if operators have been          *)
(* changed".  A module the round keeps on the answer "not changed" has the  *)
(* operators it had.                                                        *)
KeptOperatorsUnchanged ==
    pc = "events" /\ ~OperatorsWereChanged /\ txn.tables[Addr] # NoBlock =>
        Names[txn.tables[Addr]][Addr] = Names[curr][Addr]

(* Blocks and addresses of a module id. *)
BlocksWith(m) == {b \in Blocks : m \in ModulesAt(b)}

AddressesOf(m) == {Address[b][m] : b \in BlocksWith(m)}

(* The id stands for the same contract on every branch. *)
OneAddress(m) == \A a, c \in AddressesOf(m) : a = c

(* sr-module.storage.ts 42: "If the entity exists, update its properties".  *)
(* The sr_modules row of a module is, at the el_meta block, the contract's  *)
(* module with its nonce, however many rounds kept it.  Not so its address  *)
(* (and the type that goes with it): upsert looks the row up by moduleId    *)
(* and does not touch them, so a row that was made on a branch that has     *)
(* been reorganised away keeps the address the id had there.  That is the   *)
(* only way the address differs: such an address is never one of the chain  *)
(* of the el_meta block.                                                    *)
ModuleRowFaithful ==
    prev # NoBlock =>
        \A m \in ModulesAt(prev) :
            /\ db.rows[m] # NoRow
            /\ db.rows[m].nonce = Nonce[prev][Address[prev][m]]
            /\ db.rows[m].shown = prev
            /\ db.rows[m].address # Address[prev][m] =>
                 \E b \in BlocksWith(m) \ Ancestors[prev] :
                    db.rows[m].address = Address[b][m]

(* http/common/entities: "Last changed block hash - used to determine that  *)
(* a change has been made".  Whoever kept the answer of that block may      *)
(* reuse it: the keys of every module are those the module had there, and   *)
(* the module's own mark names the block its registry was brought to.       *)
LastChangedIdentifiesKeys ==
    prev # NoBlock =>
        \A m \in ModulesAt(prev) :
            LET a == Address[prev][m] IN
            /\ db.rows[m].lastChanged = db.tables[a]
            /\ m <= ModuleCount[db.lastChanged]
            /\ Keyset[db.tables[a]][a] = Keyset[db.lastChanged][a]

(* The reorg check may be answered by views of the chain that never existed *)
(* together; still, when it says "no reorg", the previous block really is   *)
(* on the chain of the current one (174-221).                               *)
NoReorgMeansDescendant == pc = "events" => prev \in Ancestors[curr]

(* The db is at the node's head, or may not follow it: the node has fallen  *)
(* behind, a module is not there that the db knows or is there but of a     *)
(* type this release does not know, or the node no longer has the db's      *)
(* block and the distance is too short to do without it.                    *)
CaughtUp ==
    \/ prev = head
    \/ /\ prev # NoBlock /\ prev \notin Known[head]
       /\ Number[head] - Number[prev] < MaxBlocksOverlap
    \/ prev # NoBlock /\ Number[prev] > Number[head]
    \/ \E m \in Modules : db.rows[m] # NoRow /\ m > ModuleCount[head]
    \/ TypeIsUnknown(head)

(* Once the node settles and calls stop failing, the db reaches the head,   *)
(* whatever half-finished round, exit or mixed answers came before.         *)
EventuallyCaughtUp == calm ~> []CaughtUp

-----------------------------------------------------------------------------
(* The abstract specification a round implements.                           *)

(* The keys at a block of each module whose id has one address on every     *)
(* branch; for another one readers may look under the address of a branch   *)
(* that is gone (ModuleRowFaithful), and nothing is promised.               *)
Content ==
    [b \in Blocks |->
        [m \in {k \in ModulesAt(b) : OneAddress(k)} |-> Keyset[b][Address[b][m]]]]

(* What a reader finds: for each row of sr_modules, the keys in the tables  *)
(* of the address that the row names.                                       *)
Found ==
    [m \in {k \in Modules : db.rows[k] # NoRow /\ OneAddress(k)} |->
        Keyset[db.tables[db.rows[m].address]][db.rows[m].address]]

Published == INSTANCE Snapshots WITH
    Empty   <- [m \in {} |-> NoBlock],
    block   <- prev,
    content <- Found

(* A round, with its checks against a moving head, its kept modules, its    *)
(* failures and exits, replaces one snapshot by a later one, or does        *)
(* nothing: the block does not go back, and no module a reader has seen is  *)
(* lost (KeysUpdateService.update).                                         *)
SnapshotsSpec == Published!Spec

-----------------------------------------------------------------------------
(* The inductive invariant behind SnapshotKeysFaithful.  The committed rows *)
(* are those of prev's modules; the transaction's are already right for the *)
(* modules the loop has passed and still the committed ones for the rest;   *)
(* a module that reached the events check has a kept nonce and a previous   *)
(* block on the chain of the current one.                                   *)

InRound == pc \in {"module", "reorg", "events"}

(* Module m of block b, as database d holds it. *)
ModuleFaithful(d, b, m) ==
    LET a == Address[b][m] IN
    /\ d.rows[m] # NoRow
    /\ d.rows[m].nonce = Nonce[b][a]
    /\ d.tables[a] # NoBlock
    /\ Keyset[d.tables[a]][a] = Keyset[b][a]

CommittedFaithful ==
    /\ prev # NoBlock => \A m \in ModulesAt(prev) : ModuleFaithful(db, prev, m)
    /\ \A m \in Modules : db.rows[m] # NoRow =>
         prev # NoBlock /\ m \in ModulesAt(prev)

CurrIsAhead ==
    /\ pc = "compare" \/ InRound => curr \in Blocks
    /\ InRound => ~NodeIsBehind

TxnFaithful ==
    InRound =>
        /\ \A m \in ModulesAt(curr) :
             IF m < module
             THEN ModuleFaithful(txn, curr, m)
             ELSE /\ txn.rows[m] = db.rows[m]
                  /\ txn.tables[Address[curr][m]] = db.tables[Address[curr][m]]
        /\ \A m \in Modules : txn.rows[m] # NoRow => m \in ModulesAt(curr)

CheckedModule ==
    pc \in {"reorg", "events"} => InLoop /\ ~MustUpdate

Inv ==
    /\ TypeOK
    /\ CommittedFaithful
    /\ CurrIsAhead
    /\ TxnFaithful
    /\ CheckedModule
    /\ NoReorgMeansDescendant
=============================================================================
