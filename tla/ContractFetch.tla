----------------------------- MODULE ContractFetch -----------------------------
(****************************************************************************)
(* How an update reads a module's contract (common/registry/fetch and its   *)
(* CSM copy): the count of operators, the operators batch by batch, each by *)
(* several requests, then for one operator after another its keys, in       *)
(* batches sent all together.  Requests are answered in any order or fail;  *)
(* one that fails fails the round, and those still in flight go on without  *)
(* it: only one for META_REGISTRY can still change something, the cache of  *)
(* its address, and stays in the model beside the rounds that follow.       *)
(*                                                                          *)
(* The tables written between the reads are RegistrySync's.                 *)
(****************************************************************************)
EXTENDS ModuleContract, FiniteSets

CONSTANTS
    MetaRegistry,                   \* the module's META_REGISTRY
    REGISTRY_OPERATORS_BATCH_SIZE,
    KeysBatchSize                   \* keysBatchSize, or else KEYS_BATCH_SIZE

ContractOperators ==
    [name : STRING, active : BOOLEAN, vetted : Nat, added : Nat, deposited : Nat,
     depositable : Nat]

ASSUME ContractFetchAssumption ==
    /\ None \notin Blocks
    /\ \A b \in Blocks :
         /\ IsFiniteSet(Indices(b))
         /\ Indices(b) = 0 .. Cardinality(Indices(b)) - 1
         /\ OperatorsAt[b] \in [Indices(b) -> ContractOperators]
    /\ KEYS_LENGTH \in Nat \ {0} /\ SIGNATURE_LENGTH \in Nat \ {0}
    /\ REGISTRY_OPERATORS_BATCH_SIZE \in Nat \ {0}
    /\ KeysBatchSize \in Nat \ {0}
    /\ MetaRegistry # None

VARIABLES
    type,                   \* the module's type
    types,                  \* ModuleTypeRegistry's entry for the module
    metaRegistryByModule,   \* MetaRegistryNameResolver's entry for it
    strays,                 \* a META_REGISTRY request of a failed round is in flight
    stage,                  \* where the round is
    block,                  \* the block it reads
    count,                  \* number of operators
    next,                   \* first operator of the batch, or operator of the keys
    calls,                  \* the round's requests in flight
    got,                    \* request -> answer, of the batch
    operators,              \* operators read
    keys,                   \* operator -> keys read
    fault                   \* history: a request of this round failed

process == <<types, metaRegistryByModule, strays>>
vars == <<type, process, stage, block, count, next, calls, got, operators, keys, fault>>

-----------------------------------------------------------------------------
(* The requests. *)

Call(what, o) == [what |-> what, operator |-> o, offset |-> 0, size |-> 0]

KeysCall(o, batch) ==
    [what |-> "keys", operator |-> o, offset |-> batch.offset, size |-> batch.batchSize]

Nothing == [c \in {} |-> None]

Put(f, x, value) == [y \in DOMAIN f \cup {x} |-> IF y = x THEN value ELSE f[y]]

(* The contract's answer to getSigningKeys: keys and signatures are bytes   *)
(* one after another.                                                       *)
Bytes(b, o, offset, size, part, length) ==
    [p \in 1 .. size * length |->
       <<b, o, offset + ((p - 1) \div length), part, ((p - 1) % length) + 1>>]

KeyBatchRecord(c) ==
    [keys       |-> Bytes(block, c.operator, c.offset, c.size, "key", KEYS_LENGTH),
     signatures |-> Bytes(block, c.operator, c.offset, c.size, "signature", SIGNATURE_LENGTH),
     used       |-> [k \in 1 .. c.size |->
                       c.offset + k - 1 < OperatorsAt[block][c.operator].deposited]]

-----------------------------------------------------------------------------
(* Batches and formats. *)

Lesser(a, b) == IF a < b THEN a ELSE b

(* Mutant of makeBatches: every batch is a whole one.                       *)
makeBatchesWhole(batchSize, offset, limit) ==
    {[offset |-> offset + i * batchSize, batchSize |-> batchSize] :
       i \in 0 .. (limit + batchSize - 1) \div batchSize - 1}

makeBatches(batchSize, offset, limit) ==
    {[offset    |-> offset + i * batchSize,
      batchSize |-> Lesser(batchSize, limit - i * batchSize)] :
       i \in 0 .. (limit + batchSize - 1) \div batchSize - 1}

(* A rest shorter than a chunk is left away. *)
splitHex(hex, hexLength, chunkLength) ==
    [c \in 1 .. hexLength \div chunkLength |->
       [j \in 1 .. chunkLength |-> hex[(c - 1) * chunkLength + j]]]

unformattedKeysToArray(record, size) ==
    splitHex(record.keys, size * KEYS_LENGTH, KEYS_LENGTH)

unformattedSignaturesToArray(record, size) ==
    splitHex(record.signatures, size * SIGNATURE_LENGTH, SIGNATURE_LENGTH)

(* "format keys error": the curated contract also tells what is used. *)
formatKeysFails(record, size) ==
    \/ DOMAIN unformattedKeysToArray(record, size)
         # DOMAIN unformattedSignaturesToArray(record, size)
    \/ type = CURATED_ONCHAIN_V1_TYPE
         /\ DOMAIN unformattedKeysToArray(record, size) # DOMAIN record.used

FormattedKey(o, stakingLimit, record, size, startIndex, k, used) ==
    [operatorIndex    |-> o,
     index            |-> startIndex + k - 1,
     key              |-> unformattedKeysToArray(record, size)[k],
     depositSignature |-> unformattedSignaturesToArray(record, size)[k],
     used             |-> used,
     vetted           |-> startIndex + k - 1 < stakingLimit]

formatKeys(o, stakingLimit, record, size, startIndex) ==
    {FormattedKey(o, stakingLimit, record, size, startIndex, k, record.used[k]) :
       k \in DOMAIN record.used}

(* Mutant of formatKeysCSM: used is counted within the batch.               *)
formatKeysCSMOfBatch(o, stakingLimit, record, size, startIndex, usedKeysCount) ==
    {FormattedKey(o, stakingLimit, record, size, startIndex, k, k - 1 < usedKeysCount) :
       k \in DOMAIN unformattedKeysToArray(record, size)}

formatKeysCSM(o, stakingLimit, record, size, startIndex, usedKeysCount) ==
    {FormattedKey(o, stakingLimit, record, size, startIndex, k,
                  startIndex + k - 1 < usedKeysCount) :
       k \in DOMAIN unformattedKeysToArray(record, size)}


Formatted(c) ==
    LET operator == operators[c.operator] IN
    IF type = CURATED_ONCHAIN_V1_TYPE
    THEN formatKeys(c.operator, operator.stakingLimit, KeyBatchRecord(c), c.size, c.offset)
    ELSE formatKeysCSM(c.operator, operator.stakingLimit, KeyBatchRecord(c), c.size,
                       c.offset, operator.usedSigningKeys)

-----------------------------------------------------------------------------
(* The round. *)

(* Promise.all rejects with the first of its requests, and what awaits it.  *)
RoundFails ==
    /\ stage' = "failed"
    /\ calls' = {}
    /\ got' = Nothing
    /\ strays' = (strays \/ \E c \in calls : c.what = "registry")
    /\ UNCHANGED <<type, types, metaRegistryByModule, block, count, next, operators, keys>>

(* An update reads the block from the start.  The type of the module is     *)
(* registered before anything is asked of it.                               *)
getOperatorsFromContract ==
    /\ stage \in {"idle", "done", "failed"}
    /\ block' \in Blocks
    /\ types' = type
    /\ stage' = "count"
    /\ calls' = {Call("count", 0)}
    /\ got' = Nothing
    /\ operators' = Nothing /\ keys' = Nothing
    /\ fault' = FALSE
    /\ UNCHANGED <<type, metaRegistryByModule, strays, count, next>>

(* The name: of the contract, of the number, or of the registry, whose      *)
(* address has to be asked for once.                                        *)
NameCalls(o) ==
    IF type # CURATED_ONCHAIN_V2_TYPE THEN {}
    ELSE IF metaRegistryByModule = None THEN {Call("registry", o)}
    ELSE {Call("name", o)}

fetchOneCalls(o) ==
    {Call("operator", o), Call("summary", o), Call("finalized", o)} \cup NameCalls(o)

(* resolveOperatorName: no type, no resolver. *)
NameFails == type # CURATED_ONCHAIN_V1_TYPE /\ types # type

(* Mutant of BatchEnd: every batch is a whole one.                          *)
BatchEndWhole(first, n) == first + REGISTRY_OPERATORS_BATCH_SIZE

BatchEnd(first, n) == Lesser(first + REGISTRY_OPERATORS_BATCH_SIZE, n)

(* rangePromise sends what a batch of operators needs, the next batch when  *)
(* all of it has been answered.                                             *)
SendBatch(first, n) ==
    IF first < n
    THEN /\ stage' = "operators"
         /\ next' = first
         /\ calls' = UNION {fetchOneCalls(o) : o \in first .. BatchEnd(first, n) - 1}
    ELSE /\ stage' = "next"
         /\ next' = 0
         /\ calls' = {}

AnswerCount ==
    LET n == Cardinality(Indices(block)) IN
    /\ stage = "count"
    /\ IF n > 0 /\ NameFails
       THEN RoundFails
       ELSE /\ count' = n
            /\ SendBatch(0, n)
            /\ UNCHANGED <<type, process, block, got, operators, keys>>
    /\ UNCHANGED fault

(* What the requests of one operator come to. *)
fetchOne(o, answers) ==
    LET operator == answers[Call("operator", o)] IN
    [index |-> o, active |-> operator.active, name |-> operator.name,
     stakingLimit |-> operator.vetted, totalSigningKeys |-> operator.added,
     usedSigningKeys |-> operator.deposited,
     finalizedUsedSigningKeys |-> answers[Call("finalized", o)],
     depositableValidatorsCount |-> answers[Call("summary", o)]]

fetchOneCSM(o, answers) ==
    LET operator == answers[Call("operator", o)] IN
    [index |-> o, active |-> TRUE,
     name |-> IF type = CURATED_ONCHAIN_V2_TYPE THEN answers[Call("name", o)]
              ELSE CsmStaticName(o),
     stakingLimit |-> operator.vetted, totalSigningKeys |-> operator.added,
     usedSigningKeys |-> operator.deposited,
     finalizedUsedSigningKeys |-> answers[Call("finalized", o)],
     depositableValidatorsCount |-> answers[Call("summary", o)]]

(* Promise.all of fetchOne: what makes an operator. *)
Parts == {"operator", "summary", "finalized"}
           \cup (IF type = CURATED_ONCHAIN_V2_TYPE THEN {"name"} ELSE {})

(* One more answer of the batch; the last one starts the next batch.        *)
Answered(c, value) ==
    LET answers == Put(got, c, value)
        end == BatchEnd(next, count) IN
    /\ IF \E o \in next .. end - 1, what \in Parts : Call(what, o) \notin DOMAIN answers
       THEN /\ calls' = calls \ {c}
            /\ got' = answers
            /\ UNCHANGED <<stage, next, operators>>
       ELSE /\ got' = Nothing
            /\ operators' = [o \in 0 .. end - 1 |->
                               IF o < next THEN operators[o]
                               ELSE IF type = CURATED_ONCHAIN_V1_TYPE
                               THEN fetchOne(o, answers)
                               ELSE fetchOneCSM(o, answers)]
            /\ SendBatch(end, count)
    /\ UNCHANGED <<type, process, block, count, keys, fault>>

AnswerNodeOperator(c) ==
    /\ c.what = "operator"
    /\ Answered(c, OperatorsAt[block][c.operator])

AnswerNodeOperatorSummary(c) ==
    /\ c.what = "summary"
    /\ Answered(c, OperatorsAt[block][c.operator].depositable)

(* A request at the finalized block: 0 if it fails, or if the operator was  *)
(* not there yet.                                                           *)
getFinalizedNodeOperatorUsedSigningKeys(c) ==
    /\ c.what = "finalized"
    /\ \E value \in FinalizedValues(c.operator) : Answered(c, value)

AnswerOperatorMetadata(c) ==
    /\ c.what = "name"
    /\ Answered(c, OperatorsAt[block][c.operator].name)

(* Mutant of getMetaRegistryAddress: only the first to ask goes on.         *)
getMetaRegistryAddressOnce(c) ==
    /\ c.what = "registry"
    /\ metaRegistryByModule' = MetaRegistry
    /\ calls' = (calls \ {c}) \cup
                (IF metaRegistryByModule = None THEN {Call("name", c.operator)} ELSE {})
    /\ UNCHANGED <<type, types, strays, stage, block, count, next, got, operators, keys,
                   fault>>

(* Each operator of the batch may have asked for the address. *)
getMetaRegistryAddress(c) ==
    /\ c.what = "registry"
    /\ metaRegistryByModule' = MetaRegistry
    /\ calls' = (calls \ {c}) \cup {Call("name", c.operator)}
    /\ UNCHANGED <<type, types, strays, stage, block, count, next, got, operators, keys,
                   fault>>

StrayAnswered ==
    /\ strays
    /\ metaRegistryByModule' = MetaRegistry
    /\ strays' = FALSE
    /\ UNCHANGED <<type, types, stage, block, count, next, calls, got, operators, keys, fault>>

(* Operator after operator: its keys from a border up to all of them (the   *)
(* border is RegistrySync's).                                               *)
syncUpdatedKeysWithContract ==
    /\ stage = "next"
    /\ IF next = count
       THEN /\ stage' = "done"
            /\ UNCHANGED <<next, calls, keys>>
       ELSE LET total == operators[next].totalSigningKeys IN
            \E from \in 0 .. total :
              LET batches == makeBatches(KeysBatchSize, from, total - from) IN
              IF batches = {}
              THEN /\ keys' = Put(keys, next, {})
                   /\ next' = next + 1
                   /\ UNCHANGED <<stage, calls>>
              ELSE /\ calls' = {KeysCall(next, batch) : batch \in batches}
                   /\ stage' = "keys"
                   /\ UNCHANGED <<next, keys>>
    /\ UNCHANGED <<type, process, block, count, got, operators, fault>>

(* The contract refuses to tell keys it does not have. *)
Reverts(c) == c.offset + c.size > OperatorsAt[block][c.operator].added

AnswerSigningKeys(c) ==
    /\ c.what = "keys"
    /\ IF Reverts(c) \/ formatKeysFails(KeyBatchRecord(c), c.size)
       THEN RoundFails
       ELSE LET answers == Put(got, c, Formatted(c)) IN
            /\ IF calls # {c}
               THEN /\ calls' = calls \ {c}
                    /\ got' = answers
                    /\ UNCHANGED <<stage, next, keys>>
               ELSE /\ calls' = {}
                    /\ got' = Nothing
                    /\ keys' = Put(keys, next, UNION {answers[d] : d \in DOMAIN answers})
                    /\ next' = next + 1
                    /\ stage' = "next"
            /\ UNCHANGED <<type, process, block, count, operators>>
    /\ UNCHANGED fault

(* A request is not answered, or too late.  The one at the finalized block  *)
(* is caught.                                                               *)
Fail(c) ==
    /\ c.what # "finalized"
    /\ fault' = TRUE
    /\ RoundFails

Restart ==
    /\ types' = None
    /\ metaRegistryByModule' = None
    /\ strays' = FALSE
    /\ stage' = "idle"
    /\ calls' = {} /\ got' = Nothing
    /\ UNCHANGED <<type, block, count, next, operators, keys, fault>>

-----------------------------------------------------------------------------

Init ==
    /\ type \in STAKING_MODULE_TYPE
    /\ types = None
    /\ metaRegistryByModule = None
    /\ strays = FALSE
    /\ stage = "idle"
    /\ block \in Blocks
    /\ count = 0 /\ next = 0
    /\ calls = {} /\ got = Nothing
    /\ operators = Nothing /\ keys = Nothing
    /\ fault = FALSE

Answer(c) ==
    \/ AnswerNodeOperator(c)
    \/ AnswerNodeOperatorSummary(c)
    \/ getFinalizedNodeOperatorUsedSigningKeys(c)
    \/ AnswerOperatorMetadata(c)
    \/ getMetaRegistryAddress(c)
    \/ AnswerSigningKeys(c)

Progress ==
    \/ AnswerCount
    \/ \E c \in calls : Answer(c) \/ Fail(c)
    \/ syncUpdatedKeysWithContract

Next ==
    \/ getOperatorsFromContract
    \/ Progress
    \/ StrayAnswered
    \/ Restart

(* A request is answered or fails: the providers wait for no answer for     *)
(* ever.                                                                    *)
Spec == Init /\ [][Next]_vars /\ WF_vars(Progress)

-----------------------------------------------------------------------------
(* Properties. *)

(* Where a round is, and that its batch holds each request once: in flight  *)
(* or answered.                                                             *)
TypeOK ==
    /\ type \in STAKING_MODULE_TYPE
    /\ types \in {None, type}
    /\ metaRegistryByModule \in {None, MetaRegistry}
    /\ strays \in BOOLEAN
    /\ stage \in {"idle", "count", "operators", "next", "keys", "done", "failed"}
    /\ block \in Blocks
    /\ count \in Nat /\ next \in 0 .. count
    /\ calls \cap DOMAIN got = {}
    /\ \A c \in calls \cup DOMAIN got :
         /\ c.what \in {"count", "operator", "summary", "finalized", "registry", "name",
                        "keys"}
         /\ c.what # "count" => c.operator \in Indices(block)
    /\ fault \in BOOLEAN

(* A round fails only because a request was not answered: never because of  *)
(* a name without a resolver, of a key asked for that is not there, or of   *)
(* keys that come out in another number than signatures.                    *)
FailsOnlyByFault == stage = "failed" => fault

(* What the round returns is what an update relies on: the operators and    *)
(* the keys of one block, complete, in whatever order they were answered.   *)
Returned ==
    IF stage = "done" THEN {[operators |-> operators, keys |-> keys]} ELSE {}

Promise ==
    INSTANCE ContractRead WITH
        asked   <- IF stage \in {"idle", "failed"} THEN None ELSE block,
        picture <- Returned

ReadsWholeOrNothing == Promise!Spec

(* A round never waits for an answer nobody was asked for: it returns or    *)
(* fails.                                                                   *)
RoundEnds ==
    stage \in {"count", "operators", "next", "keys"} ~> stage \in {"done", "failed", "idle"}
=============================================================================
