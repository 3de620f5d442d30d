-------------------------- MODULE ContractFetchProofs --------------------------
(****************************************************************************)
(* A round that reads a contract returns one block, whole, or nothing.      *)
(****************************************************************************)
EXTENDS ContractFetch, FiniteSetTheorems, TLAPS

(* Batches cover their range and nothing but it. *)
LEMMA BatchNumber ==
    ASSUME NEW l \in Nat, NEW b \in Nat \ {0}, NEW i \in Int
    PROVE  i \in 0 .. (l + b - 1) \div b - 1 <=> i >= 0 /\ i * b < l
OBVIOUS

LEMMA BatchWithin ==
    ASSUME NEW size \in Nat \ {0}, NEW offset \in Nat, NEW limit \in Nat,
           NEW batch \in makeBatches(size, offset, limit)
    PROVE  /\ batch.offset \in Nat /\ batch.batchSize \in Nat \ {0}
           /\ offset <= batch.offset
           /\ batch.offset + batch.batchSize <= offset + limit
<1>1. PICK i \in 0 .. (limit + size - 1) \div size - 1 :
        batch = [offset |-> offset + i * size,
                 batchSize |-> Lesser(size, limit - i * size)]
  BY DEF makeBatches
<1>2. i \in Int /\ i >= 0 /\ i * size < limit
  BY <1>1, BatchNumber
<1>3. i * size \in Nat
  BY <1>2
<1> QED
  BY <1>1, <1>2, <1>3 DEF Lesser

LEMMA BatchesCover ==
    ASSUME NEW size \in Nat \ {0}, NEW offset \in Nat, NEW limit \in Nat,
           NEW j \in offset .. offset + limit - 1
    PROVE  \E batch \in makeBatches(size, offset, limit) :
             j \in batch.offset .. batch.offset + batch.batchSize - 1
<1> DEFINE i == (j - offset) \div size
           batch == [offset |-> offset + i * size,
                     batchSize |-> Lesser(size, limit - i * size)]
<1>1. /\ i \in Int /\ i >= 0
      /\ i * size <= j - offset /\ j - offset < i * size + size
  OBVIOUS
<1>2. i * size \in Nat /\ i * size < limit
  BY <1>1
<1>3. i \in 0 .. (limit + size - 1) \div size - 1
  BY <1>1, <1>2, BatchNumber
<1>4. batch \in makeBatches(size, offset, limit)
  BY <1>3 DEF makeBatches
<1>5. j \in batch.offset .. batch.offset + batch.batchSize - 1
  BY <1>1, <1>2 DEF Lesser
<1> QED
  BY <1>4, <1>5

LEMMA NoBatches ==
    ASSUME NEW size \in Nat \ {0}, NEW offset \in Nat
    PROVE  makeBatches(size, offset, 0) = {}
<1>1. SUFFICES ASSUME NEW batch \in makeBatches(size, offset, 0) PROVE FALSE
  OBVIOUS
<1> QED
  BY BatchWithin

-----------------------------------------------------------------------------
(* Splitting what the contract sends gives back its keys. *)

LEMMA Chunk ==
    ASSUME NEW k \in Nat \ {0}, NEW length \in Nat \ {0}, NEW j \in 1 .. length
    PROVE  /\ ((k - 1) * length + j - 1) \div length = k - 1
           /\ ((k - 1) * length + j - 1) % length = j - 1
OBVIOUS

LEMMA ChunkWithin ==
    ASSUME NEW size \in Nat, NEW length \in Nat \ {0}, NEW k \in 1 .. size,
           NEW j \in 1 .. length
    PROVE  (k - 1) * length + j \in 1 .. size * length
<1>1. (k - 1) * length >= 0 /\ (k - 1) * length + length <= size * length
  OBVIOUS
<1> QED
  BY <1>1

LEMMA WholeChunks ==
    ASSUME NEW size \in Nat, NEW length \in Nat \ {0}
    PROVE  (size * length) \div length = size
OBVIOUS

LEMMA Split ==
    ASSUME NEW b, NEW o, NEW offset \in Nat, NEW size \in Nat, NEW part,
           NEW length \in Nat \ {0}
    PROVE  splitHex(Bytes(b, o, offset, size, part, length), size * length, length)
             = [k \in 1 .. size |-> Digits(b, o, offset + k - 1, part, length)]
<1> DEFINE hex == Bytes(b, o, offset, size, part, length)
<1>1. ASSUME NEW k \in 1 .. size
      PROVE  [j \in 1 .. length |-> hex[(k - 1) * length + j]]
               = Digits(b, o, offset + k - 1, part, length)
  <2>1. SUFFICES ASSUME NEW j \in 1 .. length
                 PROVE  hex[(k - 1) * length + j] = <<b, o, offset + k - 1, part, j>>
    BY DEF Digits
  <2> DEFINE p == (k - 1) * length + j
  <2>2. p \in 1 .. size * length
    BY ChunkWithin
  <2>3. hex[p] = <<b, o, offset + ((p - 1) \div length), part, ((p - 1) % length) + 1>>
    BY <2>2 DEF Bytes
  <2>4. (p - 1) \div length = k - 1 /\ (p - 1) % length = j - 1
    BY Chunk
  <2> HIDE DEF p
  <2>5. offset + (k - 1) = offset + k - 1 /\ (j - 1) + 1 = j
    OBVIOUS
  <2>6. hex[p] = <<b, o, offset + k - 1, part, j>>
    BY <2>3, <2>4, <2>5
  <2> QED
    BY <2>6 DEF p
<1>2. (size * length) \div length = size
  BY WholeChunks
<1> QED
  BY <1>1, <1>2 DEF splitHex

LEMMA OperatorsTyped ==
    ASSUME NEW b \in Blocks, NEW o \in Indices(b)
    PROVE  /\ o \in Nat
           /\ OperatorsAt[b][o].added \in Nat /\ OperatorsAt[b][o].deposited \in Nat
           /\ OperatorsAt[b][o].vetted \in Nat
           /\ OperatorsAt[b][o].active \in BOOLEAN
<1>1. OperatorsAt[b] \in [Indices(b) -> ContractOperators]
  BY ContractFetchAssumption
<1>2. o \in Nat
  <2>1. Indices(b) = 0 .. Cardinality(Indices(b)) - 1
    BY ContractFetchAssumption
  <2>2. Cardinality(Indices(b)) \in Nat
    BY ContractFetchAssumption, FS_CardinalityType
  <2> QED
    BY <2>1, <2>2
<1> QED
  BY <1>1, <1>2 DEF ContractOperators

IsKeysCall(c, o) ==
    /\ c.what = "keys" /\ c.operator = o
    /\ c.offset \in Nat /\ c.size \in Nat \ {0}

LEMMA SplitsOfRecord ==
    ASSUME NEW c, block \in Blocks, IsKeysCall(c, c.operator)
    PROVE  /\ unformattedKeysToArray(KeyBatchRecord(c), c.size)
                = [k \in 1 .. c.size |->
                     Digits(block, c.operator, c.offset + k - 1, "key", KEYS_LENGTH)]
           /\ unformattedSignaturesToArray(KeyBatchRecord(c), c.size)
                = [k \in 1 .. c.size |->
                     Digits(block, c.operator, c.offset + k - 1, "signature",
                            SIGNATURE_LENGTH)]
<1>1. c.offset \in Nat /\ c.size \in Nat
  BY DEF IsKeysCall
<1>2. KEYS_LENGTH \in Nat \ {0} /\ SIGNATURE_LENGTH \in Nat \ {0}
  BY ContractFetchAssumption
<1>3. unformattedKeysToArray(KeyBatchRecord(c), c.size)
        = splitHex(Bytes(block, c.operator, c.offset, c.size, "key", KEYS_LENGTH),
                   c.size * KEYS_LENGTH, KEYS_LENGTH)
  BY DEF unformattedKeysToArray, KeyBatchRecord
<1>4. unformattedSignaturesToArray(KeyBatchRecord(c), c.size)
        = splitHex(Bytes(block, c.operator, c.offset, c.size, "signature",
                         SIGNATURE_LENGTH),
                   c.size * SIGNATURE_LENGTH, SIGNATURE_LENGTH)
  BY DEF unformattedSignaturesToArray, KeyBatchRecord
<1>5. ASSUME NEW part, NEW length \in Nat \ {0}
      PROVE  splitHex(Bytes(block, c.operator, c.offset, c.size, part, length),
                      c.size * length, length)
               = [k \in 1 .. c.size |-> Digits(block, c.operator, c.offset + k - 1, part, length)]
  BY <1>1, Split
<1> QED
  BY <1>2, <1>3, <1>4, <1>5

LEMMA FormatNeverFails ==
    ASSUME NEW c, block \in Blocks, IsKeysCall(c, c.operator)
    PROVE  ~ formatKeysFails(KeyBatchRecord(c), c.size)
<1>1. DOMAIN KeyBatchRecord(c).used = 1 .. c.size
  BY DEF KeyBatchRecord
<1> QED
  BY <1>1, SplitsOfRecord DEF formatKeysFails

(* The keys a batch asks for. *)
KeysOf(b, o, from, to) == {ContractKey(b, o, i) : i \in from .. to}

LEMMA FormattedIsOfContract ==
    ASSUME NEW c, block \in Blocks, c.operator \in Indices(block),
           IsKeysCall(c, c.operator),
           IsOperator(type, block, c.operator, operators[c.operator])
    PROVE  Formatted(c) = KeysOf(block, c.operator, c.offset, c.offset + c.size - 1)
<1> DEFINE o == c.operator
           record == KeyBatchRecord(c)
           row(k) == [operatorIndex    |-> o, index |-> c.offset + k - 1,
                      key              |-> unformattedKeysToArray(record, c.size)[k],
                      depositSignature |-> unformattedSignaturesToArray(record, c.size)[k],
                      used             |-> c.offset + k - 1 < OperatorsAt[block][o].deposited,
                      vetted           |-> c.offset + k - 1 < OperatorsAt[block][o].vetted]
<1>1. c.offset \in Nat /\ c.size \in Nat
  BY DEF IsKeysCall
<1>2. operators[o].stakingLimit = OperatorsAt[block][o].vetted
      /\ operators[o].usedSigningKeys = OperatorsAt[block][o].deposited
  BY DEF IsOperator
<1>3. ASSUME NEW k \in 1 .. c.size
      PROVE  row(k) = ContractKey(block, o, c.offset + k - 1)
  BY <1>3, SplitsOfRecord DEF ContractKey
<1>4. Formatted(c) = {row(k) : k \in 1 .. c.size}
  <2>1. DOMAIN record.used = 1 .. c.size
        /\ \A k \in 1 .. c.size :
             record.used[k] = (c.offset + k - 1 < OperatorsAt[block][o].deposited)
    BY DEF KeyBatchRecord
  <2>2. DOMAIN unformattedKeysToArray(record, c.size) = 1 .. c.size
    BY SplitsOfRecord
  <2>3. CASE type = CURATED_ONCHAIN_V1_TYPE
    <3>1. Formatted(c) = formatKeys(o, operators[o].stakingLimit, record, c.size, c.offset)
      BY <2>3 DEF Formatted
    <3>2. formatKeys(o, OperatorsAt[block][o].vetted, record, c.size, c.offset)
            = {row(k) : k \in 1 .. c.size}
      BY <2>1 DEF formatKeys, FormattedKey
    <3> QED
      BY <3>1, <3>2, <1>2
  <2>4. CASE type # CURATED_ONCHAIN_V1_TYPE
    <3>1. Formatted(c) = formatKeysCSM(o, operators[o].stakingLimit, record, c.size, c.offset,
                                       operators[o].usedSigningKeys)
      BY <2>4 DEF Formatted
    <3>2. formatKeysCSM(o, OperatorsAt[block][o].vetted, record, c.size, c.offset,
                        OperatorsAt[block][o].deposited)
            = {row(k) : k \in 1 .. c.size}
      BY <2>2 DEF formatKeysCSM, FormattedKey
    <3> QED
      BY <3>1, <3>2, <1>2
  <2> QED
    BY <2>3, <2>4
<1>5. {row(k) : k \in 1 .. c.size} = {ContractKey(block, o, c.offset + k - 1) : k \in 1 .. c.size}
  BY <1>3
<1>6. {ContractKey(block, o, c.offset + k - 1) : k \in 1 .. c.size}
        = KeysOf(block, o, c.offset, c.offset + c.size - 1)
  <2>1. ASSUME NEW i \in c.offset .. c.offset + c.size - 1
        PROVE  \E k \in 1 .. c.size : ContractKey(block, o, i)
                                        = ContractKey(block, o, c.offset + k - 1)
    <3>1. i - c.offset + 1 \in 1 .. c.size /\ c.offset + (i - c.offset + 1) - 1 = i
      BY <1>1
    <3> QED
      BY <3>1
  <2>2. ASSUME NEW k \in 1 .. c.size
        PROVE  c.offset + k - 1 \in c.offset .. c.offset + c.size - 1
    BY <1>1
  <2> QED
    BY <2>1, <2>2 DEF KeysOf
<1> QED
  BY <1>4, <1>5, <1>6

-----------------------------------------------------------------------------
(* The inductive invariant. *)

OperatorKinds == {"operator", "summary", "finalized", "registry", "name"}

(* An answer of the batch is what the contract says of the operator. *)
IsAnswer(b, c, value) ==
    /\ c.what = "operator" => value = OperatorsAt[b][c.operator]
    /\ c.what = "summary" => value = OperatorsAt[b][c.operator].depositable
    /\ c.what = "name" => value = OperatorsAt[b][c.operator].name
    /\ c.what = "finalized" => value \in FinalizedValues(c.operator)

ReadOf(t, b, rows, n) ==
    /\ DOMAIN rows = 0 .. n - 1
    /\ \A o \in 0 .. n - 1 : IsOperator(t, b, o, rows[o])

OperatorsRead(n) == ReadOf(type, block, operators, n)

KeysReadOf(b, sets, n) ==
    /\ DOMAIN sets = 0 .. n - 1
    /\ \A o \in 0 .. n - 1 : \E from \in 0 .. OperatorsAt[b][o].added :
         sets[o] = KeysOf(b, o, from, OperatorsAt[b][o].added - 1)

KeysRead(n) == KeysReadOf(block, keys, n)

BatchInv ==
    /\ next < count
    /\ OperatorsRead(next)
    /\ \A c \in calls \cup DOMAIN got :
         c.what \in OperatorKinds /\ c = Call(c.what, c.operator)
    /\ \A c \in calls :
         c.what = "registry" => Call("name", c.operator) \notin calls \cup DOMAIN got
    /\ \A c \in DOMAIN got : IsAnswer(block, c, got[c])

KeysBatchInv ==
    /\ next < count
    /\ OperatorsRead(count)
    /\ KeysRead(next)
    /\ \E from \in 0 .. OperatorsAt[block][next].added :
         calls \cup DOMAIN got
           = {KeysCall(next, batch) :
                batch \in makeBatches(KeysBatchSize, from,
                                      OperatorsAt[block][next].added - from)}
    /\ \A c \in DOMAIN got : got[c] = KeysOf(block, next, c.offset, c.offset + c.size - 1)

StageInv ==
    /\ stage # "idle" => types = type
    /\ stage \in {"operators", "next", "keys", "done"} => count = Cardinality(Indices(block))
    /\ stage \in {"idle", "next", "done", "failed"} => calls = {}
    /\ stage \notin {"operators", "keys"} => got = Nothing
    /\ stage = "count" => calls = {Call("count", 0)}
    /\ stage = "operators" => BatchInv
    /\ stage = "keys" => KeysBatchInv
    /\ stage \in {"next", "done"} => OperatorsRead(count) /\ KeysRead(next)
    /\ stage = "done" => next = count
    /\ stage = "count" => operators = Nothing
    /\ stage \in {"count", "operators"} => keys = Nothing
    /\ stage = "failed" => fault

IInv == TypeOK /\ StageInv

LEMMA IndicesOf ==
    ASSUME NEW b \in Blocks
    PROVE  /\ Cardinality(Indices(b)) \in Nat
           /\ Indices(b) = 0 .. Cardinality(Indices(b)) - 1
BY ContractFetchAssumption, FS_CardinalityType

LEMMA InitInv == Init => IInv
<1> SUFFICES ASSUME Init PROVE IInv
  OBVIOUS
<1>1. calls = {} /\ DOMAIN got = {}
  BY DEF Init, Nothing
<1>2. \A c \in calls \cup DOMAIN got : FALSE
  BY <1>1
<1>3. TypeOK
  <2>1. strays \in BOOLEAN /\ fault \in BOOLEAN
    BY Zenon DEF Init
  <2>2. calls \cap DOMAIN got = {}
    BY <1>1
  <2>3. next \in 0 .. count /\ count \in Nat
    BY DEF Init
  <2> QED
    BY <1>2, <2>1, <2>2, <2>3 DEF Init, TypeOK
<1>4. StageInv
  BY DEF Init, StageInv
<1> QED
  BY <1>3, <1>4 DEF IInv

(* What is put is found. *)
LEMMA PutDomain ==
    ASSUME NEW f, NEW x, NEW value
    PROVE  DOMAIN Put(f, x, value) = DOMAIN f \cup {x}
BY DEF Put

LEMMA PutValue ==
    ASSUME NEW f, NEW x, NEW value
    PROVE  /\ Put(f, x, value)[x] = value
           /\ \A y \in DOMAIN f : y # x => Put(f, x, value)[y] = f[y]
BY DEF Put

LEMMA EndOfBatch ==
    ASSUME NEW first \in Nat, NEW n \in Nat, first < n
    PROVE  /\ BatchEnd(first, n) \in Nat
           /\ first < BatchEnd(first, n)
           /\ BatchEnd(first, n) <= n
BY ContractFetchAssumption DEF BatchEnd, Lesser

LEMMA FetchOneCalls ==
    ASSUME NEW o, NEW c \in fetchOneCalls(o)
    PROVE  /\ c.what \in OperatorKinds /\ c.operator = o /\ c = Call(c.what, c.operator)
           /\ c.what = "registry" => metaRegistryByModule = None
           /\ c.what = "name" => metaRegistryByModule # None
BY DEF fetchOneCalls, NameCalls, Call, OperatorKinds

(* The next batch, or the keys. *)
LEMMA SendBatchInv ==
    ASSUME IInv, NEW n \in Nat, NEW first \in 0 .. n,
           n = Cardinality(Indices(block)), count' = n, types = type,
           SendBatch(first, n), ReadOf(type, block, operators', first),
           got' = Nothing, keys = Nothing,
           UNCHANGED <<type, process, block, keys, fault>>
    PROVE  IInv'
<1> USE DEF process
<1>1. Indices(block) = 0 .. n - 1
  BY IndicesOf DEF IInv, TypeOK
<1>2. DOMAIN got' = {}
  BY DEF Nothing
<1>3. CASE first < n
  <2>1. /\ stage' = "operators" /\ next' = first
        /\ calls' = UNION {fetchOneCalls(o) : o \in first .. BatchEnd(first, n) - 1}
    BY <1>3 DEF SendBatch
  <2>2. ASSUME NEW c \in calls'
        PROVE  /\ c.what \in OperatorKinds /\ c = Call(c.what, c.operator)
               /\ c.operator \in Indices(block)
               /\ c.what = "registry" => metaRegistryByModule = None
               /\ c.what = "name" => metaRegistryByModule # None
    <3>1. PICK o \in first .. BatchEnd(first, n) - 1 : c \in fetchOneCalls(o)
      BY <2>1
    <3>2. o \in 0 .. n - 1
      BY <1>3, EndOfBatch
    <3> QED
      BY <3>1, <3>2, <1>1, FetchOneCalls
  <2>3. ASSUME NEW c \in calls', c.what = "registry", Call("name", c.operator) \in calls'
        PROVE  FALSE
    <3>1. Call("name", c.operator).what = "name"
      BY DEF Call
    <3> QED
      BY <2>2, <2>3, <3>1
  <2>4. BatchInv'
    BY <1>2, <1>3, <2>1, <2>2, <2>3 DEF BatchInv, OperatorsRead
  <2>5. TypeOK'
    BY <1>2, <1>3, <2>1, <2>2 DEF IInv, TypeOK, OperatorKinds
  <2>6. StageInv'
    BY <2>1, <2>4 DEF StageInv
  <2> QED
    BY <2>5, <2>6 DEF IInv
<1>4. CASE ~ (first < n)
  <2>1. stage' = "next" /\ next' = 0 /\ calls' = {} /\ first = n
    BY <1>4 DEF SendBatch
  <2>2. KeysRead(0)'
    BY DEF KeysRead, KeysReadOf, Nothing
  <2>3. TypeOK'
    BY <1>2, <2>1 DEF IInv, TypeOK
  <2>4. StageInv'
    BY <2>1, <2>2 DEF StageInv, OperatorsRead
  <2> QED
    BY <2>3, <2>4 DEF IInv
<1> QED
  BY <1>3, <1>4

LEMMA StartInv == IInv /\ getOperatorsFromContract => IInv'
<1> SUFFICES ASSUME IInv, getOperatorsFromContract PROVE IInv'
  OBVIOUS
<1>1. DOMAIN got' = {} /\ calls' = {Call("count", 0)} /\ stage' = "count"
      /\ UNCHANGED <<type, metaRegistryByModule, strays, count, next>>
  BY DEF getOperatorsFromContract, Nothing
<1>2. Call("count", 0).what = "count"
  BY DEF Call
<1>3. TypeOK'
  BY <1>1, <1>2 DEF IInv, TypeOK, getOperatorsFromContract
<1>4. StageInv'
  BY <1>1 DEF StageInv, getOperatorsFromContract
<1> QED
  BY <1>3, <1>4 DEF IInv

LEMMA FailsInv ==
    ASSUME IInv, RoundFails, fault', types = type
    PROVE  IInv'
<1>1. DOMAIN got' = {} /\ calls' = {} /\ stage' = "failed" /\ strays' \in BOOLEAN
  BY DEF RoundFails, Nothing, IInv, TypeOK
<1>2. TypeOK'
  BY <1>1 DEF IInv, TypeOK, RoundFails
<1>3. StageInv'
  BY <1>1 DEF StageInv, RoundFails
<1> QED
  BY <1>2, <1>3 DEF IInv

LEMMA CountInv == IInv /\ AnswerCount => IInv'
<1> SUFFICES ASSUME IInv, AnswerCount PROVE IInv'
  OBVIOUS
<1> DEFINE n == Cardinality(Indices(block))
<1>1. stage = "count"
  BY DEF AnswerCount
<1>2. types = type /\ got = Nothing /\ operators = Nothing /\ keys = Nothing
  BY <1>1 DEF IInv, StageInv
<1>3. n \in Nat
  BY IndicesOf DEF IInv, TypeOK
<1>4. /\ count' = n /\ SendBatch(0, n)
      /\ UNCHANGED <<type, process, block, got, operators, keys, fault>>
  BY <1>2 DEF AnswerCount, NameFails
<1>5. ReadOf(type, block, operators', 0)
  BY <1>2, <1>4 DEF ReadOf, Nothing
<1>6. 0 \in 0 .. n /\ got' = Nothing
  BY <1>2, <1>3, <1>4
<1> HIDE DEF n
<1> QED
  BY <1>2, <1>3, <1>4, <1>5, <1>6, SendBatchInv DEF n

LEMMA StageOf ==
    ASSUME IInv, NEW c \in calls
    PROVE  /\ c.what \in OperatorKinds => stage = "operators"
           /\ c.what = "keys" => stage = "keys"
<1>1. stage \in {"count", "operators", "keys"}
  BY DEF IInv, TypeOK, StageInv
<1>2. stage = "count" => c.what = "count"
  BY DEF IInv, StageInv, Call
<1>3. stage = "operators" => c.what \in OperatorKinds
  BY DEF IInv, StageInv, BatchInv
<1>4. stage = "keys" => c.what = "keys"
  BY DEF IInv, StageInv, KeysBatchInv, KeysCall
<1> QED
  BY <1>1, <1>2, <1>3, <1>4 DEF OperatorKinds

LEMMA FetchedIsOperator ==
    ASSUME type \in STAKING_MODULE_TYPE, block \in Blocks, NEW o \in Indices(block), NEW answers,
           \A what \in Parts : IsAnswer(block, Call(what, o), answers[Call(what, o)])
    PROVE  IsOperator(type, block, o,
                      IF type = CURATED_ONCHAIN_V1_TYPE THEN fetchOne(o, answers)
                      ELSE fetchOneCSM(o, answers))
<1>1. /\ answers[Call("operator", o)] = OperatorsAt[block][o]
      /\ answers[Call("summary", o)] = OperatorsAt[block][o].depositable
      /\ answers[Call("finalized", o)] \in FinalizedValues(o)
      /\ type = CURATED_ONCHAIN_V2_TYPE => answers[Call("name", o)] = OperatorsAt[block][o].name
  BY DEF Parts, IsAnswer, Call
<1>2. OperatorsAt[block][o].active \in BOOLEAN
  BY OperatorsTyped
<1>3. CASE type = CURATED_ONCHAIN_V1_TYPE
  <2>1. fetchOne(o, answers).active = OperatorsAt[block][o].active
    BY <1>1 DEF fetchOne
  <2>2. fetchOne(o, answers).active = (type = CURATED_ONCHAIN_V1_TYPE => OperatorsAt[block][o].active)
    BY <2>1, <1>2, <1>3
  <2>3. type # COMMUNITY_ONCHAIN_V1_TYPE
    BY <1>3 DEF CURATED_ONCHAIN_V1_TYPE, COMMUNITY_ONCHAIN_V1_TYPE
  <2> QED
    BY <1>1, <1>3, <2>2, <2>3 DEF IsOperator, fetchOne
<1>4. CASE type # CURATED_ONCHAIN_V1_TYPE
  <2>1. fetchOneCSM(o, answers).active = TRUE
    BY DEF fetchOneCSM
  <2>2. fetchOneCSM(o, answers).active
          = (type = CURATED_ONCHAIN_V1_TYPE => OperatorsAt[block][o].active)
    BY <2>1, <1>2, <1>4
  <2>3. type = COMMUNITY_ONCHAIN_V1_TYPE \/ type = CURATED_ONCHAIN_V2_TYPE
    BY <1>4 DEF STAKING_MODULE_TYPE
  <2>4. COMMUNITY_ONCHAIN_V1_TYPE # CURATED_ONCHAIN_V2_TYPE
    BY DEF CURATED_ONCHAIN_V2_TYPE, COMMUNITY_ONCHAIN_V1_TYPE
  <2> QED
    BY <1>1, <1>4, <2>2, <2>3, <2>4 DEF IsOperator, fetchOneCSM
<1> QED
  BY <1>3, <1>4

LEMMA AnsweredInv ==
    ASSUME IInv, NEW c \in calls, c.what \in OperatorKinds \ {"registry"}, NEW value,
           IsAnswer(block, c, value), Answered(c, value)
    PROVE  IInv'
<1> DEFINE answers == Put(got, c, value)
           end == BatchEnd(next, count)
<1> USE DEF process
<1>1. stage = "operators" /\ BatchInv /\ count = Cardinality(Indices(block)) /\ types = type
      /\ keys = Nothing /\ block \in Blocks /\ count \in Nat /\ next \in Nat
      /\ type \in STAKING_MODULE_TYPE
  BY StageOf DEF IInv, StageInv, TypeOK
<1>2. DOMAIN answers = DOMAIN got \cup {c}
  BY PutDomain
<1>3. ASSUME NEW d \in DOMAIN answers
      PROVE  d = Call(d.what, d.operator) /\ d.what \in OperatorKinds
             /\ IsAnswer(block, d, answers[d])
  <2>1. CASE d = c
    BY <1>1, <2>1, PutValue DEF BatchInv
  <2>2. CASE d # c
    BY <1>1, <1>2, <2>2, PutValue DEF BatchInv
  <2> QED
    BY <2>1, <2>2
<1>4. UNCHANGED <<type, process, block, count, keys, fault>>
  BY DEF Answered
<1>5. end \in Nat /\ next < end /\ end <= count
  BY <1>1, EndOfBatch DEF BatchInv
<1>6. CASE \E o \in next .. end - 1, what \in Parts : Call(what, o) \notin DOMAIN answers
  <2>1. calls' = calls \ {c} /\ got' = answers /\ UNCHANGED <<stage, next, operators>>
    BY <1>6 DEF Answered
  <2>2. calls' \cup DOMAIN got' = calls \cup DOMAIN got
    BY <2>1, <1>2
  <2>3. calls' \cap DOMAIN got' = {}
    BY <2>1, <1>2 DEF IInv, TypeOK
  <2>4. BatchInv'
    <3>1. OperatorsRead(next)'
      BY <1>1, <1>4, <2>1 DEF BatchInv, OperatorsRead
    <3>2. \A d \in DOMAIN got' : IsAnswer(block', d, got'[d])
      BY <1>3, <1>4, <2>1
    <3> QED
      BY <1>1, <1>4, <2>1, <2>2, <3>1, <3>2 DEF BatchInv
  <2>5. TypeOK'
    BY <1>4, <2>1, <2>2, <2>3 DEF IInv, TypeOK
  <2>6. StageInv'
    BY <1>1, <1>4, <2>1, <2>4 DEF StageInv
  <2> QED
    BY <2>5, <2>6 DEF IInv
<1>7. CASE \A o \in next .. end - 1, what \in Parts : Call(what, o) \in DOMAIN answers
  <2>1. /\ got' = Nothing
        /\ operators' = [o \in 0 .. end - 1 |->
                           IF o < next THEN operators[o]
                           ELSE IF type = CURATED_ONCHAIN_V1_TYPE THEN fetchOne(o, answers)
                           ELSE fetchOneCSM(o, answers)]
        /\ SendBatch(end, count)
    BY <1>7 DEF Answered
  <2>2. ASSUME NEW o \in 0 .. end - 1
        PROVE  IsOperator(type, block, o, operators'[o])
    <3>1. CASE o < next
      <4>1. operators'[o] = operators[o] /\ o \in 0 .. next - 1
        BY <1>1, <1>5, <2>1, <3>1
      <4> QED
        BY <1>1, <4>1 DEF BatchInv, OperatorsRead, ReadOf
    <3>2. CASE ~ (o < next)
      <4>1. o \in next .. end - 1
        BY <1>1, <1>5, <3>2
      <4>2. \A what \in Parts : IsAnswer(block, Call(what, o), answers[Call(what, o)])
        BY <1>3, <1>7, <4>1
      <4>3. o \in Indices(block)
        BY <1>1, <1>5, IndicesOf
      <4>4. operators'[o] = IF type = CURATED_ONCHAIN_V1_TYPE THEN fetchOne(o, answers)
                            ELSE fetchOneCSM(o, answers)
        BY <2>1, <3>2
      <4> HIDE DEF answers
      <4>5. IsOperator(type, block, o,
                       IF type = CURATED_ONCHAIN_V1_TYPE THEN fetchOne(o, answers)
                       ELSE fetchOneCSM(o, answers))
        BY <1>1, <4>2, <4>3, FetchedIsOperator
      <4> QED
        BY <4>4, <4>5
    <3> QED
      BY <3>1, <3>2
  <2>3. ReadOf(type, block, operators', end)
    BY <2>1, <2>2 DEF ReadOf
  <2>4. end \in 0 .. count
    BY <1>1, <1>5
  <2> HIDE DEF end
  <2>5. count' = count
    BY <1>4
  <2> QED
    BY <1>1, <1>4, <2>1, <2>3, <2>4, <2>5, SendBatchInv
<1> QED
  BY <1>6, <1>7

LEMMA RegistryInv ==
    ASSUME IInv, NEW c \in calls, getMetaRegistryAddress(c)
    PROVE  IInv'
<1> DEFINE d == Call("name", c.operator)
<1>1. c.what = "registry"
  BY DEF getMetaRegistryAddress
<1>2. stage = "operators" /\ BatchInv /\ c.operator \in Indices(block)
  BY <1>1, StageOf DEF IInv, StageInv, TypeOK, OperatorKinds
<1>3. /\ metaRegistryByModule' = MetaRegistry
      /\ calls' = (calls \ {c}) \cup {d}
      /\ UNCHANGED <<type, types, strays, stage, block, count, next, got, operators, keys, fault>>
  BY DEF getMetaRegistryAddress
<1>4. d \notin calls \cup DOMAIN got
  BY <1>1, <1>2 DEF BatchInv
<1>5. d.what = "name" /\ d.operator = c.operator /\ d = Call(d.what, d.operator)
  BY DEF Call
<1>6. ASSUME NEW e \in calls', e.what = "registry",
             Call("name", e.operator) \in calls' \cup DOMAIN got'
      PROVE  FALSE
  <2>1. e \in calls /\ e # c
    BY <1>3, <1>5, <1>6
  <2>2. Call("name", e.operator) \notin calls \cup DOMAIN got
    BY <1>2, <1>6, <2>1 DEF BatchInv
  <2>3. Call("name", e.operator) = d
    BY <1>3, <1>6, <2>2
  <2>4. e.operator = c.operator
    BY <2>3 DEF Call
  <2>5. e = Call("registry", e.operator) /\ c = Call("registry", c.operator)
    BY <1>1, <1>2, <1>6, <2>1 DEF BatchInv
  <2> QED
    BY <2>1, <2>4, <2>5
<1>7. BatchInv'
  <2>1. OperatorsRead(next)'
    BY <1>2, <1>3 DEF BatchInv, OperatorsRead
  <2>2. ASSUME NEW e \in calls' \cup DOMAIN got'
        PROVE  e.what \in OperatorKinds /\ e = Call(e.what, e.operator)
    BY <1>2, <1>3, <1>5 DEF BatchInv, OperatorKinds
  <2> HIDE DEF d
  <2> QED
    BY <1>2, <1>3, <1>6, <2>1, <2>2 DEF BatchInv
<1> HIDE DEF d
<1>8. TypeOK'
  BY <1>2, <1>3, <1>4, <1>5 DEF IInv, TypeOK
<1>9. StageInv'
  BY <1>2, <1>3, <1>7 DEF IInv, StageInv
<1> QED
  BY <1>8, <1>9 DEF IInv

LEMMA StrayInv == IInv /\ StrayAnswered => IInv'
<1> SUFFICES ASSUME IInv, StrayAnswered PROVE IInv'
  OBVIOUS
<1>1. /\ metaRegistryByModule' = MetaRegistry /\ strays' = FALSE
      /\ UNCHANGED <<type, types, stage, block, count, next, calls, got, operators, keys, fault>>
  BY DEF StrayAnswered
<1>2. strays' \in BOOLEAN
  BY <1>1, Zenon
<1>3. TypeOK'
  BY <1>1, <1>2 DEF IInv, TypeOK
<1>4. StageInv'
  BY <1>1 DEF IInv, StageInv, BatchInv, KeysBatchInv, OperatorsRead, KeysRead
<1> QED
  BY <1>3, <1>4 DEF IInv

(* One operator's keys more. *)
LEMMA KeysReadMore ==
    ASSUME NEW n \in Nat, KeysRead(n), NEW from \in 0 .. OperatorsAt[block][n].added,
           NEW set, set = KeysOf(block, n, from, OperatorsAt[block][n].added - 1),
           keys' = Put(keys, n, set)
    PROVE  KeysReadOf(block, keys', n + 1)
<1>1. DOMAIN keys' = 0 .. (n + 1) - 1
  <2>1. DOMAIN keys' = DOMAIN keys \cup {n}
    BY PutDomain
  <2>2. DOMAIN keys = 0 .. n - 1
    BY DEF KeysRead, KeysReadOf
  <2>3. (0 .. n - 1) \cup {n} = 0 .. (n + 1) - 1
    OBVIOUS
  <2> QED
    BY <2>1, <2>2, <2>3
<1>2. ASSUME NEW o \in 0 .. (n + 1) - 1
      PROVE  \E f \in 0 .. OperatorsAt[block][o].added :
               keys'[o] = KeysOf(block, o, f, OperatorsAt[block][o].added - 1)
  <2>1. CASE o = n
    BY <2>1, PutValue
  <2>2. CASE o # n
    <3>1. o \in 0 .. n - 1 /\ o \in DOMAIN keys
      BY <2>2 DEF KeysRead, KeysReadOf
    <3>2. keys'[o] = keys[o]
      BY <2>2, <3>1, PutValue
    <3> QED
      BY <3>1, <3>2 DEF KeysRead, KeysReadOf
  <2> QED
    BY <2>1, <2>2
<1> QED
  BY <1>1, <1>2 DEF KeysReadOf

LEMMA SyncInv == IInv /\ syncUpdatedKeysWithContract => IInv'
<1> SUFFICES ASSUME IInv, syncUpdatedKeysWithContract PROVE IInv'
  OBVIOUS
<1> USE DEF process
<1>1. /\ stage = "next" /\ OperatorsRead(count) /\ KeysRead(next) /\ calls = {} /\ got = Nothing
      /\ count = Cardinality(Indices(block)) /\ types = type /\ block \in Blocks
      /\ count \in Nat /\ next \in 0 .. count
  BY DEF syncUpdatedKeysWithContract, IInv, StageInv, TypeOK
<1>2. UNCHANGED <<type, process, block, count, got, operators, fault>>
  BY DEF syncUpdatedKeysWithContract
<1>3. OperatorsRead(count)'
  BY <1>1, <1>2 DEF OperatorsRead, ReadOf
<1>4. DOMAIN got' = {}
  BY <1>1, <1>2 DEF Nothing
<1>5. CASE next = count
  <2>1. stage' = "done" /\ UNCHANGED <<next, calls, keys>>
    BY <1>5 DEF syncUpdatedKeysWithContract
  <2>2. TypeOK'
    BY <1>2, <2>1 DEF IInv, TypeOK
  <2>3. KeysRead(next)'
    BY <1>1, <1>2, <2>1 DEF KeysRead
  <2>4. StageInv'
    BY <1>1, <1>2, <1>3, <1>5, <2>1, <2>3 DEF StageInv
  <2> QED
    BY <2>2, <2>4 DEF IInv
<1>6. CASE next # count
  <2> DEFINE added == OperatorsAt[block][next].added
  <2>1. next \in Indices(block) /\ next \in 0 .. count - 1
    BY <1>1, <1>6, IndicesOf
  <2>2. added \in Nat /\ operators[next].totalSigningKeys = added
    BY <1>1, <2>1, OperatorsTyped DEF OperatorsRead, ReadOf, IsOperator
  <2>3. PICK from \in 0 .. added :
          LET batches == makeBatches(KeysBatchSize, from, added - from) IN
          IF batches = {}
          THEN /\ keys' = Put(keys, next, {})
               /\ next' = next + 1
               /\ UNCHANGED <<stage, calls>>
          ELSE /\ calls' = {KeysCall(next, batch) : batch \in batches}
               /\ stage' = "keys"
               /\ UNCHANGED <<next, keys>>
    BY <1>6, <2>2 DEF syncUpdatedKeysWithContract
  <2> DEFINE batches == makeBatches(KeysBatchSize, from, added - from)
  <2>4. KeysBatchSize \in Nat \ {0} /\ from \in Nat /\ added - from \in Nat
    BY <2>2, ContractFetchAssumption
  <2>5. CASE batches = {}
    <3>1. keys' = Put(keys, next, {}) /\ next' = next + 1 /\ UNCHANGED <<stage, calls>>
      BY <2>3, <2>5
    <3>2. ~ \E j \in from .. from + (added - from) - 1 : TRUE
      BY <2>4, <2>5, BatchesCover
    <3>3. from = added
      <4>1. from < added => from \in from .. from + (added - from) - 1
        BY <2>2
      <4> QED
        BY <2>2, <3>2, <4>1
    <3>4. KeysOf(block, next, added, added - 1) = {}
      BY <2>2 DEF KeysOf
    <3>5. added \in 0 .. added
      BY <2>2
    <3>6. KeysReadOf(block, keys', next + 1)
      BY <1>1, <1>2, <2>1, <3>1, <3>4, <3>5, KeysReadMore
    <3>7. KeysRead(next)'
      BY <1>2, <3>1, <3>6 DEF KeysRead
    <3>8. TypeOK'
      BY <1>1, <1>2, <1>6, <2>1, <3>1 DEF IInv, TypeOK
    <3>9. StageInv'
      BY <1>1, <1>2, <1>3, <3>1, <3>7 DEF StageInv
    <3> QED
      BY <3>8, <3>9 DEF IInv
  <2>6. CASE batches # {}
    <3>1. calls' = {KeysCall(next, batch) : batch \in batches} /\ stage' = "keys"
          /\ UNCHANGED <<next, keys>>
      BY <2>3, <2>6
    <3>2. ASSUME NEW c \in calls'
          PROVE  c.what = "keys" /\ c.operator = next
      BY <3>1 DEF KeysCall
    <3>3. TypeOK'
      BY <1>2, <1>4, <2>1, <3>1, <3>2 DEF IInv, TypeOK
    <3>4. KeysBatchInv'
      <4>1. KeysRead(next)'
        BY <1>1, <1>2, <3>1 DEF KeysRead
      <4>2. calls' \cup DOMAIN got'
              = {KeysCall(next, batch) : batch \in makeBatches(KeysBatchSize, from, added - from)}
        BY <1>4, <3>1
      <4>3. \E f \in 0 .. OperatorsAt[block'][next'].added :
              calls' \cup DOMAIN got'
                = {KeysCall(next', batch) :
                     batch \in makeBatches(KeysBatchSize, f,
                                           OperatorsAt[block'][next'].added - f)}
        BY <1>2, <3>1, <4>2
      <4> QED
        BY <1>2, <1>3, <1>4, <1>1, <2>1, <3>1, <4>1, <4>3 DEF KeysBatchInv
    <3>5. StageInv'
      BY <1>1, <1>2, <1>3, <3>1, <3>4 DEF StageInv
    <3> QED
      BY <3>3, <3>5 DEF IInv
  <2> QED
    BY <2>5, <2>6
<1> QED
  BY <1>5, <1>6

(* A request for keys is one of the batches, and asks for keys that are     *)
(* there.                                                                   *)
LEMMA KeysCallWithin ==
    ASSUME IInv, NEW c \in calls, c.what = "keys"
    PROVE  /\ stage = "keys" /\ KeysBatchInv
           /\ c.operator = next /\ next \in Indices(block)
           /\ IsKeysCall(c, c.operator)
           /\ ~ Reverts(c)
           /\ IsOperator(type, block, next, operators[next])
<1>1. stage = "keys" /\ KeysBatchInv
  BY StageOf DEF IInv, StageInv
<1>2. block \in Blocks /\ count \in Nat /\ next \in 0 .. count /\ count = Cardinality(Indices(block))
  BY <1>1 DEF IInv, TypeOK, StageInv
<1>3. next \in Indices(block) /\ next \in 0 .. count - 1
  BY <1>1, <1>2, IndicesOf DEF KeysBatchInv
<1> DEFINE added == OperatorsAt[block][next].added
<1>4. added \in Nat
  BY <1>2, <1>3, OperatorsTyped
<1>5. PICK from \in 0 .. added :
        calls \cup DOMAIN got
          = {KeysCall(next, batch) : batch \in makeBatches(KeysBatchSize, from, added - from)}
  BY <1>1 DEF KeysBatchInv
<1>6. PICK batch \in makeBatches(KeysBatchSize, from, added - from) : c = KeysCall(next, batch)
  BY <1>5
<1>7. KeysBatchSize \in Nat \ {0} /\ from \in Nat /\ added - from \in Nat
  BY <1>4, ContractFetchAssumption
<1>8. /\ batch.offset \in Nat /\ batch.batchSize \in Nat \ {0}
      /\ batch.offset + batch.batchSize <= from + (added - from)
  BY <1>7, BatchWithin
<1>9. /\ c.what = "keys" /\ c.operator = next /\ c.offset = batch.offset
      /\ c.size = batch.batchSize
  BY <1>6 DEF KeysCall
<1>10. c.offset + c.size <= added
  BY <1>4, <1>7, <1>8, <1>9
<1>11. ~ Reverts(c)
  BY <1>4, <1>8, <1>9, <1>10 DEF Reverts
<1>12. IsOperator(type, block, next, operators[next])
  BY <1>1, <1>3 DEF KeysBatchInv, OperatorsRead, ReadOf
<1> QED
  BY <1>1, <1>3, <1>8, <1>9, <1>11, <1>12 DEF IsKeysCall

LEMMA SigningKeysInv ==
    ASSUME IInv, NEW c \in calls, AnswerSigningKeys(c)
    PROVE  IInv'
<1> USE DEF process
<1> DEFINE answers == Put(got, c, Formatted(c))
           added == OperatorsAt[block][next].added
<1>1. c.what = "keys"
  BY DEF AnswerSigningKeys
<1>2. /\ stage = "keys" /\ KeysBatchInv /\ c.operator = next /\ next \in Indices(block)
      /\ IsKeysCall(c, c.operator) /\ ~ Reverts(c)
      /\ IsOperator(type, block, next, operators[next])
  BY <1>1, KeysCallWithin
<1>3. block \in Blocks /\ types = type /\ count = Cardinality(Indices(block))
      /\ count \in Nat /\ next \in 0 .. count - 1 /\ added \in Nat
  BY <1>2, OperatorsTyped DEF IInv, StageInv, TypeOK, KeysBatchInv
<1>4. ~ formatKeysFails(KeyBatchRecord(c), c.size)
  BY <1>2, <1>3, FormatNeverFails
<1>5. Formatted(c) = KeysOf(block, next, c.offset, c.offset + c.size - 1)
  BY <1>2, <1>3, FormattedIsOfContract
<1>6. DOMAIN answers = DOMAIN got \cup {c}
  BY PutDomain
<1>7. ASSUME NEW d \in DOMAIN answers
      PROVE  answers[d] = KeysOf(block, next, d.offset, d.offset + d.size - 1)
  <2>1. CASE d = c
    BY <1>5, <2>1, PutValue
  <2>2. CASE d # c
    BY <1>2, <1>6, <2>2, PutValue DEF KeysBatchInv
  <2> QED
    BY <2>1, <2>2
<1>8. /\ UNCHANGED <<type, process, block, count, operators, fault>>
      /\ IF calls # {c}
         THEN calls' = calls \ {c} /\ got' = answers /\ UNCHANGED <<stage, next, keys>>
         ELSE /\ calls' = {} /\ got' = Nothing
              /\ keys' = Put(keys, next, UNION {answers[d] : d \in DOMAIN answers})
              /\ next' = next + 1
              /\ stage' = "next"
  BY <1>2, <1>4 DEF AnswerSigningKeys
<1>9. OperatorsRead(count)'
  BY <1>2, <1>8 DEF KeysBatchInv, OperatorsRead
<1> HIDE DEF answers
<1>10. CASE calls # {c}
  <2>1. calls' = calls \ {c} /\ got' = answers /\ UNCHANGED <<stage, next, keys>>
    BY <1>8, <1>10
  <2>2. calls' \cup DOMAIN got' = calls \cup DOMAIN got /\ calls' \cap DOMAIN got' = {}
    BY <1>6, <2>1 DEF IInv, TypeOK
  <2>3. KeysBatchInv'
    <3>1. KeysRead(next)'
      BY <1>2, <1>8, <2>1 DEF KeysBatchInv, KeysRead
    <3>2. \A d \in DOMAIN got' : got'[d] = KeysOf(block', next', d.offset, d.offset + d.size - 1)
      BY <1>7, <1>8, <2>1
    <3> QED
      BY <1>2, <1>8, <1>9, <2>1, <2>2, <3>1, <3>2 DEF KeysBatchInv
  <2>4. TypeOK'
    BY <1>8, <2>1, <2>2 DEF IInv, TypeOK
  <2>5. StageInv'
    BY <1>2, <1>3, <1>8, <2>1, <2>3 DEF StageInv
  <2> QED
    BY <2>4, <2>5 DEF IInv
<1>11. CASE calls = {c}
  <2> DEFINE set == UNION {answers[d] : d \in DOMAIN answers}
  <2>1. /\ calls' = {} /\ got' = Nothing /\ keys' = Put(keys, next, set) /\ next' = next + 1
        /\ stage' = "next"
    BY <1>8, <1>11
  <2>2. PICK from \in 0 .. added :
          calls \cup DOMAIN got
            = {KeysCall(next, batch) :
                 batch \in makeBatches(KeysBatchSize, from, added - from)}
    BY <1>2 DEF KeysBatchInv
  <2>3. DOMAIN answers
          = {KeysCall(next, batch) :
               batch \in makeBatches(KeysBatchSize, from, added - from)}
    BY <1>6, <1>11, <2>2
  <2>4. KeysBatchSize \in Nat \ {0} /\ from \in Nat /\ added - from \in Nat
    BY <1>3, ContractFetchAssumption
  <2>5. ASSUME NEW j \in from .. added - 1
        PROVE  ContractKey(block, next, j) \in set
    <3>1. j \in from .. from + (added - from) - 1
      BY <1>3, <2>4
    <3>2. PICK batch \in makeBatches(KeysBatchSize, from, added - from) :
            j \in batch.offset .. batch.offset + batch.batchSize - 1
      BY <2>4, <3>1, BatchesCover
    <3> DEFINE d == KeysCall(next, batch)
    <3>3. d \in DOMAIN answers /\ d.offset = batch.offset /\ d.size = batch.batchSize
      BY <2>3 DEF KeysCall
    <3> HIDE DEF d
    <3>4. ContractKey(block, next, j) \in answers[d]
      BY <1>7, <3>2, <3>3 DEF KeysOf
    <3> QED
      BY <3>3, <3>4
  <2>6. ASSUME NEW key \in set
        PROVE  \E j \in from .. added - 1 : key = ContractKey(block, next, j)
    <3>1. PICK d \in DOMAIN answers : key \in answers[d]
      OBVIOUS
    <3>2. PICK batch \in makeBatches(KeysBatchSize, from, added - from) : d = KeysCall(next, batch)
      BY <2>3
    <3>3. d.offset = batch.offset /\ d.size = batch.batchSize
      BY <3>2 DEF KeysCall
    <3>4. PICK j \in d.offset .. d.offset + d.size - 1 : key = ContractKey(block, next, j)
      BY <1>7, <3>1 DEF KeysOf
    <3>5. /\ batch.offset \in Nat /\ batch.batchSize \in Nat
          /\ from <= batch.offset /\ batch.offset + batch.batchSize <= from + (added - from)
      BY <2>4, BatchWithin
    <3>6. j \in from .. added - 1
      BY <1>3, <2>4, <3>3, <3>4, <3>5
    <3> QED
      BY <3>4, <3>6
  <2>7. set = KeysOf(block, next, from, added - 1)
    BY <2>5, <2>6 DEF KeysOf
  <2>8. KeysRead(next) /\ next \in Nat
    BY <1>2, <1>3 DEF KeysBatchInv
  <2> HIDE DEF set
  <2>9. KeysReadOf(block, keys', next + 1)
    BY <2>1, <2>7, <2>8, KeysReadMore
  <2>10. KeysRead(next)'
    BY <1>8, <2>1, <2>9 DEF KeysRead
  <2>11. TypeOK'
    <3>1. DOMAIN got' = {}
      BY <2>1 DEF Nothing
    <3>2. next' \in 0 .. count'
      BY <1>3, <1>8, <2>1
    <3> QED
      BY <1>8, <2>1, <3>1, <3>2 DEF IInv, TypeOK
  <2>12. StageInv'
    BY <1>3, <1>8, <1>9, <2>1, <2>10 DEF StageInv
  <2> QED
    BY <2>11, <2>12 DEF IInv
<1> QED
  BY <1>10, <1>11

LEMMA FailInv ==
    ASSUME IInv, NEW c \in calls, Fail(c)
    PROVE  IInv'
<1>1. RoundFails /\ fault'
  BY DEF Fail
<1>2. stage # "idle"
  BY DEF IInv, StageInv
<1>3. types = type
  BY <1>2 DEF IInv, StageInv
<1> QED
  BY <1>1, <1>3, FailsInv

LEMMA RestartInv == IInv /\ Restart => IInv'
<1> SUFFICES ASSUME IInv, Restart PROVE IInv'
  OBVIOUS
<1>1. /\ types' = None /\ metaRegistryByModule' = None /\ strays' = FALSE
      /\ stage' = "idle" /\ calls' = {} /\ DOMAIN got' = {} /\ got' = Nothing
      /\ UNCHANGED <<type, block, count, next, fault>>
  BY DEF Restart, Nothing
<1>2. strays' \in BOOLEAN
  BY <1>1, Zenon
<1>3. TypeOK'
  BY <1>1, <1>2 DEF IInv, TypeOK
<1>4. StageInv'
  BY <1>1 DEF StageInv
<1> QED
  BY <1>3, <1>4 DEF IInv

LEMMA StepInv == IInv /\ [Next]_vars => IInv'
<1> SUFFICES ASSUME IInv, [Next]_vars PROVE IInv'
  OBVIOUS
<1>1. CASE getOperatorsFromContract
  BY <1>1, StartInv
<1>2. CASE AnswerCount
  BY <1>2, CountInv
<1>3. ASSUME NEW c \in calls, Answer(c)
      PROVE  IInv'
  <2>1. CASE AnswerNodeOperator(c)
    <3>1. c.what = "operator" /\ Answered(c, OperatorsAt[block][c.operator])
      BY <2>1 DEF AnswerNodeOperator
    <3>2. IsAnswer(block, c, OperatorsAt[block][c.operator])
      BY <3>1 DEF IsAnswer
    <3> QED
      BY <3>1, <3>2, AnsweredInv DEF OperatorKinds
  <2>2. CASE AnswerNodeOperatorSummary(c)
    <3>1. c.what = "summary" /\ Answered(c, OperatorsAt[block][c.operator].depositable)
      BY <2>2 DEF AnswerNodeOperatorSummary
    <3>2. IsAnswer(block, c, OperatorsAt[block][c.operator].depositable)
      BY <3>1 DEF IsAnswer
    <3> QED
      BY <3>1, <3>2, AnsweredInv DEF OperatorKinds
  <2>3. CASE getFinalizedNodeOperatorUsedSigningKeys(c)
    <3>1. c.what = "finalized"
      BY <2>3 DEF getFinalizedNodeOperatorUsedSigningKeys
    <3>2. PICK value \in FinalizedValues(c.operator) : Answered(c, value)
      BY <2>3 DEF getFinalizedNodeOperatorUsedSigningKeys
    <3>3. IsAnswer(block, c, value)
      BY <3>1, <3>2 DEF IsAnswer
    <3> QED
      BY <3>1, <3>2, <3>3, AnsweredInv DEF OperatorKinds
  <2>4. CASE AnswerOperatorMetadata(c)
    <3>1. c.what = "name" /\ Answered(c, OperatorsAt[block][c.operator].name)
      BY <2>4 DEF AnswerOperatorMetadata
    <3>2. IsAnswer(block, c, OperatorsAt[block][c.operator].name)
      BY <3>1 DEF IsAnswer
    <3> QED
      BY <3>1, <3>2, AnsweredInv DEF OperatorKinds
  <2>5. CASE getMetaRegistryAddress(c)
    BY <2>5, RegistryInv
  <2>6. CASE AnswerSigningKeys(c)
    BY <2>6, SigningKeysInv
  <2> QED
    BY <1>3, <2>1, <2>2, <2>3, <2>4, <2>5, <2>6 DEF Answer
<1>4. ASSUME NEW c \in calls, Fail(c)
      PROVE  IInv'
  BY <1>4, FailInv
<1>5. CASE syncUpdatedKeysWithContract
  BY <1>5, SyncInv
<1>6. CASE StrayAnswered
  BY <1>6, StrayInv
<1>7. CASE Restart
  BY <1>7, RestartInv
<1>8. CASE UNCHANGED vars
  BY <1>8 DEF vars, process, IInv, TypeOK, StageInv, BatchInv, KeysBatchInv, OperatorsRead,
             KeysRead
<1> QED
  BY <1>1, <1>2, <1>3, <1>4, <1>5, <1>6, <1>7, <1>8 DEF Next, Progress

THEOREM Invariance == Spec => []IInv
<1>1. Init => IInv
  BY InitInv
<1>2. IInv /\ [Next]_vars => IInv'
  BY StepInv
<1> QED
  BY <1>1, <1>2, PTL DEF Spec

(* Where a round is, and what it has asked and got: each request of the     *)
(* batch once, for whatever operators and batches.                          *)
THEOREM TypeCorrect == Spec => []TypeOK
<1>1. IInv => TypeOK
  BY DEF IInv
<1> QED
  BY <1>1, Invariance, PTL

(* For whatever contract and batch sizes, a round only fails by a request   *)
(* that was not answered.                                                   *)
THEOREM RoundsFailOnlyByFault == Spec => []FailsOnlyByFault
<1>1. IInv => FailsOnlyByFault
  BY DEF IInv, StageInv, FailsOnlyByFault
<1> QED
  BY <1>1, Invariance, PTL

-----------------------------------------------------------------------------
(* The round keeps the promise. *)

LEMMA FailGivesUp ==
    ASSUME RoundFails
    PROVE  Promise!GiveUp
BY DEF RoundFails, Promise!GiveUp, Returned

LEMMA DoneShows ==
    IInv /\ stage = "done" => Promise!Shows(block, [operators |-> operators, keys |-> keys])
<1> SUFFICES ASSUME IInv, stage = "done"
             PROVE  Promise!Shows(block, [operators |-> operators, keys |-> keys])
  OBVIOUS
<1>1. OperatorsRead(count) /\ KeysRead(count) /\ Indices(block) = 0 .. count - 1
      /\ block \in Blocks
  BY IndicesOf DEF IInv, StageInv, TypeOK
<1>2. ASSUME NEW p, p.operators = operators, p.keys = keys
      PROVE  Promise!Shows(block, p)
  <2>1. DOMAIN p.operators = Promise!Indices(block) /\ DOMAIN p.keys = Promise!Indices(block)
    BY <1>1, <1>2 DEF Promise!Indices, Indices, OperatorsRead, ReadOf, KeysRead, KeysReadOf
  <2>2. ASSUME NEW o \in Promise!Indices(block)
        PROVE  Promise!IsOperator(type, block, o, p.operators[o])
    <3>1. IsOperator(type, block, o, p.operators[o])
      BY <1>1, <1>2 DEF Promise!Indices, Indices, OperatorsRead, ReadOf
    <3> QED
      BY <3>1 DEF IsOperator, Promise!IsOperator, FinalizedValues, Promise!FinalizedValues,
         Indices, Promise!Indices, CsmStaticName, Promise!CsmStaticName,
         CURATED_ONCHAIN_V1_TYPE, COMMUNITY_ONCHAIN_V1_TYPE,
         Promise!CURATED_ONCHAIN_V1_TYPE, Promise!COMMUNITY_ONCHAIN_V1_TYPE
  <2>3. ASSUME NEW o \in Promise!Indices(block)
        PROVE  \E from \in 0 .. OperatorsAt[block][o].added :
                 p.keys[o] = {Promise!ContractKey(block, o, i) :
                                i \in from .. (OperatorsAt[block][o].added - 1)}
    <3>1. PICK from \in 0 .. OperatorsAt[block][o].added :
            keys[o] = KeysOf(block, o, from, OperatorsAt[block][o].added - 1)
      BY <1>1 DEF Promise!Indices, Indices, KeysRead, KeysReadOf
    <3>2. \A i : Promise!ContractKey(block, o, i) = ContractKey(block, o, i)
      BY DEF Promise!ContractKey, ContractKey, Promise!Digits, Digits
    <3> QED
      BY <1>2, <3>1, <3>2 DEF KeysOf
  <2> QED
    BY <2>1, <2>2, <2>3 DEF Promise!Shows
<1>3. [operators |-> operators, keys |-> keys].operators = operators
      /\ [operators |-> operators, keys |-> keys].keys = keys
  OBVIOUS
<1> QED
  BY <1>2, <1>3

(* A step within a round is no step of the promise. *)
LEMMA Stutters ==
    ASSUME stage \in {"count", "operators", "next", "keys"},
           stage' \in {"count", "operators", "next", "keys"}, UNCHANGED <<type, block>>
    PROVE  UNCHANGED Promise!vars
BY DEF Promise!vars, Returned

LEMMA StepKeepsPromise ==
    IInv /\ IInv' /\ [Next]_vars => [Promise!Ask \/ Promise!Read \/ Promise!GiveUp]_Promise!vars
<1> DEFINE Goal == [Promise!Ask \/ Promise!Read \/ Promise!GiveUp]_Promise!vars
<1> SUFFICES ASSUME IInv, IInv', [Next]_vars PROVE Goal
  OBVIOUS
<1>a. block \in Blocks /\ block' \in Blocks /\ None \notin Blocks
  BY ContractFetchAssumption DEF IInv, TypeOK
<1>1. CASE getOperatorsFromContract
  <2>1. stage' = "count" /\ block' \in Blocks /\ UNCHANGED type
    BY <1>1 DEF getOperatorsFromContract
  <2> QED
    BY <2>1 DEF Promise!Ask, Returned
<1>2. CASE AnswerCount
  <2>1. CASE RoundFails
    BY <2>1, FailGivesUp
  <2>2. CASE ~ RoundFails
    <3>1. stage = "count" /\ SendBatch(0, Cardinality(Indices(block))) /\ UNCHANGED <<type, block>>
      BY <1>2, <2>2 DEF AnswerCount
    <3>2. stage' \in {"operators", "next"}
      BY <3>1 DEF SendBatch
    <3> QED
      BY <3>1, <3>2, Stutters
  <2> QED
    BY <2>1, <2>2
<1>3. ASSUME NEW c \in calls, NEW value, c.what \in OperatorKinds, Answered(c, value)
      PROVE  Goal
  <2>1. stage = "operators" /\ UNCHANGED <<type, block>>
    BY <1>3, StageOf DEF Answered
  <2>2. stage' \in {"operators", "next"}
    BY <1>3, <2>1 DEF Answered, SendBatch
  <2> QED
    BY <2>1, <2>2, Stutters
<1>4. ASSUME NEW c \in calls, Answer(c)
      PROVE  Goal
  <2>1. CASE AnswerNodeOperator(c)
    BY <1>3, <2>1 DEF AnswerNodeOperator, OperatorKinds
  <2>2. CASE AnswerNodeOperatorSummary(c)
    BY <1>3, <2>2 DEF AnswerNodeOperatorSummary, OperatorKinds
  <2>3. CASE getFinalizedNodeOperatorUsedSigningKeys(c)
    <3>1. c.what = "finalized" /\ \E value : Answered(c, value)
      BY <2>3 DEF getFinalizedNodeOperatorUsedSigningKeys
    <3> QED
      BY <1>3, <3>1 DEF OperatorKinds
  <2>4. CASE AnswerOperatorMetadata(c)
    BY <1>3, <2>4 DEF AnswerOperatorMetadata, OperatorKinds
  <2>5. CASE getMetaRegistryAddress(c)
    <3>1. c.what = "registry" /\ UNCHANGED <<type, block, stage>>
      BY <2>5 DEF getMetaRegistryAddress
    <3>2. stage = "operators"
      BY <3>1, StageOf DEF OperatorKinds
    <3> QED
      BY <3>1, <3>2, Stutters
  <2>6. CASE AnswerSigningKeys(c)
    <3>1. c.what = "keys"
      BY <2>6 DEF AnswerSigningKeys
    <3>2. stage = "keys"
      BY <3>1, StageOf
    <3>3. CASE RoundFails
      BY <3>3, FailGivesUp
    <3>4. CASE ~ RoundFails
      <4>1. stage' \in {"keys", "next"} /\ UNCHANGED <<type, block>>
        BY <2>6, <3>2, <3>4 DEF AnswerSigningKeys
      <4> QED
        BY <3>2, <4>1, Stutters
    <3> QED
      BY <3>3, <3>4
  <2> QED
    BY <1>4, <2>1, <2>2, <2>3, <2>4, <2>5, <2>6 DEF Answer
<1>5. ASSUME NEW c \in calls, Fail(c)
      PROVE  Goal
  BY <1>5, FailGivesUp DEF Fail
<1>6. CASE syncUpdatedKeysWithContract
  <2>1. stage = "next" /\ UNCHANGED <<type, block, operators>>
    BY <1>6 DEF syncUpdatedKeysWithContract
  <2>2. CASE stage' # "done"
    <3>1. stage' \in {"next", "keys"}
      BY <1>6, <2>1, <2>2 DEF syncUpdatedKeysWithContract
    <3> QED
      BY <2>1, <3>1, Stutters
  <2>3. CASE stage' = "done"
    <3>1. (IInv /\ stage = "done"
             => Promise!Shows(block, [operators |-> operators, keys |-> keys]))'
      BY DoneShows, PTL
    <3>2. Promise!Shows(block, [operators |-> operators, keys |-> keys])'
      BY <2>3, <3>1
    <3> DEFINE p == [operators |-> operators, keys |-> keys]
    <3>3. Promise!Shows(block, p')
      BY <2>1, <3>2 DEF Promise!Shows, Promise!IsOperator
    <3>4. Returned = {} /\ Returned' = {p'}
      BY <2>1, <2>3 DEF Returned
    <3> HIDE DEF p
    <3>5. /\ (IF stage \in {"idle", "failed"} THEN None ELSE block) = block
          /\ (IF stage' \in {"idle", "failed"} THEN None ELSE block') = block
          /\ block # None
      BY <1>a, <2>1, <2>3
    <3>6. Promise!Shows(IF stage \in {"idle", "failed"} THEN None ELSE block, p')
      BY <3>3, <3>5
    <3>7. p' \in Returned'
      BY <3>4
    <3>8. \E q \in Returned' :
            Promise!Shows(IF stage \in {"idle", "failed"} THEN None ELSE block, q)
              /\ Returned' = {q}
      BY <3>4, <3>6, <3>7
    <3>9. Promise!Read
      BY <2>1, <3>4, <3>5, <3>8 DEF Promise!Read
    <3> QED
      BY <3>9
  <2> QED
    BY <2>2, <2>3
<1>7. CASE StrayAnswered
  <2>1. UNCHANGED <<type, stage, block, operators, keys>>
    BY <1>7 DEF StrayAnswered
  <2> QED
    BY <2>1 DEF Promise!vars, Returned
<1>8. CASE Restart
  <2>1. stage' = "idle" /\ UNCHANGED type
    BY <1>8 DEF Restart
  <2> QED
    BY <2>1 DEF Promise!GiveUp, Returned
<1>9. CASE UNCHANGED vars
  BY <1>9 DEF vars, Promise!vars, Returned
<1> HIDE DEF Goal
<1> QED
  BY <1>1, <1>2, <1>4, <1>5, <1>6, <1>7, <1>8, <1>9 DEF Next, Progress

(* Whatever the contract, the batch sizes, the order of the answers and the *)
(* requests that fail, a round returns one block, whole, or nothing.        *)
THEOREM KeepsPromise == Spec => ReadsWholeOrNothing
<1>1. Init => Promise!Init
  BY DEF Init, Promise!Init, Returned, STAKING_MODULE_TYPE, Promise!STAKING_MODULE_TYPE,
     CURATED_ONCHAIN_V1_TYPE, COMMUNITY_ONCHAIN_V1_TYPE, CURATED_ONCHAIN_V2_TYPE,
     Promise!CURATED_ONCHAIN_V1_TYPE, Promise!COMMUNITY_ONCHAIN_V1_TYPE,
     Promise!CURATED_ONCHAIN_V2_TYPE
<1>2. IInv /\ IInv' /\ [Next]_vars
        => [Promise!Ask \/ Promise!Read \/ Promise!GiveUp]_Promise!vars
  BY StepKeepsPromise
<1> QED
  BY <1>1, <1>2, Invariance, PTL DEF Spec, ReadsWholeOrNothing, Promise!Spec
=============================================================================
