------------------------------- MODULE RestApi -------------------------------
(****************************************************************************)
(* What the HTTP endpoints of modules, operators and keys answer, one       *)
(* request at a time, from the database the keys job committed.  HttpReads  *)
(* has the handlers run beside that job; here every handler sees one        *)
(* snapshot (or the cached reply of one) and the question is what the pipes,*)
(* the filters and the two ways of querying, `find` and streams, make of a  *)
(* request.                                                                 *)
(*                                                                          *)
(* Lists are kept as sets: a row tells its own place.  The columns no       *)
(* handler looks at (fees, names, signatures...) are left out; what the     *)
(* constructors of the entities do to the rest is kept.                     *)
(****************************************************************************)
EXTENDS Requests, FiniteSets

CONSTANTS
    Blocks, NoBlock,    \* rows of el_meta; none yet
    Null,               \* null
    MaxInt,             \* the largest value of an integer column
    Snapshots,          \* what the keys job may commit
    ModuleIdTexts,      \* what clients write for :module_id
    NumberInputs,       \* ... for operatorIndex and :operator_id
    AddressInputs,      \* ... for ?moduleAddresses, sets of texts
    PubkeyInputs,       \* ... for :pubkey
    PubkeysInputs       \* ... for a body of pubkeys, sets of texts

Numbers    == 0 .. MaxInt
UsedInputs == {"absent", "", "true", "false", "yes"}

(* Rows of the tables; addresses are stored in lower case. *)
StoredAddresses == {Plain(a) : a \in Addresses}
SrModuleEntity  == [moduleId : Numbers, stakingModuleAddress : StoredAddresses]
RegistryOperator ==
    [moduleAddress : StoredAddresses, index : Numbers, totalSigningKeys : Numbers,
     usedSigningKeys : Numbers]
RegistryKey ==
    [moduleAddress : StoredAddresses, operatorIndex : Numbers, index : Numbers,
     key : {[key |-> p, form |-> "plain"] : p \in Pubkeys}, used : BOOLEAN,
     vetted : BOOLEAN]

Databases ==
    [block : Blocks \cup {NoBlock}, modules : SUBSET SrModuleEntity,
     operators : SUBSET RegistryOperator, keys : SUBSET RegistryKey]

EmptyDb == [block |-> NoBlock, modules |-> {}, operators |-> {}, keys |-> {}]

(* What a committed round leaves behind (RegistrySync, KeysUpdate): modules *)
(* have ids and addresses of their own, every key its operator, every       *)
(* operator its module and as many keys, and used keys, as it says.         *)
ASSUME RestApiAssumption ==
    /\ MaxInt \in Nat
    /\ NoBlock \notin Blocks
    /\ Null \notin Blocks
    /\ Snapshots \subseteq Databases
    /\ ModuleIdTexts \subseteq AddressTexts \cup NumberTexts
    /\ NumberInputs \subseteq NumberTexts
    /\ \A texts \in AddressInputs : texts \subseteq AddressTexts
    /\ PubkeyInputs \subseteq PubkeyTexts
    /\ \A texts \in PubkeysInputs : texts \subseteq PubkeyTexts
    /\ \A d \in Snapshots :
         /\ d.block \in Blocks
         /\ IsFiniteSet(d.keys)
         /\ \A m, n \in d.modules :
              m.moduleId = n.moduleId \/ m.stakingModuleAddress = n.stakingModuleAddress
                => m = n
         /\ \A o \in d.operators :
              /\ \E m \in d.modules : m.stakingModuleAddress = o.moduleAddress
              /\ LET own == {k \in d.keys : k.moduleAddress = o.moduleAddress
                                              /\ k.operatorIndex = o.index}
                 IN  /\ Cardinality(own) = o.totalSigningKeys
                     /\ Cardinality({k \in own : k.used}) = o.usedSigningKeys
         /\ \A k \in d.keys : \E o \in d.operators :
              o.moduleAddress = k.moduleAddress /\ o.index = k.operatorIndex

VARIABLES
    db,         \* the committed tables
    strict,     \* `find` by a number beyond its column fails instead of finding nothing
    request,    \* the request that was answered
    reply       \* and its answer

vars == <<db, strict, request, reply>>

-----------------------------------------------------------------------------
(* Entities: what a row looks like in a reply. *)

addressToChecksum(t) == Checksum(t)

(* Mutant of Key: the address as it is stored.                             *)
KeyAsStored(k) == k

Key(k) == [k EXCEPT !.moduleAddress = addressToChecksum(@)]

Operator(o) == [o EXCEPT !.moduleAddress = addressToChecksum(@)]

StakingModuleResponse(m) ==
    [id |-> m.moduleId, stakingModuleAddress |-> addressToChecksum(m.stakingModuleAddress)]

ELBlockSnapshot(d) == d.block

Keys(rows)      == {Key(k) : k \in rows}
Operators(rows) == {Operator(o) : o \in rows}

(* Replies.  A broken one has status 200 and no end. *)
Refuse(status) == [status |-> status, whole |-> TRUE, body |-> [none |-> TRUE]]
Ok(body)       == [status |-> 200, whole |-> TRUE, body |-> body]
Cut            == [status |-> 200, whole |-> FALSE, body |-> [none |-> TRUE]]

Unless(status, answer) == IF status = 0 THEN answer ELSE Refuse(status)

httpExceptionTooEarlyResp == 425

-----------------------------------------------------------------------------
(* Numbers reach SQL in two ways: `find` writes them into the statement, a  *)
(* stream binds them to the column's type.                                  *)

BeyondColumn(n) == n \notin {Absent, BadRequest} /\ n \notin Numbers

FindFails(n)   == strict /\ BeyondColumn(n)
StreamFails(n) == BeyondColumn(n)

(* KeysFilter: the query as parsed. *)
KeysFilter(used, operatorIndex) ==
    [used |-> toBoolean(used), operatorIndex |-> OperatorIndex(operatorIndex)]

Parsed(f) == {f.used, f.operatorIndex}

KeysOf(d, a) == {k \in d.keys : k.moduleAddress = a}

(* The queries of the module services.  The curated and the community copy of *)
(* each read the same but for the registry they call: one operator for both.  *)
getKeys(d, a, f) ==
    {k \in KeysOf(d, a) : /\ f.operatorIndex # Absent => k.operatorIndex = f.operatorIndex
                          /\ f.used # Absent => k.used = f.used}

(* Mutant of getKeysStream: all modules of an implementation share a table. *)
getKeysStreamOfTable(d, a, f) ==
    {k \in d.keys : /\ f.operatorIndex # Absent => k.operatorIndex = f.operatorIndex
                    /\ f.used # Absent => k.used = f.used}

(* Mutant of getKeysStream: index 0 is no condition.                        *)
getKeysStreamTruthy(d, a, f) ==
    {k \in KeysOf(d, a) : /\ f.operatorIndex \notin {Absent, 0} =>
                               k.operatorIndex = f.operatorIndex
                          /\ f.used # Absent => k.used = f.used}

getKeysStream(d, a, f) ==
    {k \in KeysOf(d, a) : /\ f.operatorIndex # Absent => k.operatorIndex = f.operatorIndex
                          /\ f.used # Absent => k.used = f.used}

getKeysByPubKeys(d, a, texts) == {k \in KeysOf(d, a) : k.key \in texts}

getKeysByPubkey(d, a, t) == {k \in KeysOf(d, a) : k.key = toLocaleLowerCase(t)}

getOperators(d, a, index) ==
    {o \in d.operators : o.moduleAddress = a /\ (index # Absent => o.index = index)}

getOperatorsStream(d, a) == {o \in d.operators : o.moduleAddress = a}

getOperator(d, a, index) ==
    {o \in d.operators : o.moduleAddress = a /\ o.index = index}

-----------------------------------------------------------------------------
(* StakingRouterService. *)

getStakingModules(d, addresses) ==
    {m \in d.modules : addresses # Absent => m.stakingModuleAddress \in addresses}

getStakingModule(d, id) == {m \in d.modules : m[id.by] = id.value}

(* getStakingModulesAndMeta after the validation of the request. *)
RefuseAll(d, inputs) ==
    IF BadRequest \in inputs THEN 400
    ELSE IF d.block = NoBlock THEN httpExceptionTooEarlyResp
    ELSE 0

(* Mutant of RefuseOne: the meta is looked at first.                        *)
RefuseOneMetaFirst(d, id, inputs) ==
    IF BadRequest \in inputs \/ id = BadRequest THEN 400
    ELSE IF d.block = NoBlock THEN httpExceptionTooEarlyResp
    ELSE IF id.by = "moduleId" /\ FindFails(id.value) THEN 500
    ELSE IF getStakingModule(d, id) = {} THEN 404
    ELSE 0

(* getStakingModuleAndMeta after the validation of the request: the module  *)
(* first, then the meta.                                                    *)
RefuseOne(d, id, inputs) ==
    IF BadRequest \in inputs \/ id = BadRequest THEN 400
    ELSE IF id.by = "moduleId" /\ FindFails(id.value) THEN 500
    ELSE IF getStakingModule(d, id) = {} THEN 404
    ELSE IF d.block = NoBlock THEN httpExceptionTooEarlyResp
    ELSE 0

TheModule(d, id) == CHOOSE m \in getStakingModule(d, id) : TRUE
AddressOf(d, id) == TheModule(d, id).stakingModuleAddress

-----------------------------------------------------------------------------
(* Services. *)

(* GET /v1/modules *)
GetModules(d) ==
    Unless(RefuseAll(d, {}),
           Ok([data |-> {StakingModuleResponse(m) : m \in getStakingModules(d, Absent)},
               elBlockSnapshot |-> ELBlockSnapshot(d)]))

(* GET /v1/modules/:module_id *)
GetModule(d, id) ==
    Unless(RefuseOne(d, id, {}),
           Ok([data |-> StakingModuleResponse(TheModule(d, id)),
               elBlockSnapshot |-> ELBlockSnapshot(d)]))

(* GET /v1/keys.  A stream is opened only for a module that was found. *)
GetKeys(d, addresses, f) ==
    LET stakingModules == getStakingModules(d, addresses) IN
    Unless(RefuseAll(d, {addresses, f.used, f.operatorIndex}),
           IF stakingModules # {} /\ StreamFails(f.operatorIndex) THEN Cut
           ELSE Ok([data |-> UNION {Keys(getKeysStream(d, m.stakingModuleAddress, f)) :
                                      m \in stakingModules},
                    meta |-> ELBlockSnapshot(d)]))

(* GET /v1/keys/:pubkey *)
GetByPubkey(d, pubkey) ==
    LET found == UNION {Keys(getKeysByPubkey(d, m.stakingModuleAddress, pubkey)) :
                          m \in getStakingModules(d, Absent)}
    IN  Unless(RefuseAll(d, {pubkey}),
               IF found = {} THEN Refuse(404)
               ELSE Ok([data |-> found, meta |-> ELBlockSnapshot(d)]))

(* POST /v1/keys/find *)
GetByPubkeys(d, pubKeys) ==
    Unless(RefuseAll(d, {pubKeys}),
           Ok([data |-> UNION {Keys(getKeysByPubKeys(d, m.stakingModuleAddress, pubKeys)) :
                                 m \in getStakingModules(d, Absent)},
               meta |-> ELBlockSnapshot(d)]))

(* GET /v1/modules/keys *)
GetGroupedByModuleKeys(d, f) ==
    Unless(RefuseAll(d, Parsed(f)),
           IF getStakingModules(d, Absent) # {} /\ FindFails(f.operatorIndex)
           THEN Refuse(500)
           ELSE Ok([data |-> {[keys   |-> Keys(getKeys(d, m.stakingModuleAddress, f)),
                               module |-> StakingModuleResponse(m)] :
                                m \in getStakingModules(d, Absent)},
                    meta |-> ELBlockSnapshot(d)]))

(* GET /v1/modules/:module_id/keys *)
GetModuleKeys(d, id, f) ==
    Unless(RefuseOne(d, id, Parsed(f)),
           IF StreamFails(f.operatorIndex) THEN Cut
           ELSE Ok([data |-> [keys   |-> Keys(getKeysStream(d, AddressOf(d, id), f)),
                              module |-> StakingModuleResponse(TheModule(d, id))],
                    meta |-> ELBlockSnapshot(d)]))

(* POST /v1/modules/:module_id/keys/find *)
GetModuleKeysByPubKeys(d, id, pubKeys) ==
    Unless(RefuseOne(d, id, {pubKeys}),
           Ok([data |-> [keys   |-> Keys(getKeysByPubKeys(d, AddressOf(d, id), pubKeys)),
                         module |-> StakingModuleResponse(TheModule(d, id))],
               meta |-> ELBlockSnapshot(d)]))

(* GET /v1/operators *)
GetAllOperators(d) ==
    Unless(RefuseAll(d, {}),
           Ok([data |-> {[operators |-> Operators(getOperators(d, m.stakingModuleAddress,
                                                               Absent)),
                          module    |-> StakingModuleResponse(m)] :
                           m \in getStakingModules(d, Absent)},
               meta |-> ELBlockSnapshot(d)]))

(* GET /v1/modules/:module_id/operators *)
GetOperatorsByModule(d, id) ==
    Unless(RefuseOne(d, id, {}),
           Ok([data |-> [operators |-> Operators(getOperators(d, AddressOf(d, id), Absent)),
                         module    |-> StakingModuleResponse(TheModule(d, id))],
               meta |-> ELBlockSnapshot(d)]))

(* GET /v1/modules/:module_id/operators/:operator_id *)
GetModuleOperator(d, id, index) ==
    LET found == getOperator(d, AddressOf(d, id), index) IN
    Unless(RefuseOne(d, id, {index}),
           IF FindFails(index) THEN Refuse(500)
           ELSE IF found = {} THEN Refuse(404)
           ELSE Ok([data |-> [operator |-> Operator(CHOOSE o \in found : TRUE),
                              module   |-> StakingModuleResponse(TheModule(d, id))],
                    meta |-> ELBlockSnapshot(d)]))

(* GET /v1/modules/:module_id/operators/keys: operators are found before    *)
(* the reply begins, keys are streamed after.                               *)
GetOperatorsKeys(d, id, f) ==
    Unless(RefuseOne(d, id, Parsed(f)),
           IF FindFails(f.operatorIndex) THEN Refuse(500)
           ELSE IF StreamFails(f.operatorIndex) THEN Cut
           ELSE Ok([data |-> [operators |-> Operators(getOperators(d, AddressOf(d, id),
                                                                   f.operatorIndex)),
                              keys      |-> Keys(getKeysStream(d, AddressOf(d, id), f)),
                              module    |-> StakingModuleResponse(TheModule(d, id))],
                    meta |-> ELBlockSnapshot(d)]))

NoFilter == [used |-> Absent, operatorIndex |-> Absent]

(* One record of the stream below; all but one of its fields are null.      *)
StreamRecord(field, value) ==
    [[stakingModule |-> Null, key |-> Null, operator |-> Null, meta |-> Null]
       EXCEPT ![field] = value]

(* GET /v2/modules/operators/keys: for every module its own record, its     *)
(* keys, its operators; the meta comes with the first module.  The reply    *)
(* has begun before the database is read.                                   *)
ModulesOperatorsKeys(d) ==
    LET stakingModules == getStakingModules(d, Absent)
        first == CHOOSE m \in stakingModules : TRUE
        Rows(m) ==
          {[StreamRecord("stakingModule", StakingModuleResponse(m)) EXCEPT
              !.meta = IF m = first THEN ELBlockSnapshot(d) ELSE Null]}
          \cup {StreamRecord("key", k) :
                  k \in Keys(getKeysStream(d, m.stakingModuleAddress, NoFilter))}
          \cup {StreamRecord("operator", o) :
                  o \in Operators(getOperatorsStream(d, m.stakingModuleAddress))}
    IN  IF RefuseAll(d, {}) # 0 THEN Cut
        ELSE Ok([data |-> UNION {Rows(m) : m \in stakingModules}])

-----------------------------------------------------------------------------
NoRequest == [endpoint |-> "none"]

Init ==
    /\ db = EmptyDb
    /\ strict \in BOOLEAN
    /\ request = NoRequest
    /\ reply = Refuse(0)

(* The keys job commits a round. *)
Commit ==
    /\ request = NoRequest
    /\ db' \in Snapshots
    /\ UNCHANGED <<strict, request, reply>>

(* An endpoint answers; declared: the refusals its decorators document.     *)
Answer(endpoint, declared, answer) ==
    /\ request = NoRequest
    /\ request' = [endpoint |-> endpoint, declared |-> declared]
    /\ reply' = answer
    /\ UNCHANGED <<db, strict>>

(* The client is done with the answer. *)
Done ==
    /\ request # NoRequest
    /\ request' = NoRequest
    /\ reply' = Refuse(0)
    /\ UNCHANGED <<db, strict>>

KeysController_get ==
    \E texts \in AddressInputs, used \in UsedInputs, index \in NumberInputs :
      Answer("keys", {425},
             GetKeys(db, ModuleAddresses(texts), KeysFilter(used, index)))

KeysController_getByPubkey ==
    \E t \in PubkeyInputs : Answer("pubkey", {404, 425}, GetByPubkey(db, Pubkey(t)))

KeysController_getByPubkeys ==
    \E texts \in PubkeysInputs :
      Answer("findKeys", {425}, GetByPubkeys(db, KeysFindBody(texts)))

SRModulesController_getModules == Answer("modules", {425}, GetModules(db))

SRModulesController_getModule ==
    \E t \in ModuleIdTexts : Answer("module", {404, 425}, GetModule(db, ModuleIdPipe(t)))

SRModulesKeysController_getGroupedByModuleKeys ==
    \E used \in UsedInputs, index \in NumberInputs :
      Answer("grouped", {425}, GetGroupedByModuleKeys(db, KeysFilter(used, index)))

SRModulesKeysController_getModuleKeys ==
    \E t \in ModuleIdTexts, used \in UsedInputs, index \in NumberInputs :
      Answer("moduleKeys", {404, 425},
             GetModuleKeys(db, ModuleIdPipe(t), KeysFilter(used, index)))

SRModulesKeysController_getModuleKeysByPubkeys ==
    \E t \in ModuleIdTexts, texts \in PubkeysInputs :
      Answer("findModuleKeys", {404, 425},
             GetModuleKeysByPubKeys(db, ModuleIdPipe(t), KeysFindBody(texts)))

SRModulesOperatorsController_get == Answer("operators", {425}, GetAllOperators(db))

SRModulesOperatorsController_getModuleOperators ==
    \E t \in ModuleIdTexts :
      Answer("moduleOperators", {404, 425}, GetOperatorsByModule(db, ModuleIdPipe(t)))

SRModulesOperatorsController_getModuleOperator ==
    \E t \in ModuleIdTexts, index \in NumberInputs :
      Answer("moduleOperator", {404, 425},
             GetModuleOperator(db, ModuleIdPipe(t), OperatorId(index)))

SRModulesOperatorsKeysController_getOperatorsKeys ==
    \E t \in ModuleIdTexts, used \in UsedInputs, index \in NumberInputs :
      Answer("operatorsKeys", {404, 425},
             GetOperatorsKeys(db, ModuleIdPipe(t), KeysFilter(used, index)))

SRModulesOperatorsKeysController_getModulesOperatorsKeysStream ==
    Answer("v2", {425}, ModulesOperatorsKeys(db))

Next ==
    \/ Commit
    \/ Done
    \/ KeysController_get
    \/ KeysController_getByPubkey
    \/ KeysController_getByPubkeys
    \/ SRModulesController_getModules
    \/ SRModulesController_getModule
    \/ SRModulesKeysController_getGroupedByModuleKeys
    \/ SRModulesKeysController_getModuleKeys
    \/ SRModulesKeysController_getModuleKeysByPubkeys
    \/ SRModulesOperatorsController_get
    \/ SRModulesOperatorsController_getModuleOperators
    \/ SRModulesOperatorsController_getModuleOperator
    \/ SRModulesOperatorsKeysController_getOperatorsKeys
    \/ SRModulesOperatorsKeysController_getModulesOperatorsKeysStream

Spec == Init /\ [][Next]_vars

-----------------------------------------------------------------------------
(* The types the decorators document for a whole reply. *)

ChecksumAddresses == {Checksum(Plain(a)) : a \in Addresses}

KeyDto ==
    [moduleAddress : ChecksumAddresses, operatorIndex : Numbers, index : Numbers,
     key : {[key |-> p, form |-> "plain"] : p \in Pubkeys}, used : BOOLEAN,
     vetted : BOOLEAN]
OperatorDto ==
    [moduleAddress : ChecksumAddresses, index : Numbers, totalSigningKeys : Numbers,
     usedSigningKeys : Numbers]
ModuleDto == [id : Numbers, stakingModuleAddress : ChecksumAddresses]

KeyListResponse == [data : SUBSET KeyDto, meta : Blocks]

SRModuleListResponse == [data : SUBSET ModuleDto, elBlockSnapshot : Blocks]
SRModuleResponse     == [data : ModuleDto, elBlockSnapshot : Blocks]

KeyListWithModule              == [keys : SUBSET KeyDto, module : ModuleDto]
GroupedByModuleKeyListResponse == [data : SUBSET KeyListWithModule, meta : Blocks]
SRModuleKeyListResponse        == [data : KeyListWithModule, meta : Blocks]

OperatorListAndSRModule == [operators : SUBSET OperatorDto, module : ModuleDto]
GroupedByModuleOperatorListResponse ==
    [data : SUBSET OperatorListAndSRModule, meta : Blocks]
SRModuleOperatorListResponse == [data : OperatorListAndSRModule, meta : Blocks]

SRModuleOperatorResponse ==
    [data : [operator : OperatorDto, module : ModuleDto], meta : Blocks]

SRModuleOperatorsKeysResponse ==
    [data : [operators : SUBSET OperatorDto, keys : SUBSET KeyDto, module : ModuleDto],
     meta : Blocks]

SRModulesOperatorsKeysStreamResponse ==
    [data : SUBSET [stakingModule : ModuleDto \cup {Null}, key : KeyDto \cup {Null},
                    operator : OperatorDto \cup {Null}, meta : Blocks \cup {Null}]]

(* null is no row. *)
ASSUME NullAssumption == Null \notin KeyDto \cup OperatorDto \cup ModuleDto

-----------------------------------------------------------------------------
(* Properties. *)

Whole(r) == r.status = 200 /\ r.whole

OneModule == {"module", "moduleKeys", "findModuleKeys", "moduleOperators",
              "moduleOperator", "operatorsKeys"}

Served(endpoints) == request.endpoint \in endpoints /\ Whole(reply)

(* Every whole reply is of the type its decorators document: rows of the    *)
(* tables with checksummed addresses, in the shape of that endpoint, with   *)
(* the block (Key, Operator, StakingModuleResponse, the *.response.ts).     *)
TypeOK ==
    /\ db \in Snapshots \cup {EmptyDb}
    /\ strict \in BOOLEAN
    /\ Served({"keys", "pubkey", "findKeys"}) => reply.body \in KeyListResponse
    /\ Served({"modules"}) => reply.body \in SRModuleListResponse
    /\ Served({"module"}) => reply.body \in SRModuleResponse
    /\ Served({"grouped"}) => reply.body \in GroupedByModuleKeyListResponse
    /\ Served({"moduleKeys", "findModuleKeys"}) => reply.body \in SRModuleKeyListResponse
    /\ Served({"operators"}) => reply.body \in GroupedByModuleOperatorListResponse
    /\ Served({"moduleOperators"}) => reply.body \in SRModuleOperatorListResponse
    /\ Served({"moduleOperator"}) => reply.body \in SRModuleOperatorResponse
    /\ Served({"operatorsKeys"}) => reply.body \in SRModuleOperatorsKeysResponse
    /\ Served({"v2"}) => reply.body \in SRModulesOperatorsKeysStreamResponse

(* Before the first commit nothing is served whole: an endpoint refuses or, *)
(* if its reply had begun, cuts it; an endpoint of one module never says    *)
(* 425 though it documents it, since no module is found first.  After the   *)
(* first commit nobody is told to come later (getStakingModulesAndMeta,     *)
(* getStakingModuleAndMeta).                                                *)
EmptyServesNothing ==
    IF db.block = NoBlock
    THEN ~Whole(reply) /\ (reply.status = 425 => request.endpoint \notin OneModule)
    ELSE reply.status # 425

(* Who trusts the documentation of the API meets no surprise: a refusal is  *)
(* one the handler's decorators declare, 400 for a request that was refused *)
(* before the handler, or 500 for a number the database would not take.     *)
RefusalsAreDeclared ==
    request # NoRequest =>
        \/ reply.status \in {200, 400} \cup request.declared
        \/ reply.status = 500 /\ strict

Quiet == request = NoRequest /\ db.block # NoBlock

Filters == {f \in {KeysFilter(u, n) : u \in UsedInputs, n \in NumberInputs} : BadRequest \notin Parsed(f)}

InColumn(f) == ~BeyondColumn(f.operatorIndex)

(* The same rows come out of every endpoint that shows them, whether it     *)
(* reads them by `find` (modules/keys, operators) or as a stream (keys,     *)
(* modules/:id/keys, modules/:id/operators/keys, v2), for every filter; and *)
(* unless the filter's number fits no column they do come.                  *)
RowsAgree ==
    Quiet =>
      /\ \A f \in Filters :
           LET keys    == GetKeys(db, Absent, f)
               grouped == GetGroupedByModuleKeys(db, f)
           IN  /\ InColumn(f) => Whole(keys) /\ Whole(grouped)
               /\ Whole(keys) /\ Whole(grouped) =>
                    /\ keys.body.data = UNION {g.keys : g \in grouped.body.data}
                    /\ \A g \in grouped.body.data :
                         /\ GetModuleKeys(db, ById(g.module.id), f).body.data = g
                         /\ GetOperatorsKeys(db, ById(g.module.id), f).body.data.keys = g.keys
      /\ \A g \in GetAllOperators(db).body.data :
           /\ GetModule(db, ById(g.module.id)).body.data = g.module
           /\ GetOperatorsByModule(db, ById(g.module.id)).body.data = g
           /\ GetOperatorsKeys(db, ById(g.module.id), NoFilter).body.data.operators = g.operators
           /\ \A o \in g.operators :
                GetModuleOperator(db, ById(g.module.id), o.index).body.data =
                  [operator |-> o, module |-> g.module]
      /\ LET records == ModulesOperatorsKeys(db).body.data
             Sent(field) == {r[field] : r \in records} \ {Null}
         IN  /\ Sent("key") = GetKeys(db, Absent, NoFilter).body.data
             /\ Sent("stakingModule") = GetModules(db).body.data
             /\ Sent("operator") = UNION {g.operators : g \in GetAllOperators(db).body.data}
             /\ Sent("meta") = IF db.modules = {} THEN {} ELSE {db.block}

(* The filters split what there is: used and unused keys are all keys and   *)
(* no key twice, also where `false` or index 0 could be taken for "no       *)
(* filter"; the keys of the operators are the keys (getKeysStream; by       *)
(* ReadsAgree also getKeys).                                                *)
FiltersSplit ==
    Quiet =>
      LET Of(u, i) == GetKeys(db, Absent, [used |-> u, operatorIndex |-> i]).body.data
          Indices  == {o.index : o \in db.operators}
      IN  /\ \A i \in Indices \cup {Absent} :
               /\ Of(TRUE, i) \cap Of(FALSE, i) = {}
               /\ Of(TRUE, i) \cup Of(FALSE, i) = Of(Absent, i)
          /\ \A u \in {TRUE, FALSE, Absent} :
               /\ UNION {Of(u, i) : i \in Indices} = Of(u, Absent)
               /\ \A i, j \in Indices : i # j => Of(u, i) \cap Of(u, j) = {}

(* A client that counts gets what the operators say: in the operators and   *)
(* keys of a module, whatever the filter, every key has its operator in the *)
(* same reply and every operator as many keys as its totalSigningKeys and   *)
(* usedSigningKeys promise (SRModulesOperatorsKeysService.get filters       *)
(* operators by index and keys by operatorIndex).                           *)
CountsAreKept ==
    Quiet =>
      \A m \in db.modules, f \in Filters :
        LET answer == GetOperatorsKeys(db, ById(m.moduleId), f)
            data   == answer.body.data
            Count(o) == Cardinality({k \in data.keys : k.operatorIndex = o.index})
        IN  Whole(answer) =>
              /\ \A k \in data.keys : \E o \in data.operators : o.index = k.operatorIndex
              /\ \A o \in data.operators :
                   Count(o) = IF f.used = Absent THEN o.totalSigningKeys
                              ELSE IF f.used THEN o.usedSigningKeys
                              ELSE o.totalSigningKeys - o.usedSigningKeys

(* However a client writes a module's address, it gets that module's reply  *)
(* or none: a checksummed, upper-case or padded address is the same request *)
(* as the id, an address ethers takes but the table does not hold as such   *)
(* (bare, ICAP) is not found, the rest is refused (ModuleIdPipe).           *)
ModuleNamedAnyhow ==
    Quiet =>
      \A m \in db.modules, t \in ModuleIdTexts :
        LET a      == m.stakingModuleAddress.address
            Same   == {"plain", "checksum", "upper", "spaced"}
            answer == GetOperatorsKeys(db, ModuleIdPipe(t), NoFilter)
        IN  /\ IsAddressText(t) /\ t.address = a =>
                 IF t.form \in Same
                 THEN answer = GetOperatorsKeys(db, ById(m.moduleId), NoFilter)
                 ELSE answer.status = IF t.form \in {"bare", "icap"} THEN 404 ELSE 400
            /\ Whole(answer) /\ answer.body.data.module = StakingModuleResponse(m) =>
                 IF IsAddressText(t) THEN t.address = a ELSE t.value = m.moduleId

(* Lookups by pubkey agree: what GET /v1/keys/:pubkey finds, in any case of *)
(* its letters, or finds nothing and says 404, is what POST /v1/keys/find   *)
(* finds for the list of it in lower case; a longer list finds the union,   *)
(* and the modules' own lists split it (getKeysByPubkey, getKeysByPubKeys). *)
LookupsAgree ==
    Quiet =>
      /\ \A t \in PubkeyInputs : IsPubkey(t) =>
           LET one  == GetByPubkey(db, Pubkey(t))
               list == GetByPubkeys(db, KeysFindBody({toLocaleLowerCase(t)}))
           IN  /\ Whole(list)
               /\ IF list.body.data = {} THEN one.status = 404
                  ELSE one.status = 200 /\ one.body.data = list.body.data
      /\ \A texts \in PubkeysInputs : KeysFindBody(texts) # BadRequest =>
           LET found     == GetByPubkeys(db, texts).body.data
               Module(m) == GetModuleKeysByPubKeys(db, ById(m.moduleId), texts).body.data.keys
           IN  /\ found = UNION {GetByPubkeys(db, {t}).body.data : t \in texts}
               /\ found = UNION {Module(m) : m \in db.modules}
               /\ \A m, n \in db.modules : m # n => Module(m) \cap Module(n) = {}

(* Whatever endpoint is asked, the answer is the same: rows, the counts a   *)
(* client takes from them, and lookups by pubkey.                           *)
ReadsAgree == RowsAgree /\ CountsAreKept /\ LookupsAgree

=============================================================================
