---------------------------- MODULE RestApiProofs ----------------------------
(****************************************************************************)
(* RestApi for every set of addresses, pubkeys and snapshots and for every  *)
(* input: the replies' types, the refusals, what is served before the first *)
(* commit, how modules are named, what the filters select, and that all     *)
(* endpoints show the same rows and counts.                                 *)
(****************************************************************************)
EXTENDS RestApi, FiniteSetTheorems, TLAPS

Dbs == Snapshots \cup {EmptyDb}

(* What is true of one answer r of an endpoint at the database d. *)
Fits(d, r, endpoint, declared) ==
    /\ \/ r.status \in {200, 400} \cup declared
       \/ r.status = 500 /\ strict
    /\ IF d.block = NoBlock
       THEN ~Whole(r) /\ (r.status = 425 => endpoint \notin OneModule)
       ELSE r.status # 425

Answered(d, r, endpoint, declared, body) ==
    Fits(d, r, endpoint, declared) /\ (Whole(r) => r.body \in body)

(* The refusals documented by the endpoints of all modules and of one. *)
AllDeclared == {425}
OneDeclared == {404, 425}

LEMMA DbFacts ==
    ASSUME NEW d \in Dbs
    PROVE  /\ d \in Databases
           /\ d.block = NoBlock \/ d.block \in Blocks
           /\ d.block = NoBlock => d = EmptyDb
           /\ NoBlock \notin Blocks
BY RestApiAssumption DEF RestApiAssumption, Dbs, Databases, EmptyDb

(* The constructors of the entities give values of the documented types.    *)
LEMMA EntitiesFit ==
    ASSUME NEW d \in Dbs
    PROVE  /\ \A k \in d.keys : Key(k) \in KeyDto
           /\ \A o \in d.operators : Operator(o) \in OperatorDto
           /\ \A m \in d.modules : StakingModuleResponse(m) \in ModuleDto
PROOF
<1>1. d \in Databases BY DbFacts
<1>2. \A a \in StoredAddresses : Checksum(a) \in ChecksumAddresses
  BY DEF StoredAddresses, ChecksumAddresses, Checksum, Plain
<1>3. ASSUME NEW k \in d.keys PROVE Key(k) \in KeyDto
  <2>1. k \in RegistryKey BY <1>1 DEF Databases
  <2>2. Checksum(k.moduleAddress) \in ChecksumAddresses BY <1>2, <2>1 DEF RegistryKey
  <2> QED BY <2>1, <2>2 DEF Key, KeyDto, RegistryKey, addressToChecksum
<1>4. ASSUME NEW o \in d.operators PROVE Operator(o) \in OperatorDto
  <2>1. o \in RegistryOperator BY <1>1 DEF Databases
  <2>2. Checksum(o.moduleAddress) \in ChecksumAddresses
    BY <1>2, <2>1 DEF RegistryOperator
  <2> QED BY <2>1, <2>2 DEF Operator, OperatorDto, RegistryOperator, addressToChecksum
<1>5. ASSUME NEW m \in d.modules PROVE StakingModuleResponse(m) \in ModuleDto
  <2>1. m \in SrModuleEntity BY <1>1 DEF Databases
  <2>2. Checksum(m.stakingModuleAddress) \in ChecksumAddresses
    BY <1>2, <2>1 DEF SrModuleEntity
  <2> QED BY <2>1, <2>2
    DEF StakingModuleResponse, ModuleDto, SrModuleEntity, addressToChecksum
<1> QED BY <1>3, <1>4, <1>5

(* What the queries find are rows of their tables. *)
LEMMA RowsFit ==
    ASSUME NEW d \in Dbs, NEW a, NEW f, NEW t, NEW index
    PROVE  /\ Keys(getKeys(d, a, f)) \subseteq KeyDto
           /\ Keys(getKeysStream(d, a, f)) \subseteq KeyDto
           /\ Keys(getKeysByPubKeys(d, a, t)) \subseteq KeyDto
           /\ Keys(getKeysByPubkey(d, a, t)) \subseteq KeyDto
           /\ Operators(getOperators(d, a, index)) \subseteq OperatorDto
           /\ Operators(getOperatorsStream(d, a)) \subseteq OperatorDto
           /\ Operators(getOperator(d, a, index)) \subseteq OperatorDto
           /\ getStakingModules(d, t) \subseteq d.modules
BY EntitiesFit DEF Keys, Operators, getKeys, getKeysStream, getKeysByPubKeys,
   getKeysByPubkey, getOperators, getOperatorsStream, getOperator, KeysOf,
   getStakingModules

(* What the refusals leave: a filled database and, if one was asked, the    *)
(* module.                                                                  *)
LEMMA NotRefused ==
    ASSUME NEW d \in Dbs, NEW inputs
    PROVE  /\ RefuseAll(d, inputs) \in {0, 400, 425}
           /\ RefuseAll(d, inputs) = 0 => d.block \in Blocks
           /\ RefuseAll(d, inputs) = 425 => d.block = NoBlock
BY DbFacts DEF RefuseAll, httpExceptionTooEarlyResp

LEMMA NotRefusedOne ==
    ASSUME NEW d \in Dbs, NEW id, NEW inputs
    PROVE  /\ \/ RefuseOne(d, id, inputs) \in {0, 400, 404}
              \/ RefuseOne(d, id, inputs) = 500 /\ strict
           /\ RefuseOne(d, id, inputs) = 0 =>
                /\ d.block \in Blocks
                /\ TheModule(d, id) \in getStakingModule(d, id)
                /\ TheModule(d, id) \in d.modules
                /\ StakingModuleResponse(TheModule(d, id)) \in ModuleDto
PROOF
<1>1. d.block = NoBlock => getStakingModule(d, id) = {}
  BY DbFacts DEF getStakingModule, EmptyDb
<1>2. /\ \/ RefuseOne(d, id, inputs) \in {0, 400, 404}
         \/ RefuseOne(d, id, inputs) = 500 /\ strict
      /\ RefuseOne(d, id, inputs) = 0 =>
           d.block # NoBlock /\ getStakingModule(d, id) # {}
  BY <1>1 DEF RefuseOne, FindFails, httpExceptionTooEarlyResp
<1>3. getStakingModule(d, id) # {} =>
        TheModule(d, id) \in getStakingModule(d, id) /\ TheModule(d, id) \in d.modules
  BY DEF TheModule, getStakingModule
<1> QED BY <1>2, <1>3, DbFacts, EntitiesFit

(* An answer behind the refusals of the endpoints of all modules, or of one.*)
LEMMA AllFit ==
    ASSUME NEW d \in Dbs, NEW inputs, NEW answer, NEW endpoint, NEW declared, NEW body,
           425 \in declared, endpoint \notin OneModule,
           RefuseAll(d, inputs) = 0 => Answered(d, answer, endpoint, declared, body)
    PROVE  Answered(d, Unless(RefuseAll(d, inputs), answer), endpoint, declared, body)
BY NotRefused, DbFacts DEF Answered, Fits, Unless, Refuse, Whole

LEMMA OneFits ==
    ASSUME NEW d \in Dbs, NEW id, NEW inputs, NEW answer, NEW endpoint, NEW body,
           RefuseOne(d, id, inputs) = 0 =>
             Answered(d, answer, endpoint, OneDeclared, body)
    PROVE  Answered(d, Unless(RefuseOne(d, id, inputs), answer), endpoint, OneDeclared, body)
BY NotRefusedOne, DbFacts DEF Answered, Fits, Unless, Refuse, Whole, OneDeclared

(* Answers at a filled database. *)
LEMMA OkFits ==
    ASSUME NEW d \in Dbs, d.block \in Blocks, NEW endpoint, NEW declared, NEW body,
           NEW content \in body
    PROVE  Answered(d, Ok(content), endpoint, declared, body)
BY DbFacts DEF Answered, Fits, Ok, Whole

LEMMA CutFits ==
    ASSUME NEW d \in Dbs, d.block \in Blocks, NEW endpoint, NEW declared, NEW body
    PROVE  Answered(d, Cut, endpoint, declared, body)
BY DbFacts DEF Answered, Fits, Cut, Whole

LEMMA NotFoundFits ==
    ASSUME NEW d \in Dbs, d.block \in Blocks, NEW endpoint, NEW declared, NEW body,
           404 \in declared
    PROVE  Answered(d, Refuse(404), endpoint, declared, body)
BY DbFacts DEF Answered, Fits, Refuse, Whole

LEMMA ErrorFits ==
    ASSUME NEW d \in Dbs, d.block \in Blocks, NEW endpoint, NEW declared, NEW body,
           strict
    PROVE  Answered(d, Refuse(500), endpoint, declared, body)
BY DbFacts DEF Answered, Fits, Refuse, Whole

(* The endpoints of all modules. *)
LEMMA NotOneModule ==
    /\ 425 \in AllDeclared /\ 425 \in OneDeclared /\ 404 \in OneDeclared
    /\ \A endpoint \in {"modules", "keys", "pubkey", "findKeys", "grouped", "operators", "v2"} :
         endpoint \notin OneModule
BY DEF OneModule, AllDeclared, OneDeclared

-----------------------------------------------------------------------------
(* The answer of every endpoint. *)

LEMMA GetModulesFits ==
    ASSUME NEW d \in Dbs
    PROVE  Answered(d, GetModules(d), "modules", AllDeclared, SRModuleListResponse)
PROOF
<1> DEFINE content == [data |-> {StakingModuleResponse(m) : m \in getStakingModules(d, Absent)},
                       elBlockSnapshot |-> ELBlockSnapshot(d)]
<1>1. d.block \in Blocks => content \in SRModuleListResponse
  BY RowsFit, EntitiesFit DEF SRModuleListResponse, ELBlockSnapshot
<1> HIDE DEF content
<1>2. RefuseAll(d, {}) = 0 => Answered(d, Ok(content), "modules", AllDeclared, SRModuleListResponse)
  BY <1>1, OkFits, NotRefused
<1>3. Answered(d, Unless(RefuseAll(d, {}), Ok(content)), "modules", AllDeclared,
               SRModuleListResponse)
  BY <1>2, AllFit, NotOneModule
<1> QED BY <1>3 DEF GetModules, content

LEMMA GetModuleFits ==
    ASSUME NEW d \in Dbs, NEW id
    PROVE  Answered(d, GetModule(d, id), "module", OneDeclared, SRModuleResponse)
PROOF
<1> DEFINE content == [data |-> StakingModuleResponse(TheModule(d, id)),
                       elBlockSnapshot |-> ELBlockSnapshot(d)]
<1>1. RefuseOne(d, id, {}) = 0 => content \in SRModuleResponse
  BY NotRefusedOne DEF SRModuleResponse, ELBlockSnapshot
<1> HIDE DEF content
<1>2. RefuseOne(d, id, {}) = 0 =>
        Answered(d, Ok(content), "module", OneDeclared, SRModuleResponse)
  BY <1>1, OkFits, NotRefusedOne
<1>3. Answered(d, Unless(RefuseOne(d, id, {}), Ok(content)), "module", OneDeclared,
               SRModuleResponse)
  BY <1>2, OneFits
<1> QED BY <1>3 DEF GetModule, content

LEMMA GetKeysFits ==
    ASSUME NEW d \in Dbs, NEW addresses, NEW f
    PROVE  Answered(d, GetKeys(d, addresses, f), "keys", AllDeclared, KeyListResponse)
PROOF
<1> DEFINE modules == getStakingModules(d, addresses)
           inputs  == {addresses, f.used, f.operatorIndex}
           content == [data |-> UNION {Keys(getKeysStream(d, m.stakingModuleAddress, f)) :
                                         m \in modules},
                       meta |-> ELBlockSnapshot(d)]
           answer  == IF modules # {} /\ StreamFails(f.operatorIndex) THEN Cut
                      ELSE Ok(content)
<1>1. ASSUME d.block \in Blocks PROVE content \in KeyListResponse
  <2>1. \A a : Keys(getKeysStream(d, a, f)) \in SUBSET KeyDto BY RowsFit
  <2>2. content.data \subseteq KeyDto BY <2>1
  <2> QED BY <1>1, <2>2 DEF KeyListResponse, ELBlockSnapshot
<1>2. answer \in {Cut, Ok(content)} OBVIOUS
<1> HIDE DEF content, answer, inputs
<1>3. RefuseAll(d, inputs) = 0 => Answered(d, answer, "keys", AllDeclared, KeyListResponse)
  BY <1>1, <1>2, OkFits, CutFits, NotRefused
<1>4. Answered(d, Unless(RefuseAll(d, inputs), answer), "keys", AllDeclared, KeyListResponse)
  BY <1>3, AllFit, NotOneModule
<1> QED BY <1>4 DEF GetKeys, inputs, content, answer

LEMMA GetByPubkeyFits ==
    ASSUME NEW d \in Dbs, NEW pubkey
    PROVE  Answered(d, GetByPubkey(d, pubkey), "pubkey", OneDeclared, KeyListResponse)
PROOF
<1> DEFINE inputs  == {pubkey}
           found   == UNION {Keys(getKeysByPubkey(d, m.stakingModuleAddress, pubkey)) :
                               m \in getStakingModules(d, Absent)}
           content == [data |-> found, meta |-> ELBlockSnapshot(d)]
           answer  == IF found = {} THEN Refuse(404) ELSE Ok(content)
<1>1. RefuseAll(d, inputs) = 0 => d.block \in Blocks BY NotRefused
<1>2. ASSUME RefuseAll(d, inputs) = 0 PROVE content \in KeyListResponse
  <2>1. \A a : Keys(getKeysByPubkey(d, a, pubkey)) \subseteq KeyDto BY RowsFit
  <2>2. found \subseteq KeyDto BY <2>1
  <2> QED BY <1>1, <1>2, <2>2 DEF KeyListResponse, ELBlockSnapshot
<1>3. answer \in {Refuse(404), Ok(content)}
  OBVIOUS
<1> HIDE DEF content, answer, inputs
<1>4. RefuseAll(d, inputs) = 0 => Answered(d, answer, "pubkey", OneDeclared, KeyListResponse)
  BY <1>1, <1>2, <1>3, OkFits, NotFoundFits, NotOneModule
<1>5. Answered(d, Unless(RefuseAll(d, inputs), answer), "pubkey", OneDeclared,
               KeyListResponse)
  BY <1>4, AllFit, NotOneModule
<1> QED BY <1>5 DEF GetByPubkey, inputs, content, answer

LEMMA GetByPubkeysFits ==
    ASSUME NEW d \in Dbs, NEW pubKeys
    PROVE  Answered(d, GetByPubkeys(d, pubKeys), "findKeys", AllDeclared, KeyListResponse)
PROOF
<1> DEFINE inputs  == {pubKeys}
           content == [data |-> UNION {Keys(getKeysByPubKeys(d, m.stakingModuleAddress, pubKeys)) :
                                         m \in getStakingModules(d, Absent)},
                       meta |-> ELBlockSnapshot(d)]
           answer  == Ok(content)
<1>1. RefuseAll(d, inputs) = 0 => d.block \in Blocks BY NotRefused
<1>2. ASSUME RefuseAll(d, inputs) = 0 PROVE content \in KeyListResponse
  <2>1. \A a : Keys(getKeysByPubKeys(d, a, pubKeys)) \subseteq KeyDto BY RowsFit
  <2>2. content.data \subseteq KeyDto BY <2>1
  <2> QED BY <1>1, <1>2, <2>2 DEF KeyListResponse, ELBlockSnapshot
<1>3. answer = Ok(content)
  OBVIOUS
<1> HIDE DEF content, answer, inputs
<1>4. RefuseAll(d, inputs) = 0 => Answered(d, answer, "findKeys", AllDeclared, KeyListResponse)
  BY <1>1, <1>2, <1>3, OkFits
<1>5. Answered(d, Unless(RefuseAll(d, inputs), answer), "findKeys", AllDeclared,
               KeyListResponse)
  BY <1>4, AllFit, NotOneModule
<1> QED BY <1>5 DEF GetByPubkeys, inputs, content, answer

LEMMA GroupedFits ==
    ASSUME NEW d \in Dbs, NEW f
    PROVE  Answered(d, GetGroupedByModuleKeys(d, f), "grouped", AllDeclared, GroupedByModuleKeyListResponse)
PROOF
<1> DEFINE inputs  == Parsed(f)
           content == [data |-> {[keys   |-> Keys(getKeys(d, m.stakingModuleAddress, f)),
                                   module |-> StakingModuleResponse(m)] :
                                    m \in getStakingModules(d, Absent)},
                       meta |-> ELBlockSnapshot(d)]
           answer  == IF getStakingModules(d, Absent) # {} /\ FindFails(f.operatorIndex)
                      THEN Refuse(500) ELSE Ok(content)
<1>1. RefuseAll(d, inputs) = 0 => d.block \in Blocks BY NotRefused
<1>2. ASSUME RefuseAll(d, inputs) = 0 PROVE content \in GroupedByModuleKeyListResponse
  <2>1. \A a : Keys(getKeys(d, a, f)) \subseteq KeyDto BY RowsFit
  <2>2. \A m \in getStakingModules(d, Absent) : StakingModuleResponse(m) \in ModuleDto
    BY RowsFit, EntitiesFit
  <2>3. content.data \subseteq KeyListWithModule BY <2>1, <2>2 DEF KeyListWithModule
  <2> QED BY <1>1, <1>2, <2>3 DEF GroupedByModuleKeyListResponse, ELBlockSnapshot
<1>3. answer = Ok(content) \/ (answer = Refuse(500) /\ strict)
  BY DEF FindFails
<1> HIDE DEF content, answer, inputs
<1>4. RefuseAll(d, inputs) = 0 => Answered(d, answer, "grouped", AllDeclared, GroupedByModuleKeyListResponse)
  BY <1>1, <1>2, <1>3, OkFits, ErrorFits
<1>5. Answered(d, Unless(RefuseAll(d, inputs), answer), "grouped", AllDeclared,
               GroupedByModuleKeyListResponse)
  BY <1>4, AllFit, NotOneModule
<1> QED BY <1>5 DEF GetGroupedByModuleKeys, inputs, content, answer

LEMMA GetModuleKeysFits ==
    ASSUME NEW d \in Dbs, NEW id, NEW f
    PROVE  Answered(d, GetModuleKeys(d, id, f), "moduleKeys", OneDeclared, SRModuleKeyListResponse)
PROOF
<1> DEFINE inputs  == Parsed(f)
           content == [data |-> [keys   |-> Keys(getKeysStream(d, AddressOf(d, id), f)),
                                 module |-> StakingModuleResponse(TheModule(d, id))],
                       meta |-> ELBlockSnapshot(d)]
           answer  == IF StreamFails(f.operatorIndex) THEN Cut ELSE Ok(content)
<1>1. RefuseOne(d, id, inputs) = 0 => d.block \in Blocks BY NotRefusedOne
<1>2. ASSUME RefuseOne(d, id, inputs) = 0 PROVE content \in SRModuleKeyListResponse
  <2>1. Keys(getKeysStream(d, AddressOf(d, id), f)) \subseteq KeyDto BY RowsFit
  <2> QED BY <1>1, <1>2, <2>1, NotRefusedOne
    DEF SRModuleKeyListResponse, KeyListWithModule, ELBlockSnapshot
<1>3. answer \in {Cut, Ok(content)}
  OBVIOUS
<1> HIDE DEF content, answer, inputs
<1>4. RefuseOne(d, id, inputs) = 0 => Answered(d, answer, "moduleKeys", OneDeclared, SRModuleKeyListResponse)
  BY <1>1, <1>2, <1>3, OkFits, CutFits
<1>5. Answered(d, Unless(RefuseOne(d, id, inputs), answer), "moduleKeys", OneDeclared,
               SRModuleKeyListResponse)
  BY <1>4, OneFits
<1> QED BY <1>5 DEF GetModuleKeys, inputs, content, answer

LEMMA GetModuleKeysByPubKeysFits ==
    ASSUME NEW d \in Dbs, NEW id, NEW pubKeys
    PROVE  Answered(d, GetModuleKeysByPubKeys(d, id, pubKeys), "findModuleKeys", OneDeclared, SRModuleKeyListResponse)
PROOF
<1> DEFINE inputs  == {pubKeys}
           content == [data |-> [keys   |-> Keys(getKeysByPubKeys(d, AddressOf(d, id), pubKeys)),
                                 module |-> StakingModuleResponse(TheModule(d, id))],
                       meta |-> ELBlockSnapshot(d)]
           answer  == Ok(content)
<1>1. RefuseOne(d, id, inputs) = 0 => d.block \in Blocks BY NotRefusedOne
<1>2. ASSUME RefuseOne(d, id, inputs) = 0 PROVE content \in SRModuleKeyListResponse
  <2>1. Keys(getKeysByPubKeys(d, AddressOf(d, id), pubKeys)) \subseteq KeyDto BY RowsFit
  <2> QED BY <1>1, <1>2, <2>1, NotRefusedOne
    DEF SRModuleKeyListResponse, KeyListWithModule, ELBlockSnapshot
<1>3. answer = Ok(content)
  OBVIOUS
<1> HIDE DEF content, answer, inputs
<1>4. RefuseOne(d, id, inputs) = 0 => Answered(d, answer, "findModuleKeys", OneDeclared, SRModuleKeyListResponse)
  BY <1>1, <1>2, <1>3, OkFits
<1>5. Answered(d, Unless(RefuseOne(d, id, inputs), answer), "findModuleKeys", OneDeclared,
               SRModuleKeyListResponse)
  BY <1>4, OneFits
<1> QED BY <1>5 DEF GetModuleKeysByPubKeys, inputs, content, answer

LEMMA GetAllOperatorsFits ==
    ASSUME NEW d \in Dbs
    PROVE  Answered(d, GetAllOperators(d), "operators", AllDeclared, GroupedByModuleOperatorListResponse)
PROOF
<1> DEFINE inputs  == {}
           content == [data |-> {[operators |-> Operators(getOperators(d, m.stakingModuleAddress,
                                                                   Absent)),
                                   module    |-> StakingModuleResponse(m)] :
                                    m \in getStakingModules(d, Absent)},
                       meta |-> ELBlockSnapshot(d)]
           answer  == Ok(content)
<1>1. RefuseAll(d, inputs) = 0 => d.block \in Blocks BY NotRefused
<1>2. ASSUME RefuseAll(d, inputs) = 0 PROVE content \in GroupedByModuleOperatorListResponse
  <2>1. \A a : Operators(getOperators(d, a, Absent)) \subseteq OperatorDto BY RowsFit
  <2>2. \A m \in getStakingModules(d, Absent) : StakingModuleResponse(m) \in ModuleDto
    BY RowsFit, EntitiesFit
  <2>3. content.data \subseteq OperatorListAndSRModule
    BY <2>1, <2>2 DEF OperatorListAndSRModule
  <2> QED BY <1>1, <1>2, <2>3 DEF GroupedByModuleOperatorListResponse, ELBlockSnapshot
<1>3. answer = Ok(content)
  OBVIOUS
<1> HIDE DEF content, answer, inputs
<1>4. RefuseAll(d, inputs) = 0 => Answered(d, answer, "operators", AllDeclared, GroupedByModuleOperatorListResponse)
  BY <1>1, <1>2, <1>3, OkFits
<1>5. Answered(d, Unless(RefuseAll(d, inputs), answer), "operators", AllDeclared,
               GroupedByModuleOperatorListResponse)
  BY <1>4, AllFit, NotOneModule
<1> QED BY <1>5 DEF GetAllOperators, inputs, content, answer

LEMMA GetOperatorsByModuleFits ==
    ASSUME NEW d \in Dbs, NEW id
    PROVE  Answered(d, GetOperatorsByModule(d, id), "moduleOperators", OneDeclared, SRModuleOperatorListResponse)
PROOF
<1> DEFINE inputs  == {}
           content == [data |-> [operators |-> Operators(getOperators(d, AddressOf(d, id), Absent)),
                                 module    |-> StakingModuleResponse(TheModule(d, id))],
                       meta |-> ELBlockSnapshot(d)]
           answer  == Ok(content)
<1>1. RefuseOne(d, id, inputs) = 0 => d.block \in Blocks BY NotRefusedOne
<1>2. ASSUME RefuseOne(d, id, inputs) = 0 PROVE content \in SRModuleOperatorListResponse
  <2>1. Operators(getOperators(d, AddressOf(d, id), Absent)) \subseteq OperatorDto BY RowsFit
  <2> QED BY <1>1, <1>2, <2>1, NotRefusedOne
    DEF SRModuleOperatorListResponse, OperatorListAndSRModule, ELBlockSnapshot
<1>3. answer = Ok(content)
  OBVIOUS
<1> HIDE DEF content, answer, inputs
<1>4. RefuseOne(d, id, inputs) = 0 => Answered(d, answer, "moduleOperators", OneDeclared, SRModuleOperatorListResponse)
  BY <1>1, <1>2, <1>3, OkFits
<1>5. Answered(d, Unless(RefuseOne(d, id, inputs), answer), "moduleOperators", OneDeclared,
               SRModuleOperatorListResponse)
  BY <1>4, OneFits
<1> QED BY <1>5 DEF GetOperatorsByModule, inputs, content, answer

LEMMA GetOperatorsKeysFits ==
    ASSUME NEW d \in Dbs, NEW id, NEW f
    PROVE  Answered(d, GetOperatorsKeys(d, id, f), "operatorsKeys", OneDeclared, SRModuleOperatorsKeysResponse)
PROOF
<1> DEFINE inputs  == Parsed(f)
           content == [data |-> [operators |-> Operators(getOperators(d, AddressOf(d, id),
                                                                      f.operatorIndex)),
                                 keys      |-> Keys(getKeysStream(d, AddressOf(d, id), f)),
                                 module    |-> StakingModuleResponse(TheModule(d, id))],
                       meta |-> ELBlockSnapshot(d)]
           answer  == IF FindFails(f.operatorIndex) THEN Refuse(500)
                      ELSE IF StreamFails(f.operatorIndex) THEN Cut ELSE Ok(content)
<1>1. RefuseOne(d, id, inputs) = 0 => d.block \in Blocks BY NotRefusedOne
<1>2. ASSUME RefuseOne(d, id, inputs) = 0 PROVE content \in SRModuleOperatorsKeysResponse
  <2>1. Keys(getKeysStream(d, AddressOf(d, id), f)) \subseteq KeyDto BY RowsFit
  <2>2. Operators(getOperators(d, AddressOf(d, id), f.operatorIndex)) \subseteq OperatorDto
    BY RowsFit
  <2> QED BY <1>1, <1>2, <2>1, <2>2, NotRefusedOne
    DEF SRModuleOperatorsKeysResponse, ELBlockSnapshot
<1>3. answer \in {Cut, Ok(content)} \/ (answer = Refuse(500) /\ strict)
  BY DEF FindFails
<1> HIDE DEF content, answer, inputs
<1>4. RefuseOne(d, id, inputs) = 0 => Answered(d, answer, "operatorsKeys", OneDeclared, SRModuleOperatorsKeysResponse)
  BY <1>1, <1>2, <1>3, OkFits, CutFits, ErrorFits
<1>5. Answered(d, Unless(RefuseOne(d, id, inputs), answer), "operatorsKeys", OneDeclared,
               SRModuleOperatorsKeysResponse)
  BY <1>4, OneFits
<1> QED BY <1>5 DEF GetOperatorsKeys, inputs, content, answer

LEMMA GetModuleOperatorFits ==
    ASSUME NEW d \in Dbs, NEW id, NEW index
    PROVE  Answered(d, GetModuleOperator(d, id, index), "moduleOperator", OneDeclared, SRModuleOperatorResponse)
PROOF
<1> DEFINE inputs  == {index}
           found   == getOperator(d, AddressOf(d, id), index)
           content == [data |-> [operator |-> Operator(CHOOSE o \in found : TRUE),
                                 module   |-> StakingModuleResponse(TheModule(d, id))],
                       meta |-> ELBlockSnapshot(d)]
           answer  == IF FindFails(index) THEN Refuse(500)
                      ELSE IF found = {} THEN Refuse(404) ELSE Ok(content)
<1>1. RefuseOne(d, id, inputs) = 0 => d.block \in Blocks BY NotRefusedOne
<1>2. ASSUME RefuseOne(d, id, inputs) = 0, found # {}
      PROVE  content \in SRModuleOperatorResponse
  <2>1. Operators(found) \subseteq OperatorDto BY RowsFit
  <2>2. (CHOOSE o \in found : TRUE) \in found BY <1>2
  <2>3. Operator(CHOOSE o \in found : TRUE) \in OperatorDto BY <2>1, <2>2 DEF Operators
  <2> QED BY <1>1, <1>2, <2>3, NotRefusedOne DEF SRModuleOperatorResponse, ELBlockSnapshot
<1>3. \/ answer = Ok(content) /\ found # {}
      \/ answer = Refuse(404)
      \/ answer = Refuse(500) /\ strict
  BY DEF FindFails
<1> HIDE DEF content, answer, inputs
<1>4. RefuseOne(d, id, inputs) = 0 => Answered(d, answer, "moduleOperator", OneDeclared, SRModuleOperatorResponse)
  BY <1>1, <1>2, <1>3, OkFits, NotFoundFits, ErrorFits, NotOneModule
<1>5. Answered(d, Unless(RefuseOne(d, id, inputs), answer), "moduleOperator", OneDeclared,
               SRModuleOperatorResponse)
  BY <1>4, OneFits
<1> QED BY <1>5 DEF GetModuleOperator, inputs, content, answer

LEMMA StreamFits ==
    ASSUME NEW d \in Dbs
    PROVE  Answered(d, ModulesOperatorsKeys(d), "v2", AllDeclared,
                    SRModulesOperatorsKeysStreamResponse)
PROOF
<1> DEFINE modules == getStakingModules(d, Absent)
           first   == CHOOSE m \in modules : TRUE
           Rows(m) ==
             {[StreamRecord("stakingModule", StakingModuleResponse(m)) EXCEPT
                 !.meta = IF m = first THEN ELBlockSnapshot(d) ELSE Null]}
             \cup {StreamRecord("key", k) :
                     k \in Keys(getKeysStream(d, m.stakingModuleAddress, NoFilter))}
             \cup {StreamRecord("operator", o) :
                     o \in Operators(getOperatorsStream(d, m.stakingModuleAddress))}
           record  == [stakingModule : ModuleDto \cup {Null}, key : KeyDto \cup {Null},
                       operator : OperatorDto \cup {Null}, meta : Blocks \cup {Null}]
           content == [data |-> UNION {Rows(m) : m \in modules}]
<1>1. RefuseAll(d, {}) = 0 => d.block \in Blocks BY NotRefused
<1>2. ASSUME RefuseAll(d, {}) = 0 PROVE content \in SRModulesOperatorsKeysStreamResponse
  <2>1. ASSUME NEW m \in modules PROVE Rows(m) \subseteq record
    <3>1. StakingModuleResponse(m) \in ModuleDto BY RowsFit, EntitiesFit
    <3>2. [StreamRecord("stakingModule", StakingModuleResponse(m)) EXCEPT
             !.meta = IF m = first THEN ELBlockSnapshot(d) ELSE Null] \in record
      BY <1>1, <1>2, <3>1 DEF StreamRecord, ELBlockSnapshot
    <3>3. \A k \in KeyDto : StreamRecord("key", k) \in record BY DEF StreamRecord
    <3>4. \A o \in OperatorDto : StreamRecord("operator", o) \in record
      BY DEF StreamRecord
    <3>5. /\ Keys(getKeysStream(d, m.stakingModuleAddress, NoFilter)) \subseteq KeyDto
          /\ Operators(getOperatorsStream(d, m.stakingModuleAddress)) \subseteq OperatorDto
      BY RowsFit
    <3> HIDE DEF record
    <3> QED BY <3>2, <3>3, <3>4, <3>5
  <2> HIDE DEF Rows
  <2>2. content.data \subseteq record BY <2>1
  <2> QED BY <2>2 DEF SRModulesOperatorsKeysStreamResponse
<1>3. ModulesOperatorsKeys(d) = IF RefuseAll(d, {}) # 0 THEN Cut ELSE Ok(content)
  BY DEF ModulesOperatorsKeys
<1> HIDE DEF content
<1>4. CASE RefuseAll(d, {}) = 0 BY <1>1, <1>2, <1>3, <1>4, OkFits
<1>5. CASE RefuseAll(d, {}) # 0
  <2>1. ModulesOperatorsKeys(d) = Cut BY <1>3, <1>5
  <2> QED BY <2>1, DbFacts DEF Answered, Fits, Cut, Whole
<1> QED BY <1>4, <1>5

-----------------------------------------------------------------------------
(* The invariant: an answer that is held fits its endpoint.                 *)
BodyOf(endpoint) ==
    IF endpoint \in {"keys", "pubkey", "findKeys"} THEN KeyListResponse
    ELSE IF endpoint = "modules" THEN SRModuleListResponse
    ELSE IF endpoint = "module" THEN SRModuleResponse
    ELSE IF endpoint = "grouped" THEN GroupedByModuleKeyListResponse
    ELSE IF endpoint \in {"moduleKeys", "findModuleKeys"} THEN SRModuleKeyListResponse
    ELSE IF endpoint = "operators" THEN GroupedByModuleOperatorListResponse
    ELSE IF endpoint = "moduleOperators" THEN SRModuleOperatorListResponse
    ELSE IF endpoint = "moduleOperator" THEN SRModuleOperatorResponse
    ELSE IF endpoint = "operatorsKeys" THEN SRModuleOperatorsKeysResponse
    ELSE SRModulesOperatorsKeysStreamResponse

Inv ==
    /\ db \in Dbs
    /\ strict \in BOOLEAN
    /\ IF request = NoRequest THEN reply = Refuse(0)
       ELSE Answered(db, reply, request.endpoint, request.declared, BodyOf(request.endpoint))

LEMMA InitEstablishes == Init => Inv
BY DEF Init, Inv, Dbs

(* An endpoint answers. *)
LEMMA AnswerPreserves ==
    ASSUME Inv, NEW endpoint, endpoint # "none", NEW declared, NEW answer,
           Answer(endpoint, declared, answer),
           Answered(db, answer, endpoint, declared, BodyOf(endpoint))
    PROVE  Inv'
PROOF
<1>1. /\ request' = [endpoint |-> endpoint, declared |-> declared]
      /\ reply' = answer /\ db' = db /\ strict' = strict
  BY DEF Answer
<1>2. request' # NoRequest BY <1>1 DEF NoRequest
<1>3. Answered(db, reply, request.endpoint, request.declared, BodyOf(request.endpoint))'
  BY <1>1 DEF Answered, Fits, BodyOf
<1> QED BY <1>1, <1>2, <1>3 DEF Inv

LEMMA Bodies ==
    /\ BodyOf("keys") = KeyListResponse /\ BodyOf("pubkey") = KeyListResponse
    /\ BodyOf("findKeys") = KeyListResponse
    /\ BodyOf("modules") = SRModuleListResponse /\ BodyOf("module") = SRModuleResponse
    /\ BodyOf("grouped") = GroupedByModuleKeyListResponse
    /\ BodyOf("moduleKeys") = SRModuleKeyListResponse
    /\ BodyOf("findModuleKeys") = SRModuleKeyListResponse
    /\ BodyOf("operators") = GroupedByModuleOperatorListResponse
    /\ BodyOf("moduleOperators") = SRModuleOperatorListResponse
    /\ BodyOf("moduleOperator") = SRModuleOperatorResponse
    /\ BodyOf("operatorsKeys") = SRModuleOperatorsKeysResponse
    /\ BodyOf("v2") = SRModulesOperatorsKeysStreamResponse
BY DEF BodyOf

LEMMA NextPreserves ==
    ASSUME Inv, [Next]_vars
    PROVE  Inv'
PROOF
<1> db \in Dbs BY DEF Inv
<1>1. CASE Commit BY <1>1 DEF Commit, Inv, Dbs
<1>2. CASE Done BY <1>2 DEF Done, Inv
<1>3. CASE KeysController_get
  <2>1. PICK texts \in AddressInputs, used \in UsedInputs, index \in NumberInputs :
          Answer("keys", AllDeclared,
                 GetKeys(db, ModuleAddresses(texts), KeysFilter(used, index)))
    BY <1>3 DEF KeysController_get, AllDeclared
  <2>2. Answered(db, GetKeys(db, ModuleAddresses(texts), KeysFilter(used, index)),
                 "keys", AllDeclared, BodyOf("keys"))
    BY GetKeysFits, Bodies
  <2> QED BY <2>1, <2>2, AnswerPreserves
<1>4. CASE KeysController_getByPubkey
  <2>1. PICK t \in PubkeyInputs :
          Answer("pubkey", OneDeclared,
                 GetByPubkey(db, Pubkey(t)))
    BY <1>4 DEF KeysController_getByPubkey, OneDeclared
  <2>2. Answered(db, GetByPubkey(db, Pubkey(t)),
                 "pubkey", OneDeclared, BodyOf("pubkey"))
    BY GetByPubkeyFits, Bodies
  <2> QED BY <2>1, <2>2, AnswerPreserves
<1>5. CASE KeysController_getByPubkeys
  <2>1. PICK texts \in PubkeysInputs :
          Answer("findKeys", AllDeclared,
                 GetByPubkeys(db, KeysFindBody(texts)))
    BY <1>5 DEF KeysController_getByPubkeys, AllDeclared
  <2>2. Answered(db, GetByPubkeys(db, KeysFindBody(texts)),
                 "findKeys", AllDeclared, BodyOf("findKeys"))
    BY GetByPubkeysFits, Bodies
  <2> QED BY <2>1, <2>2, AnswerPreserves
<1>6. CASE SRModulesController_getModules
  <2>1. Answer("modules", AllDeclared, GetModules(db))
    BY <1>6 DEF SRModulesController_getModules, AllDeclared
  <2>2. Answered(db, GetModules(db),
                 "modules", AllDeclared, BodyOf("modules"))
    BY GetModulesFits, Bodies
  <2> QED BY <2>1, <2>2, AnswerPreserves
<1>7. CASE SRModulesController_getModule
  <2>1. PICK t \in ModuleIdTexts :
          Answer("module", OneDeclared,
                 GetModule(db, ModuleIdPipe(t)))
    BY <1>7 DEF SRModulesController_getModule, OneDeclared
  <2>2. Answered(db, GetModule(db, ModuleIdPipe(t)),
                 "module", OneDeclared, BodyOf("module"))
    BY GetModuleFits, Bodies
  <2> QED BY <2>1, <2>2, AnswerPreserves
<1>8. CASE SRModulesKeysController_getGroupedByModuleKeys
  <2>1. PICK used \in UsedInputs, index \in NumberInputs :
          Answer("grouped", AllDeclared,
                 GetGroupedByModuleKeys(db, KeysFilter(used, index)))
    BY <1>8 DEF SRModulesKeysController_getGroupedByModuleKeys, AllDeclared
  <2>2. Answered(db, GetGroupedByModuleKeys(db, KeysFilter(used, index)),
                 "grouped", AllDeclared, BodyOf("grouped"))
    BY GroupedFits, Bodies
  <2> QED BY <2>1, <2>2, AnswerPreserves
<1>9. CASE SRModulesKeysController_getModuleKeys
  <2>1. PICK t \in ModuleIdTexts, used \in UsedInputs, index \in NumberInputs :
          Answer("moduleKeys", OneDeclared,
                 GetModuleKeys(db, ModuleIdPipe(t), KeysFilter(used, index)))
    BY <1>9 DEF SRModulesKeysController_getModuleKeys, OneDeclared
  <2>2. Answered(db, GetModuleKeys(db, ModuleIdPipe(t), KeysFilter(used, index)),
                 "moduleKeys", OneDeclared, BodyOf("moduleKeys"))
    BY GetModuleKeysFits, Bodies
  <2> QED BY <2>1, <2>2, AnswerPreserves
<1>10. CASE SRModulesKeysController_getModuleKeysByPubkeys
  <2>1. PICK t \in ModuleIdTexts, texts \in PubkeysInputs :
          Answer("findModuleKeys", OneDeclared,
                 GetModuleKeysByPubKeys(db, ModuleIdPipe(t), KeysFindBody(texts)))
    BY <1>10 DEF SRModulesKeysController_getModuleKeysByPubkeys, OneDeclared
  <2>2. Answered(db, GetModuleKeysByPubKeys(db, ModuleIdPipe(t), KeysFindBody(texts)),
                 "findModuleKeys", OneDeclared, BodyOf("findModuleKeys"))
    BY GetModuleKeysByPubKeysFits, Bodies
  <2> QED BY <2>1, <2>2, AnswerPreserves
<1>11. CASE SRModulesOperatorsController_get
  <2>1. Answer("operators", AllDeclared, GetAllOperators(db))
    BY <1>11 DEF SRModulesOperatorsController_get, AllDeclared
  <2>2. Answered(db, GetAllOperators(db),
                 "operators", AllDeclared, BodyOf("operators"))
    BY GetAllOperatorsFits, Bodies
  <2> QED BY <2>1, <2>2, AnswerPreserves
<1>12. CASE SRModulesOperatorsController_getModuleOperators
  <2>1. PICK t \in ModuleIdTexts :
          Answer("moduleOperators", OneDeclared,
                 GetOperatorsByModule(db, ModuleIdPipe(t)))
    BY <1>12 DEF SRModulesOperatorsController_getModuleOperators, OneDeclared
  <2>2. Answered(db, GetOperatorsByModule(db, ModuleIdPipe(t)),
                 "moduleOperators", OneDeclared, BodyOf("moduleOperators"))
    BY GetOperatorsByModuleFits, Bodies
  <2> QED BY <2>1, <2>2, AnswerPreserves
<1>13. CASE SRModulesOperatorsController_getModuleOperator
  <2>1. PICK t \in ModuleIdTexts, index \in NumberInputs :
          Answer("moduleOperator", OneDeclared,
                 GetModuleOperator(db, ModuleIdPipe(t), OperatorId(index)))
    BY <1>13 DEF SRModulesOperatorsController_getModuleOperator, OneDeclared
  <2>2. Answered(db, GetModuleOperator(db, ModuleIdPipe(t), OperatorId(index)),
                 "moduleOperator", OneDeclared, BodyOf("moduleOperator"))
    BY GetModuleOperatorFits, Bodies
  <2> QED BY <2>1, <2>2, AnswerPreserves
<1>14. CASE SRModulesOperatorsKeysController_getOperatorsKeys
  <2>1. PICK t \in ModuleIdTexts, used \in UsedInputs, index \in NumberInputs :
          Answer("operatorsKeys", OneDeclared,
                 GetOperatorsKeys(db, ModuleIdPipe(t), KeysFilter(used, index)))
    BY <1>14 DEF SRModulesOperatorsKeysController_getOperatorsKeys, OneDeclared
  <2>2. Answered(db, GetOperatorsKeys(db, ModuleIdPipe(t), KeysFilter(used, index)),
                 "operatorsKeys", OneDeclared, BodyOf("operatorsKeys"))
    BY GetOperatorsKeysFits, Bodies
  <2> QED BY <2>1, <2>2, AnswerPreserves
<1>15. CASE SRModulesOperatorsKeysController_getModulesOperatorsKeysStream
  <2>1. Answer("v2", AllDeclared, ModulesOperatorsKeys(db))
    BY <1>15 DEF SRModulesOperatorsKeysController_getModulesOperatorsKeysStream, AllDeclared
  <2>2. Answered(db, ModulesOperatorsKeys(db),
                 "v2", AllDeclared, BodyOf("v2"))
    BY StreamFits, Bodies
  <2> QED BY <2>1, <2>2, AnswerPreserves
<1>16. CASE UNCHANGED vars BY <1>16 DEF vars, Inv, Answered, Fits, BodyOf
<1> QED
  BY <1>1, <1>2, <1>3, <1>4, <1>5, <1>6, <1>7, <1>8, <1>9, <1>10,
     <1>11, <1>12, <1>13, <1>14, <1>15, <1>16 DEF Next

THEOREM InvariantHolds == Spec => []Inv
PROOF
<1>1. Init => Inv BY InitEstablishes
<1>2. Inv /\ [Next]_vars => Inv' BY NextPreserves
<1> QED BY <1>1, <1>2, PTL DEF Spec

(* Every whole reply is of the documented type. *)
THEOREM RepliesAreTyped == Spec => []TypeOK
PROOF
<1>1. Inv => TypeOK
  <2> SUFFICES ASSUME Inv PROVE TypeOK OBVIOUS
  <2>1. CASE request = NoRequest
    BY <2>1 DEF Inv, Dbs, TypeOK, Served, Whole, Refuse, NoRequest
  <2>2. CASE request # NoRequest
    <3>1. Whole(reply) => reply.body \in BodyOf(request.endpoint)
      BY <2>2 DEF Inv, Answered
    <3> QED BY <3>1 DEF Inv, Dbs, TypeOK, Served, BodyOf
  <2> QED BY <2>1, <2>2
<1> QED BY <1>1, InvariantHolds, PTL

(* Nothing is served before the first commit, nobody is put off after it. *)
THEOREM EmptyIsNeverServed == Spec => []EmptyServesNothing
PROOF
<1>1. Inv => EmptyServesNothing
  BY DEF Inv, EmptyServesNothing, Answered, Fits, Whole, Refuse
<1> QED BY <1>1, InvariantHolds, PTL

(* Refusals are documented, 400, or 500 for a number beyond its column. *)
THEOREM RefusalsAreDocumented == Spec => []RefusalsAreDeclared
PROOF
<1>1. Inv => RefusalsAreDeclared BY DEF Inv, RefusalsAreDeclared, Answered, Fits
<1> QED BY <1>1, InvariantHolds, PTL

-----------------------------------------------------------------------------
(* What the filters select. *)

(* Every key of a committed database is of one of its modules. *)
LEMMA KeysHaveModules ==
    ASSUME NEW d \in Dbs, NEW k \in d.keys
    PROVE  \E m \in d.modules : m.stakingModuleAddress = k.moduleAddress
PROOF
<1>1. d \in Snapshots BY DEF Dbs, EmptyDb
<1>2. PICK o \in d.operators : o.moduleAddress = k.moduleAddress
  BY <1>1, RestApiAssumption DEF RestApiAssumption
<1>3. PICK m \in d.modules : m.stakingModuleAddress = o.moduleAddress
  BY <1>1, RestApiAssumption DEF RestApiAssumption
<1> QED BY <1>2, <1>3

Selected(u, i) ==
    {k \in db.keys : /\ i # Absent => k.operatorIndex = i
                     /\ u # Absent => k.used = u}

LEMMA KeysSelected ==
    ASSUME db \in Dbs, Quiet, NEW u \in {TRUE, FALSE, Absent}, NEW i \in Numbers \cup {Absent}
    PROVE  GetKeys(db, Absent, [used |-> u, operatorIndex |-> i]).body.data =
             {Key(k) : k \in Selected(u, i)}
PROOF
<1> DEFINE f == [used |-> u, operatorIndex |-> i]
           modules == getStakingModules(db, Absent)
           data == UNION {Keys(getKeysStream(db, m.stakingModuleAddress, f)) : m \in modules}
<1>1. BadRequest \notin {Absent, f.used, f.operatorIndex}
  <2>1. BadRequest \notin BOOLEAN /\ BadRequest # Absent /\ BadRequest \notin Nat
    BY Zenon, RequestsAssumption DEF RequestsAssumption
  <2>2. Numbers \subseteq Nat BY RestApiAssumption DEF RestApiAssumption, Numbers
  <2>3. BadRequest # f.operatorIndex BY <2>1, <2>2
  <2>4. u \in BOOLEAN \cup {Absent} BY Zenon
  <2>5. BadRequest # u BY Zenon, <2>1, <2>4
  <2>6. f.used = u OBVIOUS
  <2> QED BY Zenon, <2>1, <2>3, <2>5, <2>6
<1>2. RefuseAll(db, {Absent, f.used, f.operatorIndex}) = 0
  BY <1>1 DEF RefuseAll, Quiet
<1>3. ~StreamFails(f.operatorIndex) BY DEF StreamFails, BeyondColumn
<1>4. GetKeys(db, Absent, f).body.data = data
  BY <1>2, <1>3 DEF GetKeys, Unless, Ok
<1>5. modules = db.modules BY DEF getStakingModules
<1>6. \A a : getKeysStream(db, a, f) = {k \in Selected(u, i) : k.moduleAddress = a}
  BY DEF getKeysStream, KeysOf, Selected
<1>7. \A k \in Selected(u, i) : \E m \in modules : m.stakingModuleAddress = k.moduleAddress
  BY <1>5, KeysHaveModules DEF Selected
<1> HIDE DEF f, modules
<1>8. \A x : x \in data <=>
             \E m \in modules : \E k \in Selected(u, i) :
               k.moduleAddress = m.stakingModuleAddress /\ x = Key(k)
  BY <1>6 DEF Keys
<1>9. \A x : x \in data <=> \E k \in Selected(u, i) : x = Key(k)
  BY <1>7, <1>8
<1> HIDE DEF data
<1> QED BY <1>4, <1>9 DEF f

(* The filters split the keys, for every database and every index. *)
THEOREM FiltersAlwaysSplit == Spec => []FiltersSplit
PROOF
<1>1. ASSUME Inv, Quiet PROVE FiltersSplit
  <2> DEFINE Of(u, i) == GetKeys(db, Absent, [used |-> u, operatorIndex |-> i]).body.data
             Indices  == {o.index : o \in db.operators}
  <2>1. db \in Dbs /\ db \in Databases BY <1>1, DbFacts DEF Inv
  <2>2. Indices \subseteq Numbers BY <2>1 DEF Databases, RegistryOperator
  <2>3. \A k \in db.keys :
          /\ k.used \in BOOLEAN
          /\ Key(k).used = k.used
          /\ Key(k).operatorIndex = k.operatorIndex
          /\ k.operatorIndex \in Indices
    <3>1. db \in Snapshots BY <1>1, <2>1 DEF Dbs, EmptyDb, Quiet
    <3>2. \A k \in db.keys : k.operatorIndex \in Indices
      BY <3>1, RestApiAssumption DEF RestApiAssumption
    <3>3. \A k \in db.keys : k \in RegistryKey BY <2>1 DEF Databases
    <3> QED BY <3>2, <3>3 DEF RegistryKey, Key
  <2>4. Absent \notin BOOLEAN /\ Absent \notin Indices
    BY <2>2, RequestsAssumption, RestApiAssumption
    DEF RequestsAssumption, RestApiAssumption, Numbers
  <2>5. \A u \in {TRUE, FALSE, Absent}, i \in Indices \cup {Absent} :
          Of(u, i) = {Key(k) : k \in Selected(u, i)}
    BY <1>1, <2>1, <2>2, KeysSelected
  <2> HIDE DEF Of, Indices
  <2>6. ASSUME NEW i \in Indices \cup {Absent}
        PROVE  /\ Of(TRUE, i) \cap Of(FALSE, i) = {}
               /\ Of(TRUE, i) \cup Of(FALSE, i) = Of(Absent, i)
    <3>1. /\ Of(TRUE, i) = {Key(k) : k \in Selected(TRUE, i)}
          /\ Of(FALSE, i) = {Key(k) : k \in Selected(FALSE, i)}
          /\ Of(Absent, i) = {Key(k) : k \in Selected(Absent, i)}
      BY <2>5
    <3>2. /\ \A k \in Selected(TRUE, i) : k \in db.keys /\ k.used = TRUE
          /\ \A k \in Selected(FALSE, i) : k \in db.keys /\ k.used = FALSE
          /\ Selected(TRUE, i) \cup Selected(FALSE, i) = Selected(Absent, i)
      BY <2>3, <2>4 DEF Selected
    <3>3. Of(TRUE, i) \cap Of(FALSE, i) = {}
      <4>1. ASSUME NEW x \in Of(TRUE, i), x \in Of(FALSE, i) PROVE FALSE
        <5>1. PICK k \in Selected(TRUE, i) : x = Key(k) BY <3>1
        <5>2. PICK l \in Selected(FALSE, i) : x = Key(l) BY <4>1, <3>1
        <5>3. x.used = k.used /\ x.used = l.used BY <2>3, <3>2, <5>1, <5>2
        <5> QED BY <3>2, <5>3
      <4> QED BY <4>1
    <3>4. Of(TRUE, i) \cup Of(FALSE, i) = Of(Absent, i) BY <3>1, <3>2
    <3> QED BY <3>3, <3>4
  <2>7. ASSUME NEW u \in {TRUE, FALSE, Absent}
        PROVE  /\ UNION {Of(u, i) : i \in Indices} = Of(u, Absent)
               /\ \A i, j \in Indices : i # j => Of(u, i) \cap Of(u, j) = {}
    <3>1. \A i \in Indices : Of(u, i) = {Key(k) : k \in Selected(u, i)} BY <2>5
    <3>2. Of(u, Absent) = {Key(k) : k \in Selected(u, Absent)} BY <2>5
    <3>3. /\ \A i \in Indices : \A k \in Selected(u, i) :
               k \in Selected(u, Absent) /\ k.operatorIndex = i
          /\ \A k \in Selected(u, Absent) :
               k \in db.keys /\ k \in Selected(u, k.operatorIndex)
      BY <2>4 DEF Selected
    <3>4. UNION {Of(u, i) : i \in Indices} = Of(u, Absent)
      BY <2>3, <3>1, <3>2, <3>3
    <3>5. \A i, j \in Indices : i # j => Of(u, i) \cap Of(u, j) = {}
      BY <2>3, <3>1, <3>3
    <3> QED BY <3>4, <3>5
  <2> QED BY <2>6, <2>7 DEF FiltersSplit, Of, Indices
<1>2. Inv => FiltersSplit BY <1>1 DEF FiltersSplit
<1> QED BY <1>2, InvariantHolds, PTL

-----------------------------------------------------------------------------
(* How a module is named. *)

LEMMA TextKinds ==
    /\ \A t \in AddressTexts : IsAddressText(t)
    /\ \A t \in NumberTexts : ~IsAddressText(t)
BY DEF AddressTexts, NumberTexts, IsAddressText

(* What ModuleIdPipe makes of a text. *)
LEMMA AddressPiped ==
    ASSUME NEW t \in AddressTexts, t.address # ZeroAddress
    PROVE  ModuleIdPipe(t) =
             IF t.form \in {"plain", "checksum", "upper", "spaced"}
             THEN ByAddress(Plain(t.address))
             ELSE IF t.form \in {"bare", "icap"}
             THEN ByAddress([address |-> t.address,
                             form |-> IF t.form = "bare" THEN "bare" ELSE "xe"])
             ELSE BadRequest
PROOF
<1>1. trim(t) \in AddressTexts /\ toLowerCase(trim(t)) \in AddressTexts
  BY DEF AddressTexts, AddressForms, trim, toLowerCase
<1>2. IsAddressText(trim(t)) BY <1>1, TextKinds
<1>3. trim(t) = [address |-> t.address,
                 form |-> IF t.form = "spaced" THEN "plain" ELSE t.form]
  BY DEF AddressTexts, trim
<1>4. toLowerCase(trim(t)) =
        [address |-> t.address,
         form |-> IF t.form \in {"checksum", "upper", "mixed", "0X", "spaced"} THEN "plain"
                  ELSE IF t.form = "icap" THEN "xe" ELSE t.form]
  BY <1>3 DEF AddressTexts, AddressForms, toLowerCase
<1>5. toLowerCase(trim(t)) # Plain(ZeroAddress) BY <1>4 DEF Plain
<1> QED BY <1>2, <1>3, <1>4, <1>5
  DEF ModuleIdPipe, isAddress, AddressTexts, AddressForms, Plain

LEMMA NumberPiped ==
    ASSUME NEW t \in NumberTexts
    PROVE  ModuleIdPipe(t) \in {ById(t.value), BadRequest}
PROOF
<1>1. trim(t) \in NumberTexts /\ trim(t).value = t.value
  BY DEF NumberTexts, NumberForms, trim
<1>2. ~IsAddressText(trim(t)) BY <1>1, TextKinds
<1> QED BY <1>1, <1>2 DEF ModuleIdPipe, isAddress

(* The answer of the endpoint the property looks at: its status, its module.*)
LEMMA OperatorsKeysAnswer ==
    ASSUME NEW id
    PROVE  LET r == RefuseOne(db, id, Parsed(NoFilter))
               answer == GetOperatorsKeys(db, id, NoFilter)
           IN  /\ r # 0 => answer = Refuse(r)
               /\ r = 0 => /\ Whole(answer)
                           /\ answer.body.data.module = StakingModuleResponse(TheModule(db, id))
PROOF
<1>1. ~FindFails(NoFilter.operatorIndex) /\ ~StreamFails(NoFilter.operatorIndex)
  BY DEF FindFails, StreamFails, BeyondColumn, NoFilter
<1> HIDE DEF NoFilter
<1> QED BY <1>1 DEF GetOperatorsKeys, Unless, Ok, Whole

LEMMA PipedKeepsAddress ==
    ASSUME NEW t \in AddressTexts
    PROVE  \/ ModuleIdPipe(t) = BadRequest
           \/ /\ ModuleIdPipe(t).by = "stakingModuleAddress"
              /\ ModuleIdPipe(t).value.address = t.address
PROOF
<1>1. trim(t) \in AddressTexts BY DEF AddressTexts, AddressForms, trim
<1>2. IsAddressText(trim(t)) BY <1>1, TextKinds
<1>3. toLowerCase(trim(t)).address = t.address
  BY DEF AddressTexts, toLowerCase, trim
<1> QED BY <1>2, <1>3 DEF ModuleIdPipe, ByAddress, isAddress

(* The module itself answers to its id and to its address. *)
LEMMA ModuleFound ==
    ASSUME db \in Dbs, Quiet, NEW m \in db.modules
    PROVE  /\ m.moduleId \in Numbers
           /\ m.stakingModuleAddress = Plain(m.stakingModuleAddress.address)
           /\ m.stakingModuleAddress.address \in Addresses
           /\ \A id \in {ById(m.moduleId), ByAddress(m.stakingModuleAddress)} :
                /\ getStakingModule(db, id) = {m}
                /\ RefuseOne(db, id, Parsed(NoFilter)) = 0
                /\ TheModule(db, id) = m
PROOF
<1>1. db \in Snapshots BY DEF Dbs, EmptyDb, Quiet
<1>2. m \in SrModuleEntity BY DbFacts DEF Databases
<1>3. /\ m.moduleId \in Numbers
      /\ m.stakingModuleAddress = Plain(m.stakingModuleAddress.address)
      /\ m.stakingModuleAddress.address \in Addresses
  BY <1>2 DEF SrModuleEntity, StoredAddresses, Plain
<1>4. \A n \in db.modules :
        m.moduleId = n.moduleId \/ m.stakingModuleAddress = n.stakingModuleAddress => m = n
  BY <1>1, RestApiAssumption DEF RestApiAssumption
<1>5. /\ getStakingModule(db, ById(m.moduleId)) = {m}
      /\ getStakingModule(db, ByAddress(m.stakingModuleAddress)) = {m}
  BY <1>4 DEF getStakingModule, ById, ByAddress
<1>6. /\ BadRequest \notin Parsed(NoFilter)
      /\ BadRequest # ById(m.moduleId)
      /\ BadRequest # ByAddress(m.stakingModuleAddress)
  <2>1. m.moduleId \in Nat /\ m.stakingModuleAddress \in AddressTexts
    BY <1>3, RestApiAssumption
    DEF RestApiAssumption, Numbers, AddressTexts, AddressForms, Plain
  <2>2. /\ ById(m.moduleId) \in [by : {"moduleId"}, value : Nat]
        /\ ByAddress(m.stakingModuleAddress) \in
             [by : {"stakingModuleAddress"}, value : AddressTexts]
    BY <2>1 DEF ById, ByAddress
  <2> QED BY <2>2, RequestsAssumption DEF RequestsAssumption, Parsed, NoFilter
<1>7. ~FindFails(m.moduleId) BY <1>3 DEF FindFails, BeyondColumn
<1>8. ASSUME NEW id \in {ById(m.moduleId), ByAddress(m.stakingModuleAddress)}
      PROVE  /\ getStakingModule(db, id) = {m}
             /\ RefuseOne(db, id, Parsed(NoFilter)) = 0
             /\ TheModule(db, id) = m
  <2>1. getStakingModule(db, id) = {m} BY <1>5
  <2>2. id # BadRequest /\ (id.by = "moduleId" => id.value = m.moduleId)
    BY <1>6 DEF ById, ByAddress
  <2>3. RefuseOne(db, id, Parsed(NoFilter)) = 0
    BY <1>6, <1>7, <2>1, <2>2 DEF RefuseOne, Quiet
  <2> QED BY <2>1, <2>3 DEF TheModule
<1> QED BY <1>3, <1>8

(* Any spelling of a module's address, for all addresses. *)
THEOREM ModulesAreNamedAnyhow == Spec => []ModuleNamedAnyhow
PROOF
<1>1. ASSUME Inv, Quiet, NEW m \in db.modules, NEW t \in ModuleIdTexts
      PROVE  LET a      == m.stakingModuleAddress.address
                 Same   == {"plain", "checksum", "upper", "spaced"}
                 answer == GetOperatorsKeys(db, ModuleIdPipe(t), NoFilter)
             IN  /\ IsAddressText(t) /\ t.address = a =>
                      IF t.form \in Same
                      THEN answer = GetOperatorsKeys(db, ById(m.moduleId), NoFilter)
                      ELSE answer.status = IF t.form \in {"bare", "icap"} THEN 404 ELSE 400
                 /\ Whole(answer) /\ answer.body.data.module = StakingModuleResponse(m) =>
                      IF IsAddressText(t) THEN t.address = a ELSE t.value = m.moduleId
  <2> DEFINE a      == m.stakingModuleAddress.address
             id     == ModuleIdPipe(t)
             r      == RefuseOne(db, id, Parsed(NoFilter))
             answer == GetOperatorsKeys(db, id, NoFilter)
  <2>1. db \in Dbs BY <1>1 DEF Inv
  <2>2. t \in AddressTexts \/ t \in NumberTexts
    BY RestApiAssumption DEF RestApiAssumption
  <2>3. IsAddressText(t) <=> t \in AddressTexts BY <2>2, TextKinds
  <2>4. ASSUME t \in AddressTexts, t.address = a,
               t.form \in {"plain", "checksum", "upper", "spaced"}
        PROVE  answer = GetOperatorsKeys(db, ById(m.moduleId), NoFilter)
    <3>1. id = ByAddress(m.stakingModuleAddress)
      <4>1. a \in Addresses /\ m.stakingModuleAddress = Plain(a)
        BY <1>1, <2>1, ModuleFound
      <4>2. t.address # ZeroAddress
        BY <2>4, <4>1, RequestsAssumption DEF RequestsAssumption
      <4>3. ModuleIdPipe(t) = ByAddress(Plain(t.address)) BY <2>4, <4>2, AddressPiped
      <4> QED BY <2>4, <4>1, <4>3
    <3> HIDE DEF id
    <3>2. /\ RefuseOne(db, id, Parsed(NoFilter)) =
               RefuseOne(db, ById(m.moduleId), Parsed(NoFilter))
          /\ TheModule(db, id) = TheModule(db, ById(m.moduleId))
      BY <1>1, <2>1, <3>1, ModuleFound
    <3> QED BY <3>2 DEF GetOperatorsKeys, AddressOf
  <2>5. ASSUME t \in AddressTexts, t.address = a,
               t.form \notin {"plain", "checksum", "upper", "spaced"}
        PROVE  answer.status = IF t.form \in {"bare", "icap"} THEN 404 ELSE 400
    <3>1. t.address # ZeroAddress
      BY <1>1, <2>1, <2>5, ModuleFound, RequestsAssumption DEF RequestsAssumption
    <3>2. CASE t.form \in {"bare", "icap"}
      <4>1. id = ByAddress([address |-> t.address,
                            form |-> IF t.form = "bare" THEN "bare" ELSE "xe"])
        BY <2>5, <3>1, <3>2, AddressPiped
      <4>2. \A n \in db.modules : n.stakingModuleAddress.form = "plain"
        BY <2>1, DbFacts DEF Databases, SrModuleEntity, StoredAddresses, Plain
      <4>3. getStakingModule(db, id) = {}
        BY <4>1, <4>2 DEF getStakingModule, ByAddress
      <4>4. id.by = "stakingModuleAddress" BY <4>1 DEF ByAddress
      <4>5. BadRequest # id
        <5>1. id \in [by : {"stakingModuleAddress"}, value : AddressTexts]
          BY <2>5, <4>1 DEF ByAddress, AddressTexts, AddressForms
        <5> QED BY <5>1, RequestsAssumption DEF RequestsAssumption
      <4>6. BadRequest \notin Parsed(NoFilter)
        BY RequestsAssumption DEF RequestsAssumption, Parsed, NoFilter
      <4>7. r = 404 BY <4>3, <4>4, <4>5, <4>6 DEF RefuseOne
      <4> HIDE DEF id
      <4> QED BY <3>2, <4>7, OperatorsKeysAnswer DEF Refuse
    <3>3. CASE t.form \notin {"bare", "icap"}
      <4>1. id = BadRequest BY <2>5, <3>1, <3>3, AddressPiped
      <4>2. r = 400 BY <4>1 DEF RefuseOne
      <4> HIDE DEF id
      <4> QED BY <3>3, <4>2, OperatorsKeysAnswer DEF Refuse
    <3> QED BY <3>2, <3>3
  <2>6. ASSUME Whole(answer), answer.body.data.module = StakingModuleResponse(m)
        PROVE  IF IsAddressText(t) THEN t.address = a ELSE t.value = m.moduleId
    <3>1. r = 0
      <4>1. r \in {0, 400, 404, 500} BY <2>1, NotRefusedOne
      <4> HIDE DEF r
      <4>2. r # 0 => answer = Refuse(r) BY OperatorsKeysAnswer DEF r
      <4> HIDE DEF answer
      <4> QED BY <2>6, <4>1, <4>2 DEF Whole, Refuse
    <3>2. TheModule(db, id) \in getStakingModule(db, id) /\ TheModule(db, id) \in db.modules
      BY <2>1, <3>1, NotRefusedOne
    <3>3. StakingModuleResponse(TheModule(db, id)) = StakingModuleResponse(m)
      BY <2>6, <3>1, OperatorsKeysAnswer
    <3>4. TheModule(db, id).moduleId = m.moduleId
      BY <3>3 DEF StakingModuleResponse
    <3>5. db \in Snapshots BY <1>1, <2>1 DEF Dbs, EmptyDb, Quiet
    <3>6. TheModule(db, id) = m
      BY <3>2, <3>4, <3>5, RestApiAssumption DEF RestApiAssumption
    <3>7. m[id.by] = id.value BY <3>2, <3>6 DEF getStakingModule
    <3>8. id # BadRequest BY <3>1 DEF RefuseOne
    <3>9. CASE t \in AddressTexts
      <4>1. id.by = "stakingModuleAddress" /\ id.value.address = t.address
        BY <3>8, <3>9, PipedKeepsAddress
      <4> QED BY <2>3, <3>7, <3>9, <4>1
    <3>10. CASE t \in NumberTexts
      <4>1. id = ById(t.value) BY <3>8, <3>10, NumberPiped
      <4> HIDE DEF id
      <4>2. t.value = m.moduleId BY <3>7, <4>1 DEF ById
      <4> QED BY <3>10, <4>2, TextKinds
    <3> QED BY <2>2, <3>9, <3>10
  <2>7. IsAddressText(t) /\ t.address = a =>
          IF t.form \in {"plain", "checksum", "upper", "spaced"}
          THEN answer = GetOperatorsKeys(db, ById(m.moduleId), NoFilter)
          ELSE answer.status = IF t.form \in {"bare", "icap"} THEN 404 ELSE 400
    <3> HIDE DEF answer
    <3> QED BY <2>3, <2>4, <2>5
  <2>8. Whole(answer) /\ answer.body.data.module = StakingModuleResponse(m) =>
          IF IsAddressText(t) THEN t.address = a ELSE t.value = m.moduleId
    <3> HIDE DEF answer
    <3> QED BY <2>6
  <2> QED BY Zenon, <2>7, <2>8
<1>2. Inv => ModuleNamedAnyhow BY <1>1 DEF ModuleNamedAnyhow
<1> QED BY <1>2, InvariantHolds, PTL

-----------------------------------------------------------------------------
(* Two ways to the same rows.  What each endpoint shows of a committed      *)
(* database, in terms of its rows; every comparison rests on these.         *)

(* A query that passed its validation. *)
Clean(f) ==
    /\ f = [used |-> f.used, operatorIndex |-> f.operatorIndex]
    /\ f.used \in {TRUE, FALSE, Absent}
    /\ f.operatorIndex \in Nat \cup {Absent}

LEMMA CleanIsNoBadRequest ==
    ASSUME NEW f, Clean(f)
    PROVE  BadRequest \notin {Absent, f.used, f.operatorIndex} /\ BadRequest \notin Parsed(f)
PROOF
<1>1. BadRequest \notin BOOLEAN /\ BadRequest # Absent /\ BadRequest \notin Nat
  BY Zenon, RequestsAssumption DEF RequestsAssumption
<1>2. f.used \in BOOLEAN \cup {Absent} BY Zenon DEF Clean
<1>3. BadRequest # f.used BY Zenon, <1>1, <1>2
<1>4. BadRequest # f.operatorIndex BY Zenon, <1>1 DEF Clean
<1> QED BY Zenon, <1>1, <1>3, <1>4 DEF Parsed

LEMMA FiltersAreClean ==
    /\ \A f \in Filters : Clean(f)
    /\ Clean(NoFilter) /\ InColumn(NoFilter)
PROOF
<1>1. ASSUME NEW f \in Filters PROVE Clean(f)
  <2>1. PICK u \in UsedInputs, n \in NumberInputs : f = KeysFilter(u, n)
    BY DEF Filters
  <2>2. BadRequest # f.used /\ BadRequest # f.operatorIndex BY DEF Filters, Parsed
  <2>3. f = [used |-> toBoolean(u), operatorIndex |-> OperatorIndex(n)]
    BY <2>1 DEF KeysFilter
  <2>4. toBoolean(u) \in {TRUE, FALSE, Absent, BadRequest}
    BY DEF UsedInputs, toBoolean
  <2>5. OperatorIndex(n) \in Nat \cup {Absent, BadRequest} BY DEF OperatorIndex
  <2> HIDE DEF Filters
  <2> QED BY <2>2, <2>3, <2>4, <2>5 DEF Clean
<1>2. Clean(NoFilter) /\ InColumn(NoFilter)
  BY DEF Clean, NoFilter, InColumn, BeyondColumn
<1> QED BY <1>1, <1>2

(* The two ways of querying by a number, for one that is in its column. *)
LEMMA InColumnDoesNotFail ==
    ASSUME NEW f
    PROVE  /\ InColumn(f) => ~FindFails(f.operatorIndex)
           /\ InColumn(f) <=> ~StreamFails(f.operatorIndex)
BY DEF InColumn, FindFails, StreamFails

(* An endpoint of one module, asked by the id of a module there is. *)
LEMMA ModuleAnswers ==
    ASSUME db \in Dbs, Quiet, NEW m \in db.modules, NEW inputs, BadRequest \notin inputs
    PROVE  /\ RefuseOne(db, ById(m.moduleId), inputs) = 0
           /\ TheModule(db, ById(m.moduleId)) = m
           /\ AddressOf(db, ById(m.moduleId)) = m.stakingModuleAddress
           /\ StakingModuleResponse(m).id = m.moduleId
PROOF
<1> DEFINE id == ById(m.moduleId)
<1>1. RefuseOne(db, id, Parsed(NoFilter)) = 0 /\ TheModule(db, id) = m
  BY ModuleFound
<1>2. RefuseOne(db, id, inputs) = 0 BY <1>1 DEF RefuseOne
<1> QED BY <1>1, <1>2 DEF AddressOf, StakingModuleResponse

(* An endpoint of all modules, once something was committed. *)
LEMMA AllAnswer ==
    ASSUME Quiet, NEW inputs, BadRequest \notin inputs, NEW answer
    PROVE  Unless(RefuseAll(db, inputs), answer) = answer
BY DEF RefuseAll, Quiet, Unless

LEMMA AllModules == getStakingModules(db, Absent) = db.modules
BY DEF getStakingModules

KeysShown(m, f) == Keys(getKeysStream(db, m.stakingModuleAddress, f))
OperatorsShown(m, index) == Operators(getOperators(db, m.stakingModuleAddress, index))

(* GET /v1/keys. *)
LEMMA KeysAnswer ==
    ASSUME Quiet, NEW f, Clean(f)
    PROVE  LET answer == GetKeys(db, Absent, f) IN
           /\ Whole(answer) <=> db.modules = {} \/ InColumn(f)
           /\ Whole(answer) => answer.body.data = UNION {KeysShown(m, f) : m \in db.modules}
PROOF
<1> DEFINE data == UNION {Keys(getKeysStream(db, m.stakingModuleAddress, f)) : m \in db.modules}
           content == [data |-> data, meta |-> ELBlockSnapshot(db)]
           answer == IF db.modules # {} /\ StreamFails(f.operatorIndex) THEN Cut ELSE Ok(content)
<1>1. GetKeys(db, Absent, f) =
        Unless(RefuseAll(db, {Absent, f.used, f.operatorIndex}), answer)
  BY AllModules DEF GetKeys
<1> HIDE DEF answer
<1>2. GetKeys(db, Absent, f) = answer BY <1>1, AllAnswer, CleanIsNoBadRequest
<1> USE DEF answer
<1>3. content.data = UNION {KeysShown(m, f) : m \in db.modules} BY DEF KeysShown
<1> HIDE DEF content
<1> QED BY <1>2, <1>3, InColumnDoesNotFail DEF Whole, Cut, Ok

(* GET /v1/modules/keys. *)
LEMMA GroupedAnswer ==
    ASSUME Quiet, NEW f, Clean(f)
    PROVE  LET answer == GetGroupedByModuleKeys(db, f) IN
           /\ InColumn(f) => Whole(answer)
           /\ Whole(answer) => answer.body.data =
                {[keys |-> KeysShown(m, f), module |-> StakingModuleResponse(m)] :
                   m \in db.modules}
PROOF
<1> DEFINE content == [data |-> {[keys   |-> Keys(getKeys(db, m.stakingModuleAddress, f)),
                                   module |-> StakingModuleResponse(m)] : m \in db.modules},
                       meta |-> ELBlockSnapshot(db)]
           answer == IF db.modules # {} /\ FindFails(f.operatorIndex) THEN Refuse(500)
                     ELSE Ok(content)
<1>1. GetGroupedByModuleKeys(db, f) = Unless(RefuseAll(db, Parsed(f)), answer)
  BY AllModules DEF GetGroupedByModuleKeys
<1> HIDE DEF answer
<1>2. GetGroupedByModuleKeys(db, f) = answer BY <1>1, AllAnswer, CleanIsNoBadRequest
<1> USE DEF answer
<1>3. \A a : getKeys(db, a, f) = getKeysStream(db, a, f) BY DEF getKeys, getKeysStream
<1>4. content.data = {[keys |-> KeysShown(m, f), module |-> StakingModuleResponse(m)] :
                        m \in db.modules}
  BY <1>3 DEF KeysShown
<1> HIDE DEF content
<1> QED BY <1>2, <1>4, InColumnDoesNotFail DEF Whole, Refuse, Ok

(* GET /v1/modules/:module_id/keys. *)
LEMMA ModuleKeysAnswer ==
    ASSUME db \in Dbs, Quiet, NEW m \in db.modules, NEW f, Clean(f), InColumn(f)
    PROVE  GetModuleKeys(db, ById(m.moduleId), f).body.data =
             [keys |-> KeysShown(m, f), module |-> StakingModuleResponse(m)]
PROOF
<1> DEFINE id == ById(m.moduleId)
<1>1. /\ RefuseOne(db, id, Parsed(f)) = 0
      /\ TheModule(db, id) = m
      /\ AddressOf(db, id) = m.stakingModuleAddress
  BY ModuleAnswers, CleanIsNoBadRequest
<1>2. ~StreamFails(f.operatorIndex) BY InColumnDoesNotFail
<1> HIDE DEF id
<1> QED BY <1>1, <1>2 DEF GetModuleKeys, Unless, Ok, KeysShown, id

(* GET /v1/modules/:module_id/operators/keys. *)
LEMMA OperatorsKeysShown ==
    ASSUME db \in Dbs, Quiet, NEW m \in db.modules, NEW f, Clean(f)
    PROVE  LET answer == GetOperatorsKeys(db, ById(m.moduleId), f) IN
           /\ Whole(answer) <=> InColumn(f)
           /\ Whole(answer) => answer.body.data =
                [operators |-> OperatorsShown(m, f.operatorIndex), keys |-> KeysShown(m, f),
                 module |-> StakingModuleResponse(m)]
PROOF
<1> DEFINE id == ById(m.moduleId)
<1>1. /\ RefuseOne(db, id, Parsed(f)) = 0
      /\ TheModule(db, id) = m
      /\ AddressOf(db, id) = m.stakingModuleAddress
  BY ModuleAnswers, CleanIsNoBadRequest
<1> HIDE DEF id
<1> QED BY <1>1, InColumnDoesNotFail
  DEF GetOperatorsKeys, Unless, Ok, Whole, Refuse, Cut, KeysShown, OperatorsShown, id

(* GET /v1/operators and the endpoints of one module's operators. *)
LEMMA AllOperatorsAnswer ==
    ASSUME Quiet
    PROVE  GetAllOperators(db).body.data =
             {[operators |-> OperatorsShown(m, Absent), module |-> StakingModuleResponse(m)] :
                m \in db.modules}
PROOF
<1> DEFINE content == [data |-> {[operators |-> Operators(getOperators(db, m.stakingModuleAddress, Absent)),
                                  module    |-> StakingModuleResponse(m)] : m \in db.modules},
                       meta |-> ELBlockSnapshot(db)]
<1>1. GetAllOperators(db) = Unless(RefuseAll(db, {}), Ok(content))
  BY AllModules DEF GetAllOperators
<1>2. content.data = {[operators |-> OperatorsShown(m, Absent), module |-> StakingModuleResponse(m)] :
                        m \in db.modules}
  BY DEF OperatorsShown
<1> HIDE DEF content
<1>3. GetAllOperators(db) = Ok(content) BY <1>1, AllAnswer
<1> QED BY <1>2, <1>3 DEF Ok

LEMMA ModuleOperatorsAnswer ==
    ASSUME db \in Dbs, Quiet, NEW m \in db.modules
    PROVE  /\ GetModule(db, ById(m.moduleId)).body.data = StakingModuleResponse(m)
           /\ GetOperatorsByModule(db, ById(m.moduleId)).body.data =
                [operators |-> OperatorsShown(m, Absent), module |-> StakingModuleResponse(m)]
PROOF
<1> DEFINE id == ById(m.moduleId)
<1>1. /\ RefuseOne(db, id, {}) = 0
      /\ TheModule(db, id) = m
      /\ AddressOf(db, id) = m.stakingModuleAddress
  BY ModuleAnswers
<1> HIDE DEF id
<1> QED BY <1>1 DEF GetModule, GetOperatorsByModule, Unless, Ok, OperatorsShown, id

(* An operator is told by its module and index. *)
LEMMA OperatorIsTold ==
    ASSUME db \in Dbs, Quiet, NEW o \in db.operators, NEW p \in db.operators,
           o.moduleAddress = p.moduleAddress, o.index = p.index
    PROVE  o = p
PROOF
<1> DEFINE ownOf(q) == {k \in db.keys : k.moduleAddress = q.moduleAddress
                                          /\ k.operatorIndex = q.index}
<1>1. db \in Snapshots BY DEF Dbs, EmptyDb, Quiet
<1>2. ASSUME NEW q \in db.operators
      PROVE  /\ Cardinality(ownOf(q)) = q.totalSigningKeys
             /\ Cardinality({k \in ownOf(q) : k.used}) = q.usedSigningKeys
  BY <1>1, RestApiAssumption DEF RestApiAssumption
<1>3. ownOf(o) = ownOf(p) OBVIOUS
<1> HIDE DEF ownOf
<1>4. o.totalSigningKeys = p.totalSigningKeys /\ o.usedSigningKeys = p.usedSigningKeys
  BY <1>2, <1>3
<1>5. o \in RegistryOperator /\ p \in RegistryOperator BY DbFacts DEF Databases
<1> QED BY <1>4, <1>5 DEF RegistryOperator

(* GET /v1/modules/:module_id/operators/:operator_id. *)
LEMMA ModuleOperatorAnswer ==
    ASSUME db \in Dbs, Quiet, NEW m \in db.modules, NEW o \in OperatorsShown(m, Absent)
    PROVE  GetModuleOperator(db, ById(m.moduleId), o.index).body.data =
             [operator |-> o, module |-> StakingModuleResponse(m)]
PROOF
<1> DEFINE id == ById(m.moduleId)
           a  == m.stakingModuleAddress
<1>1. PICK p \in db.operators : p.moduleAddress = a /\ o = Operator(p)
  BY DEF OperatorsShown, Operators, getOperators
<1>2. p \in RegistryOperator BY DbFacts DEF Databases
<1>3. o.index = p.index /\ p.index \in Numbers BY <1>1, <1>2 DEF Operator, RegistryOperator
<1>4. BadRequest \notin {o.index}
  BY <1>3, RequestsAssumption, RestApiAssumption
  DEF RequestsAssumption, RestApiAssumption, Numbers
<1>5. ~FindFails(o.index) BY <1>3 DEF FindFails, BeyondColumn
<1>6. /\ RefuseOne(db, id, {o.index}) = 0
      /\ TheModule(db, id) = m
      /\ AddressOf(db, id) = a
  BY <1>4, ModuleAnswers
<1>7. getOperator(db, a, o.index) = {p}
  <2>1. \A q \in getOperator(db, a, o.index) : q = p
    BY <1>1, <1>3, OperatorIsTold DEF getOperator
  <2>2. p \in getOperator(db, a, o.index) BY <1>1, <1>3 DEF getOperator
  <2> QED BY <2>1, <2>2
<1> HIDE DEF id, a
<1>8. GetModuleOperator(db, id, o.index) =
        Ok([data |-> [operator |-> Operator(p), module |-> StakingModuleResponse(m)],
            meta |-> ELBlockSnapshot(db)])
  BY <1>5, <1>6, <1>7 DEF GetModuleOperator, Unless
<1> QED BY <1>1, <1>8 DEF Ok, id

(* GET /v1/modules. *)
LEMMA ModulesAnswer ==
    ASSUME Quiet
    PROVE  GetModules(db).body.data = {StakingModuleResponse(m) : m \in db.modules}
PROOF
<1> DEFINE content == [data |-> {StakingModuleResponse(m) : m \in db.modules},
                       elBlockSnapshot |-> ELBlockSnapshot(db)]
<1>1. GetModules(db) = Unless(RefuseAll(db, {}), Ok(content)) BY AllModules DEF GetModules
<1> HIDE DEF content
<1>2. GetModules(db) = Ok(content) BY <1>1, AllAnswer
<1> QED BY <1>2 DEF Ok, content

(* GET /v2/modules/operators/keys: its records, by kind. *)
ModuleRecord(m) ==
    [stakingModule |-> StakingModuleResponse(m), key |-> Null, operator |-> Null,
     meta |-> IF m = (CHOOSE n \in db.modules : TRUE) THEN db.block ELSE Null]
KeyRecord(k) == [stakingModule |-> Null, key |-> k, operator |-> Null, meta |-> Null]
OperatorRecord(o) == [stakingModule |-> Null, key |-> Null, operator |-> o, meta |-> Null]

Records(m) ==
    {ModuleRecord(m)} \cup {KeyRecord(k) : k \in KeysShown(m, NoFilter)}
      \cup {OperatorRecord(o) : o \in OperatorsShown(m, Absent)}

LEMMA StreamAnswer ==
    ASSUME Quiet
    PROVE  ModulesOperatorsKeys(db).body.data = UNION {Records(m) : m \in db.modules}
PROOF
<1> DEFINE first == CHOOSE n \in db.modules : TRUE
           Rows(m) ==
             {[StreamRecord("stakingModule", StakingModuleResponse(m)) EXCEPT
                 !.meta = IF m = first THEN ELBlockSnapshot(db) ELSE Null]}
             \cup {StreamRecord("key", k) :
                     k \in Keys(getKeysStream(db, m.stakingModuleAddress, NoFilter))}
             \cup {StreamRecord("operator", o) :
                     o \in Operators(getOperatorsStream(db, m.stakingModuleAddress))}
           data == UNION {Rows(m) : m \in db.modules}
<1>1. ModulesOperatorsKeys(db) = IF RefuseAll(db, {}) # 0 THEN Cut ELSE Ok([data |-> data])
  BY AllModules DEF ModulesOperatorsKeys
<1>2. RefuseAll(db, {}) = 0 BY DEF RefuseAll, Quiet
<1>3. ModulesOperatorsKeys(db).body.data = data BY <1>1, <1>2 DEF Ok
<1>4. ASSUME NEW m PROVE Rows(m) = Records(m)
  <2>1. [StreamRecord("stakingModule", StakingModuleResponse(m)) EXCEPT
           !.meta = IF m = first THEN ELBlockSnapshot(db) ELSE Null] = ModuleRecord(m)
    <3>1. \A response : StreamRecord("stakingModule", response) =
            [stakingModule |-> response, key |-> Null, operator |-> Null, meta |-> Null]
      BY DEF StreamRecord
    <3>2. ASSUME NEW response, NEW block
          PROVE  [StreamRecord("stakingModule", response) EXCEPT !.meta = block] =
                   [stakingModule |-> response, key |-> Null, operator |-> Null, meta |-> block]
      BY <3>1
    <3> QED BY <3>2 DEF ModuleRecord, ELBlockSnapshot
  <2>2. \A k : StreamRecord("key", k) = KeyRecord(k) BY DEF StreamRecord, KeyRecord
  <2>3. \A o : StreamRecord("operator", o) = OperatorRecord(o)
    BY DEF StreamRecord, OperatorRecord
  <2>4. getOperatorsStream(db, m.stakingModuleAddress) =
          getOperators(db, m.stakingModuleAddress, Absent)
    BY DEF getOperatorsStream, getOperators
  <2> QED BY <2>1, <2>2, <2>3, <2>4 DEF Records, KeysShown, OperatorsShown
<1> HIDE DEF Rows
<1> QED BY <1>3, <1>4

(* Which values the records hold of each kind. *)
LEMMA RecordsSplit ==
    ASSUME db \in Dbs, Quiet, NEW records, records = UNION {Records(m) : m \in db.modules}
    PROVE  /\ {r.key : r \in records} \ {Null} = UNION {KeysShown(m, NoFilter) : m \in db.modules}
           /\ {r.stakingModule : r \in records} \ {Null} =
                {StakingModuleResponse(m) : m \in db.modules}
           /\ {r.operator : r \in records} \ {Null} =
                UNION {OperatorsShown(m, Absent) : m \in db.modules}
           /\ {r.meta : r \in records} \ {Null} =
                IF db.modules = {} THEN {} ELSE {db.block}
PROOF
<1>1. /\ \A m \in db.modules : Null # StakingModuleResponse(m)
      /\ \A m \in db.modules : \A k \in KeysShown(m, NoFilter) : Null # k
      /\ \A m \in db.modules : \A o \in OperatorsShown(m, Absent) : Null # o
      /\ Null # db.block
  <2>1. /\ \A m \in db.modules : StakingModuleResponse(m) \in ModuleDto
        /\ \A m : KeysShown(m, NoFilter) \subseteq KeyDto
        /\ \A m : OperatorsShown(m, Absent) \subseteq OperatorDto
    BY EntitiesFit, RowsFit DEF KeysShown, OperatorsShown
  <2>2. db.block \in Blocks BY DbFacts DEF Quiet
  <2> QED BY <2>1, <2>2, NullAssumption, RestApiAssumption DEF NullAssumption, RestApiAssumption
<1>2. ASSUME NEW r
      PROVE  r \in records <=>
               \E m \in db.modules : \/ r = ModuleRecord(m)
                                     \/ \E k \in KeysShown(m, NoFilter) : r = KeyRecord(k)
                                     \/ \E o \in OperatorsShown(m, Absent) : r = OperatorRecord(o)
  BY DEF Records
<1>3. /\ \A m : /\ ModuleRecord(m).stakingModule = StakingModuleResponse(m)
                /\ ModuleRecord(m).key = Null
                /\ ModuleRecord(m).operator = Null
                /\ ModuleRecord(m).meta =
                     IF m = (CHOOSE n \in db.modules : TRUE) THEN db.block ELSE Null
      /\ \A k : /\ KeyRecord(k).stakingModule = Null
                /\ KeyRecord(k).key = k
                /\ KeyRecord(k).operator = Null
                /\ KeyRecord(k).meta = Null
      /\ \A o : /\ OperatorRecord(o).stakingModule = Null
                /\ OperatorRecord(o).key = Null
                /\ OperatorRecord(o).operator = o
                /\ OperatorRecord(o).meta = Null
  BY DEF ModuleRecord, KeyRecord, OperatorRecord
<1>4. {r.key : r \in records} \ {Null} = UNION {KeysShown(m, NoFilter) : m \in db.modules}
  <2>1. ASSUME NEW r \in records, r.key # Null
        PROVE  r.key \in UNION {KeysShown(m, NoFilter) : m \in db.modules}
    BY <1>2, <1>3, <2>1
  <2>2. ASSUME NEW m \in db.modules, NEW k \in KeysShown(m, NoFilter)
        PROVE  k # Null /\ \E r \in records : r.key = k
    BY <1>1, <1>2, <1>3
  <2> QED BY <2>1, <2>2
<1>5. {r.stakingModule : r \in records} \ {Null} = {StakingModuleResponse(m) : m \in db.modules}
  <2>1. ASSUME NEW r \in records, r.stakingModule # Null
        PROVE  \E m \in db.modules : r.stakingModule = StakingModuleResponse(m)
    BY <1>2, <1>3, <2>1
  <2>2. ASSUME NEW m \in db.modules
        PROVE  /\ StakingModuleResponse(m) # Null
               /\ \E r \in records : r.stakingModule = StakingModuleResponse(m)
    BY <1>1, <1>2, <1>3
  <2> QED BY <2>1, <2>2
<1>6. {r.operator : r \in records} \ {Null} = UNION {OperatorsShown(m, Absent) : m \in db.modules}
  <2>1. ASSUME NEW r \in records, r.operator # Null
        PROVE  r.operator \in UNION {OperatorsShown(m, Absent) : m \in db.modules}
    BY <1>2, <1>3, <2>1
  <2>2. ASSUME NEW m \in db.modules, NEW o \in OperatorsShown(m, Absent)
        PROVE  o # Null /\ \E r \in records : r.operator = o
    BY <1>1, <1>2, <1>3
  <2> QED BY <2>1, <2>2
<1>7. {r.meta : r \in records} \ {Null} = IF db.modules = {} THEN {} ELSE {db.block}
  <2>1. ASSUME NEW r \in records, r.meta # Null PROVE r.meta = db.block /\ db.modules # {}
    BY <1>2, <1>3, <2>1
  <2>2. ASSUME db.modules # {} PROVE \E r \in records : r.meta = db.block
    <3>1. (CHOOSE n \in db.modules : TRUE) \in db.modules BY <2>2
    <3> QED BY <1>2, <1>3, <3>1
  <2> QED BY <1>1, <2>1, <2>2
<1> QED BY <1>4, <1>5, <1>6, <1>7

(* Whether by `find` or by stream, for all modules or for one: the rows are *)
(* the same.                                                                *)
LEMMA RowsAlwaysAgree ==
    ASSUME db \in Dbs
    PROVE  RowsAgree
PROOF
<1>1. ASSUME Quiet, NEW f \in Filters
      PROVE  LET keys    == GetKeys(db, Absent, f)
                 grouped == GetGroupedByModuleKeys(db, f)
             IN  /\ InColumn(f) => Whole(keys) /\ Whole(grouped)
                 /\ Whole(keys) /\ Whole(grouped) =>
                      /\ keys.body.data = UNION {g.keys : g \in grouped.body.data}
                      /\ \A g \in grouped.body.data :
                           /\ GetModuleKeys(db, ById(g.module.id), f).body.data = g
                           /\ GetOperatorsKeys(db, ById(g.module.id), f).body.data.keys = g.keys
  <2> DEFINE keys    == GetKeys(db, Absent, f)
             grouped == GetGroupedByModuleKeys(db, f)
  <2>1. Clean(f) BY FiltersAreClean
  <2>2. InColumn(f) => Whole(keys) /\ Whole(grouped)
    BY <1>1, <2>1, KeysAnswer, GroupedAnswer
  <2>3. ASSUME Whole(keys), Whole(grouped)
        PROVE  /\ keys.body.data = UNION {g.keys : g \in grouped.body.data}
               /\ \A g \in grouped.body.data :
                    /\ GetModuleKeys(db, ById(g.module.id), f).body.data = g
                    /\ GetOperatorsKeys(db, ById(g.module.id), f).body.data.keys = g.keys
    <3>1. keys.body.data = UNION {KeysShown(m, f) : m \in db.modules}
      BY <1>1, <2>1, <2>3, KeysAnswer
    <3>2. grouped.body.data =
            {[keys |-> KeysShown(m, f), module |-> StakingModuleResponse(m)] : m \in db.modules}
      BY <1>1, <2>1, <2>3, GroupedAnswer
    <3>3. db.modules = {} \/ InColumn(f) BY <1>1, <2>1, <2>3, KeysAnswer
    <3> HIDE DEF keys, grouped
    <3>4. keys.body.data = UNION {g.keys : g \in grouped.body.data}
      <4>1. \A g \in grouped.body.data : \E m \in db.modules : g.keys = KeysShown(m, f)
        BY <3>2
      <4>2. \A m \in db.modules : \E g \in grouped.body.data : g.keys = KeysShown(m, f)
        <5>1. ASSUME NEW m \in db.modules
              PROVE  \E g \in grouped.body.data : g.keys = KeysShown(m, f)
          <6> DEFINE g == [keys |-> KeysShown(m, f), module |-> StakingModuleResponse(m)]
          <6>1. g \in grouped.body.data BY <3>2
          <6> QED BY <6>1
        <5> QED BY <5>1
      <4> QED BY <3>1, <4>1, <4>2
    <3>5. ASSUME NEW g \in grouped.body.data
          PROVE  /\ GetModuleKeys(db, ById(g.module.id), f).body.data = g
                 /\ GetOperatorsKeys(db, ById(g.module.id), f).body.data.keys = g.keys
      <4>1. PICK m \in db.modules :
              g = [keys |-> KeysShown(m, f), module |-> StakingModuleResponse(m)]
        BY <3>2
      <4>2. g.module.id = m.moduleId /\ g.keys = KeysShown(m, f)
        BY <4>1 DEF StakingModuleResponse
      <4>3. InColumn(f) BY <3>3
      <4>4. GetModuleKeys(db, ById(m.moduleId), f).body.data = g
        BY <1>1, <2>1, <4>1, <4>3, ModuleKeysAnswer
      <4>5. GetOperatorsKeys(db, ById(m.moduleId), f).body.data.keys = KeysShown(m, f)
        <5>1. GetOperatorsKeys(db, ById(m.moduleId), f).body.data =
                [operators |-> OperatorsShown(m, f.operatorIndex), keys |-> KeysShown(m, f),
                 module |-> StakingModuleResponse(m)]
          BY <1>1, <2>1, <4>3, OperatorsKeysShown
        <5> QED BY <5>1
      <4> QED BY <4>2, <4>4, <4>5
    <3> QED BY <3>4, <3>5
  <2> QED BY <2>2, <2>3
<1>2. ASSUME Quiet, NEW g \in GetAllOperators(db).body.data
      PROVE  /\ GetModule(db, ById(g.module.id)).body.data = g.module
             /\ GetOperatorsByModule(db, ById(g.module.id)).body.data = g
             /\ GetOperatorsKeys(db, ById(g.module.id), NoFilter).body.data.operators = g.operators
             /\ \A o \in g.operators :
                  GetModuleOperator(db, ById(g.module.id), o.index).body.data =
                    [operator |-> o, module |-> g.module]
  <2>1. PICK m \in db.modules :
          g = [operators |-> OperatorsShown(m, Absent), module |-> StakingModuleResponse(m)]
    BY <1>2, AllOperatorsAnswer
  <2>2. /\ g.module = StakingModuleResponse(m)
        /\ g.module.id = m.moduleId
        /\ g.operators = OperatorsShown(m, Absent)
    BY <2>1 DEF StakingModuleResponse
  <2>3. /\ GetModule(db, ById(m.moduleId)).body.data = g.module
        /\ GetOperatorsByModule(db, ById(m.moduleId)).body.data = g
    BY <1>2, <2>1, <2>2, ModuleOperatorsAnswer
  <2>4. GetOperatorsKeys(db, ById(m.moduleId), NoFilter).body.data.operators = g.operators
    <3>1. NoFilter.operatorIndex = Absent BY DEF NoFilter
    <3>2. GetOperatorsKeys(db, ById(m.moduleId), NoFilter).body.data =
            [operators |-> OperatorsShown(m, NoFilter.operatorIndex),
             keys |-> KeysShown(m, NoFilter), module |-> StakingModuleResponse(m)]
      BY <1>2, FiltersAreClean, OperatorsKeysShown
    <3> QED BY <2>2, <3>1, <3>2
  <2>5. \A o \in g.operators : GetModuleOperator(db, ById(m.moduleId), o.index).body.data =
                                 [operator |-> o, module |-> g.module]
    BY <1>2, <2>2, ModuleOperatorAnswer
  <2> QED BY <2>2, <2>3, <2>4, <2>5
<1>3. ASSUME Quiet
      PROVE  LET records == ModulesOperatorsKeys(db).body.data
                 Sent(field) == {r[field] : r \in records} \ {Null}
             IN  /\ Sent("key") = GetKeys(db, Absent, NoFilter).body.data
                 /\ Sent("stakingModule") = GetModules(db).body.data
                 /\ Sent("operator") = UNION {g.operators : g \in GetAllOperators(db).body.data}
                 /\ Sent("meta") = IF db.modules = {} THEN {} ELSE {db.block}
  <2> DEFINE records == ModulesOperatorsKeys(db).body.data
  <2>1. records = UNION {Records(m) : m \in db.modules} BY <1>3, StreamAnswer
  <2> HIDE DEF records
  <2>2. /\ {r.key : r \in records} \ {Null} = UNION {KeysShown(m, NoFilter) : m \in db.modules}
        /\ {r.stakingModule : r \in records} \ {Null} =
             {StakingModuleResponse(m) : m \in db.modules}
        /\ {r.operator : r \in records} \ {Null} =
             UNION {OperatorsShown(m, Absent) : m \in db.modules}
        /\ {r.meta : r \in records} \ {Null} = IF db.modules = {} THEN {} ELSE {db.block}
    BY <1>3, <2>1, RecordsSplit
  <2>3. GetKeys(db, Absent, NoFilter).body.data = UNION {KeysShown(m, NoFilter) : m \in db.modules}
    BY <1>3, FiltersAreClean, KeysAnswer
  <2>4. GetModules(db).body.data = {StakingModuleResponse(m) : m \in db.modules}
    BY <1>3, ModulesAnswer
  <2>5. UNION {g.operators : g \in GetAllOperators(db).body.data} =
          UNION {OperatorsShown(m, Absent) : m \in db.modules}
    <3>1. GetAllOperators(db).body.data =
            {[operators |-> OperatorsShown(m, Absent), module |-> StakingModuleResponse(m)] :
               m \in db.modules}
      BY <1>3, AllOperatorsAnswer
    <3> DEFINE answer == GetAllOperators(db).body.data
    <3>2. \A g \in answer : \E m \in db.modules : g.operators = OperatorsShown(m, Absent)
      BY <3>1
    <3>3. ASSUME NEW m \in db.modules
          PROVE  \E g \in answer : g.operators = OperatorsShown(m, Absent)
      <4> DEFINE g == [operators |-> OperatorsShown(m, Absent),
                       module |-> StakingModuleResponse(m)]
      <4>1. g \in answer BY <3>1
      <4> QED BY <4>1
    <3> HIDE DEF answer
    <3>4. UNION {g.operators : g \in answer} = UNION {OperatorsShown(m, Absent) : m \in db.modules}
      BY <3>2, <3>3
    <3> QED BY <3>4 DEF answer
  <2> QED BY <2>2, <2>3, <2>4, <2>5 DEF records
<1> QED BY <1>1, <1>2, <1>3 DEF RowsAgree

-----------------------------------------------------------------------------
(* What a client counts. *)

(* A one-to-one picture of a finite set has as many elements. *)
LEMMA PictureHasAsMany ==
    ASSUME NEW S, IsFiniteSet(S), \A k, l \in S : Key(k) = Key(l) => k = l
    PROVE  Cardinality(Keys(S)) = Cardinality(S)
PROOF
<1> DEFINE T == Keys(S)
           picture == [k \in S |-> Key(k)]
<1>1. \A x : x \in T <=> \E k \in S : x = Key(k) BY DEF Keys
<1>2. picture \in [S -> T] BY <1>1
<1>3. \A k, l \in S : picture[k] = picture[l] => k = l OBVIOUS
<1>4. \A x \in T : \E k \in S : picture[k] = x BY <1>1
<1> HIDE DEF picture, T
<1>5. picture \in Bijection(S, T)
  BY <1>2, <1>3, <1>4 DEF Bijection, Injection, Surjection, IsInjective
<1>6. ExistsBijection(S, T) BY <1>5 DEF ExistsBijection
<1> QED BY <1>6, FS_Bijection DEF T

(* The keys of an operator, and what a filter by use leaves of them. *)
Own(o) == {k \in db.keys : k.moduleAddress = o.moduleAddress /\ k.operatorIndex = o.index}
OwnBy(o, u) == {k \in Own(o) : u # Absent => k.used = u}

LEMMA OwnCounts ==
    ASSUME db \in Dbs, Quiet, NEW o \in db.operators, NEW u \in {TRUE, FALSE, Absent}
    PROVE  /\ IsFiniteSet(OwnBy(o, u))
           /\ Cardinality(OwnBy(o, u)) =
                IF u = Absent THEN o.totalSigningKeys
                ELSE IF u THEN o.usedSigningKeys
                ELSE o.totalSigningKeys - o.usedSigningKeys
PROOF
<1> DEFINE Used == {k \in Own(o) : k.used}
<1>1. db \in Snapshots BY DEF Dbs, EmptyDb, Quiet
<1>2. Cardinality(Own(o)) = o.totalSigningKeys /\ Cardinality(Used) = o.usedSigningKeys
  BY <1>1, RestApiAssumption DEF RestApiAssumption, Own
<1>3. IsFiniteSet(db.keys) BY <1>1, RestApiAssumption DEF RestApiAssumption
<1>4. IsFiniteSet(Own(o)) BY <1>3, FS_Subset DEF Own
<1>5. \A k \in Own(o) : k.used \in BOOLEAN
  <2>1. \A k \in db.keys : k \in RegistryKey BY DbFacts DEF Databases
  <2> QED BY <2>1 DEF Own, RegistryKey
<1>6. Absent \notin BOOLEAN BY RequestsAssumption DEF RequestsAssumption
<1>7. Used \subseteq Own(o) OBVIOUS
<1>8. CASE u = Absent
  <2>1. OwnBy(o, u) = Own(o) BY <1>8 DEF OwnBy
  <2> QED BY <1>2, <1>4, <1>8, <2>1
<1>9. CASE u = TRUE
  <2>1. OwnBy(o, u) = Used BY <1>5, <1>6, <1>9 DEF OwnBy
  <2>2. IsFiniteSet(Used) BY <1>4, <1>7, FS_Subset
  <2>3. u # Absent BY <1>6, <1>9
  <2> HIDE DEF Used
  <2> QED BY <1>2, <1>9, <2>1, <2>2, <2>3
<1>10. CASE u = FALSE
  <2>1. OwnBy(o, u) = Own(o) \ Used BY <1>5, <1>6, <1>10 DEF OwnBy
  <2>2. Own(o) \cap Used = Used BY <1>7
  <2> HIDE DEF Used
  <2>3. /\ IsFiniteSet(Own(o) \ Used)
        /\ Cardinality(Own(o) \ Used) = Cardinality(Own(o)) - Cardinality(Own(o) \cap Used)
    BY <1>4, FS_Difference
  <2>4. u # Absent BY <1>6, <1>10
  <2> QED BY <1>2, <1>10, <2>1, <2>2, <2>3, <2>4
<1> QED BY Zenon, <1>8, <1>9, <1>10

(* A client that counts gets what the operators say, whatever the filter. *)
LEMMA CountsAlwaysKept ==
    ASSUME db \in Dbs
    PROVE  CountsAreKept
PROOF
<1>1. ASSUME Quiet, NEW m \in db.modules, NEW f \in Filters,
             Whole(GetOperatorsKeys(db, ById(m.moduleId), f))
      PROVE  LET data == GetOperatorsKeys(db, ById(m.moduleId), f).body.data
                 Count(o) == Cardinality({k \in data.keys : k.operatorIndex = o.index})
             IN  /\ \A k \in data.keys : \E o \in data.operators : o.index = k.operatorIndex
                 /\ \A o \in data.operators :
                      Count(o) = IF f.used = Absent THEN o.totalSigningKeys
                                 ELSE IF f.used THEN o.usedSigningKeys
                                 ELSE o.totalSigningKeys - o.usedSigningKeys
  <2> DEFINE data == GetOperatorsKeys(db, ById(m.moduleId), f).body.data
             a    == m.stakingModuleAddress
             i    == f.operatorIndex
  <2>1. Clean(f) BY FiltersAreClean
  <2>2. data.operators = OperatorsShown(m, i) /\ data.keys = KeysShown(m, f)
    <3>1. data = [operators |-> OperatorsShown(m, i), keys |-> KeysShown(m, f),
                  module |-> StakingModuleResponse(m)]
      BY <1>1, <2>1, OperatorsKeysShown
    <3> HIDE DEF data
    <3> QED BY <3>1
  <2> HIDE DEF data
  <2>3. db \in Snapshots BY <1>1 DEF Dbs, EmptyDb, Quiet
  <2>4. /\ \A k \in db.keys : k \in RegistryKey
        /\ \A o \in db.operators : o \in RegistryOperator
    BY DbFacts DEF Databases
  <2>5. /\ \A k \in db.keys : /\ Key(k).operatorIndex = k.operatorIndex
                              /\ Key(k).used = k.used
        /\ \A o \in db.operators : /\ Operator(o).index = o.index
                                   /\ Operator(o).totalSigningKeys = o.totalSigningKeys
                                   /\ Operator(o).usedSigningKeys = o.usedSigningKeys
    BY <2>4 DEF Key, Operator, RegistryKey, RegistryOperator
  <2>6. ASSUME NEW x \in data.keys PROVE \E y \in data.operators : y.index = x.operatorIndex
    <3>1. PICK k \in getKeysStream(db, a, f) : x = Key(k) BY <2>2 DEF KeysShown, Keys
    <3>2. /\ k \in db.keys
          /\ k.moduleAddress = a
          /\ i # Absent => k.operatorIndex = i
      BY DEF getKeysStream, KeysOf
    <3>3. PICK o \in db.operators : o.moduleAddress = k.moduleAddress /\ o.index = k.operatorIndex
      BY <2>3, <3>2, RestApiAssumption DEF RestApiAssumption
    <3>4. o \in getOperators(db, a, i) BY <3>2, <3>3 DEF getOperators
    <3>5. Operator(o) \in data.operators BY <2>2, <3>4 DEF OperatorsShown, Operators
    <3>6. Operator(o).index = x.operatorIndex BY <2>5, <3>1, <3>2, <3>3
    <3> QED BY <3>5, <3>6
  <2>7. ASSUME NEW y \in data.operators
        PROVE  Cardinality({x \in data.keys : x.operatorIndex = y.index}) =
                 IF f.used = Absent THEN y.totalSigningKeys
                 ELSE IF f.used THEN y.usedSigningKeys
                 ELSE y.totalSigningKeys - y.usedSigningKeys
    <3>1. PICK o \in getOperators(db, a, i) : y = Operator(o)
      BY <2>2 DEF OperatorsShown, Operators
    <3>2. /\ o \in db.operators
          /\ o.moduleAddress = a
          /\ i # Absent => o.index = i
      BY DEF getOperators
    <3>3. /\ y.index = o.index
          /\ y.totalSigningKeys = o.totalSigningKeys
          /\ y.usedSigningKeys = o.usedSigningKeys
      BY <2>5, <3>1, <3>2
    <3>4. \A k : k \in OwnBy(o, f.used) <=>
                   k \in getKeysStream(db, a, f) /\ k.operatorIndex = o.index
      BY <3>2 DEF OwnBy, Own, getKeysStream, KeysOf
    <3>5. {x \in data.keys : x.operatorIndex = y.index} = Keys(OwnBy(o, f.used))
      <4>1. ASSUME NEW x \in data.keys, x.operatorIndex = y.index
            PROVE  x \in Keys(OwnBy(o, f.used))
        <5>1. PICK k \in getKeysStream(db, a, f) : x = Key(k) BY <2>2 DEF KeysShown, Keys
        <5>2. k \in db.keys BY DEF getKeysStream, KeysOf
        <5>3. k \in OwnBy(o, f.used) BY <2>5, <3>3, <3>4, <4>1, <5>1, <5>2
        <5> QED BY <5>1, <5>3 DEF Keys
      <4>2. ASSUME NEW x \in Keys(OwnBy(o, f.used))
            PROVE  x \in data.keys /\ x.operatorIndex = y.index
        <5>1. PICK k \in OwnBy(o, f.used) : x = Key(k) BY DEF Keys
        <5>2. k \in getKeysStream(db, a, f) /\ k.operatorIndex = o.index BY <3>4
        <5>3. k \in db.keys BY <5>2 DEF getKeysStream, KeysOf
        <5>4. x \in data.keys BY <2>2, <5>1, <5>2 DEF KeysShown, Keys
        <5> QED BY <2>5, <3>3, <5>1, <5>2, <5>3, <5>4
      <4> QED BY <4>1, <4>2
    <3>6. \A k, l \in OwnBy(o, f.used) : Key(k) = Key(l) => k = l
      <4>1. ASSUME NEW k \in OwnBy(o, f.used), NEW l \in OwnBy(o, f.used), Key(k) = Key(l)
            PROVE  k = l
        <5>1. k \in db.keys /\ l \in db.keys /\ k.moduleAddress = l.moduleAddress
          BY DEF OwnBy, Own
        <5>2. k \in RegistryKey /\ l \in RegistryKey BY <2>4, <5>1
        <5>3. /\ Key(k).operatorIndex = k.operatorIndex /\ Key(l).operatorIndex = l.operatorIndex
              /\ Key(k).index = k.index /\ Key(l).index = l.index
              /\ Key(k).key = k.key /\ Key(l).key = l.key
              /\ Key(k).used = k.used /\ Key(l).used = l.used
              /\ Key(k).vetted = k.vetted /\ Key(l).vetted = l.vetted
          BY <5>2 DEF Key, RegistryKey
        <5>4. /\ k.operatorIndex = l.operatorIndex /\ k.index = l.index /\ k.key = l.key
              /\ k.used = l.used /\ k.vetted = l.vetted
          BY <4>1, <5>3
        <5> QED BY <5>1, <5>2, <5>4 DEF RegistryKey
      <4> QED BY <4>1
    <3>7. f.used \in {TRUE, FALSE, Absent} BY <2>1 DEF Clean
    <3>8. /\ IsFiniteSet(OwnBy(o, f.used))
          /\ Cardinality(OwnBy(o, f.used)) =
               IF f.used = Absent THEN o.totalSigningKeys
               ELSE IF f.used THEN o.usedSigningKeys
               ELSE o.totalSigningKeys - o.usedSigningKeys
      BY <1>1, <3>2, <3>7, OwnCounts
    <3>9. Cardinality(Keys(OwnBy(o, f.used))) = Cardinality(OwnBy(o, f.used))
      BY <3>6, <3>8, PictureHasAsMany
    <3> QED BY <3>3, <3>5, <3>8, <3>9
  <2> QED BY <2>6, <2>7 DEF data
<1> QED BY <1>1 DEF CountsAreKept

-----------------------------------------------------------------------------
(* Lookups by pubkey. *)

FoundIn(m, texts) == Keys(getKeysByPubKeys(db, m.stakingModuleAddress, texts))
Found(texts)      == UNION {FoundIn(m, texts) : m \in db.modules}

(* POST /v1/keys/find and POST /v1/modules/:module_id/keys/find. *)
LEMMA FindAnswer ==
    ASSUME Quiet, NEW texts, texts # BadRequest
    PROVE  /\ Whole(GetByPubkeys(db, texts))
           /\ GetByPubkeys(db, texts).body.data = Found(texts)
PROOF
<1> DEFINE data == UNION {Keys(getKeysByPubKeys(db, m.stakingModuleAddress, texts)) :
                            m \in db.modules}
           content == [data |-> data, meta |-> ELBlockSnapshot(db)]
<1>1. GetByPubkeys(db, texts) = Unless(RefuseAll(db, {texts}), Ok(content))
  BY AllModules DEF GetByPubkeys
<1>2. content.data = Found(texts) BY DEF Found, FoundIn
<1> HIDE DEF content
<1>3. GetByPubkeys(db, texts) = Ok(content) BY <1>1, AllAnswer
<1> QED BY <1>2, <1>3 DEF Ok, Whole

LEMMA ModuleFindAnswer ==
    ASSUME db \in Dbs, Quiet, NEW m \in db.modules, NEW texts, texts # BadRequest
    PROVE  GetModuleKeysByPubKeys(db, ById(m.moduleId), texts).body.data.keys = FoundIn(m, texts)
PROOF
<1> DEFINE id == ById(m.moduleId)
<1>1. /\ RefuseOne(db, id, {texts}) = 0
      /\ AddressOf(db, id) = m.stakingModuleAddress
  BY ModuleAnswers
<1> HIDE DEF id
<1> QED BY <1>1 DEF GetModuleKeysByPubKeys, Unless, Ok, FoundIn, id

(* GET /v1/keys/:pubkey looks for the text in lower case. *)
LEMMA PubkeyAnswer ==
    ASSUME Quiet, NEW t, t # BadRequest
    PROVE  /\ Found({toLocaleLowerCase(t)}) = {} => GetByPubkey(db, t).status = 404
           /\ Found({toLocaleLowerCase(t)}) # {} =>
                /\ GetByPubkey(db, t).status = 200
                /\ GetByPubkey(db, t).body.data = Found({toLocaleLowerCase(t)})
PROOF
<1> DEFINE byOne == UNION {Keys(getKeysByPubkey(db, m.stakingModuleAddress, t)) :
                             m \in db.modules}
           answer == IF byOne = {} THEN Refuse(404)
                     ELSE Ok([data |-> byOne, meta |-> ELBlockSnapshot(db)])
<1>1. GetByPubkey(db, t) = Unless(RefuseAll(db, {t}), answer) BY AllModules DEF GetByPubkey
<1> HIDE DEF answer
<1>2. GetByPubkey(db, t) = answer BY <1>1, AllAnswer
<1> USE DEF answer
<1>3. byOne = Found({toLocaleLowerCase(t)})
  <2>1. \A a : getKeysByPubkey(db, a, t) = getKeysByPubKeys(db, a, {toLocaleLowerCase(t)})
    BY DEF getKeysByPubkey, getKeysByPubKeys
  <2> QED BY <2>1 DEF Found, FoundIn
<1> HIDE DEF byOne
<1> QED BY <1>2, <1>3 DEF Refuse, Ok

(* Keys of two modules are two keys, also when they have one pubkey. *)
LEMMA ModulesShareNoKey ==
    ASSUME db \in Dbs, Quiet, NEW m \in db.modules, NEW n \in db.modules, m # n, NEW texts
    PROVE  FoundIn(m, texts) \cap FoundIn(n, texts) = {}
PROOF
<1>1. db \in Snapshots BY DEF Dbs, EmptyDb, Quiet
<1>2. m.stakingModuleAddress # n.stakingModuleAddress
  BY <1>1, RestApiAssumption DEF RestApiAssumption
<1>3. ASSUME NEW x, x \in FoundIn(m, texts), x \in FoundIn(n, texts) PROVE FALSE
  <2>1. PICK k \in db.keys : k.moduleAddress = m.stakingModuleAddress /\ x = Key(k)
    BY <1>3 DEF FoundIn, Keys, getKeysByPubKeys, KeysOf
  <2>2. PICK l \in db.keys : l.moduleAddress = n.stakingModuleAddress /\ x = Key(l)
    BY <1>3 DEF FoundIn, Keys, getKeysByPubKeys, KeysOf
  <2>3. k \in RegistryKey /\ l \in RegistryKey BY DbFacts DEF Databases
  <2>4. /\ x.moduleAddress = Checksum(k.moduleAddress)
        /\ x.moduleAddress = Checksum(l.moduleAddress)
    BY <2>1, <2>2, <2>3 DEF Key, RegistryKey, addressToChecksum
  <2>5. \A s \in StoredAddresses : s = Plain(Checksum(s).address)
    BY DEF StoredAddresses, Plain, Checksum
  <2>6. k.moduleAddress = l.moduleAddress BY <2>3, <2>4, <2>5 DEF RegistryKey
  <2> QED BY <1>2, <2>1, <2>2, <2>6
<1> QED BY <1>3

(* However pubkeys are asked for, one by one or in a list, of all modules   *)
(* or of each, the keys found are the same.                                 *)
LEMMA LookupsAlwaysAgree ==
    ASSUME db \in Dbs
    PROVE  LookupsAgree
PROOF
<1>1. \A texts \in SUBSET PubkeyTexts : texts # BadRequest
  BY RequestsAssumption DEF RequestsAssumption
<1>2. ASSUME Quiet, NEW t \in PubkeyInputs, IsPubkey(t)
      PROVE  LET one  == GetByPubkey(db, Pubkey(t))
                 list == GetByPubkeys(db, KeysFindBody({toLocaleLowerCase(t)}))
             IN  /\ Whole(list)
                 /\ IF list.body.data = {} THEN one.status = 404
                    ELSE one.status = 200 /\ one.body.data = list.body.data
  <2> DEFINE lower == toLocaleLowerCase(t)
             found == Found({lower})
             one   == GetByPubkey(db, t)
             list  == GetByPubkeys(db, {lower})
  <2>1. t \in PubkeyTexts BY RestApiAssumption DEF RestApiAssumption
  <2>2. lower \in PubkeyTexts /\ IsPubkey(lower)
    BY <1>2, <2>1 DEF PubkeyTexts, toLocaleLowerCase, IsPubkey
  <2>3. KeysFindBody({lower}) = {lower} BY <2>2 DEF KeysFindBody
  <2>4. Pubkey(t) = t BY <1>2 DEF Pubkey
  <2>5. t # BadRequest BY <2>1, RequestsAssumption DEF RequestsAssumption
  <2>6. {lower} # BadRequest BY <1>1, <2>2
  <2>7. Whole(list) /\ list.body.data = found BY <1>2, <2>6, FindAnswer
  <2>8. /\ found = {} => one.status = 404
        /\ found # {} => one.status = 200 /\ one.body.data = found
    BY <1>2, <2>5, PubkeyAnswer
  <2> HIDE DEF found, one, list
  <2>9. IF list.body.data = {} THEN one.status = 404
        ELSE one.status = 200 /\ one.body.data = list.body.data
    BY <2>7, <2>8
  <2> QED BY <2>3, <2>4, <2>7, <2>9 DEF one, list
<1>3. ASSUME Quiet, NEW texts \in PubkeysInputs, KeysFindBody(texts) # BadRequest
      PROVE  LET found     == GetByPubkeys(db, texts).body.data
                 Module(m) == GetModuleKeysByPubKeys(db, ById(m.moduleId), texts).body.data.keys
             IN  /\ found = UNION {GetByPubkeys(db, {t}).body.data : t \in texts}
                 /\ found = UNION {Module(m) : m \in db.modules}
                 /\ \A m, n \in db.modules : m # n => Module(m) \cap Module(n) = {}
  <2> DEFINE found     == GetByPubkeys(db, texts).body.data
             Module(m) == GetModuleKeysByPubKeys(db, ById(m.moduleId), texts).body.data.keys
             One(t)    == GetByPubkeys(db, {t}).body.data
  <2>1. texts \in SUBSET PubkeyTexts BY RestApiAssumption DEF RestApiAssumption
  <2>2. texts # BadRequest /\ \A t \in texts : {t} # BadRequest BY <1>1, <2>1
  <2>3. found = Found(texts) BY <1>3, <2>2, FindAnswer
  <2>4. \A t \in texts : One(t) = Found({t})
    BY <1>3, <2>2, FindAnswer
  <2>5. \A m \in db.modules : Module(m) = FoundIn(m, texts)
    BY <1>3, <2>2, ModuleFindAnswer
  <2> HIDE DEF found, Module, One
  <2>6. found = UNION {One(t) : t \in texts}
    <3>1. ASSUME NEW m, NEW x
          PROVE  x \in FoundIn(m, texts) <=> \E t \in texts : x \in FoundIn(m, {t})
      <4>1. \A s, k : k \in getKeysByPubKeys(db, m.stakingModuleAddress, s) <=>
                        k \in KeysOf(db, m.stakingModuleAddress) /\ k.key \in s
        BY DEF getKeysByPubKeys
      <4>2. \A s : x \in FoundIn(m, s) <=>
                     \E k \in KeysOf(db, m.stakingModuleAddress) : k.key \in s /\ x = Key(k)
        BY <4>1 DEF FoundIn, Keys
      <4> QED BY <4>2
    <3>2. \A s, x : x \in Found(s) <=> \E m \in db.modules : x \in FoundIn(m, s) BY DEF Found
    <3>3. \A x : x \in Found(texts) <=> \E t \in texts : x \in Found({t}) BY <3>1, <3>2
    <3> QED BY <2>3, <2>4, <3>3
  <2>7. found = UNION {Module(m) : m \in db.modules} BY <2>3, <2>5 DEF Found
  <2>8. \A m, n \in db.modules : m # n => Module(m) \cap Module(n) = {}
    BY <1>3, <2>5, ModulesShareNoKey
  <2> QED BY <2>6, <2>7, <2>8 DEF found, Module, One
<1> QED BY <1>2, <1>3 DEF LookupsAgree

(* Whatever endpoint is asked, the rows, the counts and the lookups of a    *)
(* committed database are the same.                                         *)
THEOREM ReadsAlwaysAgree == Spec => []ReadsAgree
PROOF
<1>1. Inv => ReadsAgree
  BY RowsAlwaysAgree, CountsAlwaysKept, LookupsAlwaysAgree DEF Inv, ReadsAgree
<1> QED BY <1>1, InvariantHolds, PTL
=============================================================================
