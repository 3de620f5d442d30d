---------------------------- MODULE ModuleContract ----------------------------
(****************************************************************************)
(* A staking module's contract as seen at the blocks of the execution node: *)
(* what an operator and a key read from it have to say.                     *)
(****************************************************************************)
EXTENDS Integers

CONSTANTS
    Blocks,         \* blocks of the execution node
    OperatorsAt,    \* block -> operator index -> what the contract says of it
    None,           \* nothing
    KEYS_LENGTH, SIGNATURE_LENGTH   \* digits of a key and of a signature

CURATED_ONCHAIN_V1_TYPE   == "curated-onchain-v1"
COMMUNITY_ONCHAIN_V1_TYPE == "community-onchain-v1"
CURATED_ONCHAIN_V2_TYPE   == "curated-onchain-v2"
STAKING_MODULE_TYPE ==
    {CURATED_ONCHAIN_V1_TYPE, COMMUNITY_ONCHAIN_V1_TYPE, CURATED_ONCHAIN_V2_TYPE}

(* Operators of a community module have no name but a number. *)
CsmStaticName(o) == <<"CSM Operator", o>>

Indices(b) == DOMAIN OperatorsAt[b]

(* A key or signature of the contract: its digits can be told from those of *)
(* any other key, signature, operator or block.                             *)
Digits(b, o, i, part, length) == [j \in 1 .. length |-> <<b, o, i, part, j>>]

(* What the operator counted as used at the finalized block, whichever      *)
(* block that was, or 0 if it could not be told.                            *)
FinalizedValues(o) ==
    {0} \cup {OperatorsAt[b][o].deposited : b \in {c \in Blocks : o \in Indices(c)}}

ContractKey(b, o, i) ==
    [operatorIndex  |-> o, index |-> i,
     key              |-> Digits(b, o, i, "key", KEYS_LENGTH),
     depositSignature |-> Digits(b, o, i, "signature", SIGNATURE_LENGTH),
     used             |-> i < OperatorsAt[b][o].deposited,
     vetted           |-> i < OperatorsAt[b][o].vetted]

(* row is what the contract of a module of type t says of operator o at b.  *)
(* Only the first curated module tells active operators from others.        *)
IsOperator(t, b, o, row) ==
    /\ row.index = o
    /\ row.name = IF t = COMMUNITY_ONCHAIN_V1_TYPE THEN CsmStaticName(o)
                  ELSE OperatorsAt[b][o].name
    /\ row.active = (t = CURATED_ONCHAIN_V1_TYPE => OperatorsAt[b][o].active)
    /\ row.stakingLimit = OperatorsAt[b][o].vetted
    /\ row.totalSigningKeys = OperatorsAt[b][o].added
    /\ row.usedSigningKeys = OperatorsAt[b][o].deposited
    /\ row.depositableValidatorsCount = OperatorsAt[b][o].depositable
    /\ row.finalizedUsedSigningKeys \in FinalizedValues(o)
=============================================================================
