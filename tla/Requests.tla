------------------------------ MODULE Requests ------------------------------
(****************************************************************************)
(* What a client can write in a request and what the pipes, transforms and  *)
(* validators of src/http make of it before a handler runs.                 *)
(*                                                                          *)
(* A text is a record: what it means and the form it is written in.  Only   *)
(* the forms the code tells apart are kept.                                 *)
(****************************************************************************)
EXTENDS Integers

CONSTANTS
    Addresses,      \* contract addresses; each has letters among its digits
    ZeroAddress,    \* AddressZero
    Pubkeys,        \* public keys, 48 bytes each
    Absent,         \* undefined: not given
    BadRequest      \* BadRequestException, 400

(* Forms of an address: "plain" is 0x and lower case, the others are        *)
(* checksummed, in upper case, in a case that is no checksum, with 0X, bare *)
(* of 0x, an ICAP number, blanks around it, and an ICAP number lower-cased. *)
AddressForms ==
    {"plain", "checksum", "upper", "mixed", "0X", "bare", "icap", "spaced", "xe"}

(* Forms of a number: decimal, with a leading zero, blanks around it, in    *)
(* hexadecimal, with a minus, with a fraction; no number, blanks, nothing.  *)
NumberForms ==
    {"plain", "padded", "spaced", "hex", "negative", "fraction", "word", "blank", "empty"}

AddressTexts == [address : Addresses \cup {ZeroAddress}, form : AddressForms]
NumberTexts  == [value : Nat, form : NumberForms]
PubkeyTexts  == [key : Pubkeys, form : {"plain", "upper", "short"}]

IsAddressText(t) == "address" \in DOMAIN t

Plain(a)      == [address |-> a, form |-> "plain"]
Checksum(t)   == [t EXCEPT !.form = "checksum"]

(* What a module is looked up by: a string or a number (typeof moduleId).   *)
ByAddress(t) == [by |-> "stakingModuleAddress", value |-> t]
ById(n)      == [by |-> "moduleId", value |-> n]

ASSUME RequestsAssumption ==
    /\ Absent # BadRequest
    /\ {Absent, BadRequest} \cap (AddressTexts \cup PubkeyTexts \cup BOOLEAN) = {}
    /\ Absent \notin Nat /\ BadRequest \notin Nat
    /\ \A texts \in SUBSET PubkeyTexts : texts # BadRequest
    /\ BadRequest \notin [by : {"stakingModuleAddress"}, value : AddressTexts]
    /\ BadRequest \notin [by : {"moduleId"}, value : Nat]
    /\ ZeroAddress \notin Addresses

-----------------------------------------------------------------------------
(* Library functions. *)

(* isAddress of ethers: 0x is optional, a mixed case must be the checksum,  *)
(* ICAP is accepted.                                                        *)
isAddress(t) ==
    IsAddressText(t) /\ t.form \in {"plain", "checksum", "upper", "bare", "icap"}

toLowerCase(t) ==
    [t EXCEPT !.form = IF @ \in {"checksum", "upper", "mixed", "0X"} THEN "plain"
                       ELSE IF @ = "icap" THEN "xe" ELSE @]

trim(t) == [t EXCEPT !.form = IF @ = "spaced" THEN "plain" ELSE @]

(* Number(): -1 stands for every result that is not a non-negative integer. *)
Number(t) ==
    IF t.form \in {"plain", "padded", "spaced", "hex"} THEN t.value
    ELSE IF t.form = "blank" \/ (t.form = "negative" /\ t.value = 0) THEN 0
    ELSE -1

-----------------------------------------------------------------------------
(* Mutant of ModuleIdPipe: the address is looked up as it was written.      *)
ModuleIdPipeAsWritten(t) ==
    LET value == trim(t) IN
    IF isAddress(value)
    THEN IF value.address = ZeroAddress THEN BadRequest ELSE ByAddress(value)
    ELSE IF ~IsAddressText(value) /\ value.form = "plain" THEN ById(value.value)
    ELSE BadRequest

(* :module_id: an address in lower case, or a number, or refused. *)
ModuleIdPipe(t) ==
    LET value      == trim(t)
        normalized == toLowerCase(value)
    IN
    IF isAddress(value)
    THEN IF normalized = Plain(ZeroAddress) THEN BadRequest ELSE ByAddress(normalized)
    ELSE IF ~IsAddressText(value) /\ value.form = "plain" THEN ById(value.value)
    ELSE BadRequest

(* KeyQuery.used; t is a string. *)
toBoolean(t) ==
    IF t \in {"", "absent"} THEN Absent
    ELSE IF t \in {"true", "false"} THEN t = "true"
    ELSE BadRequest

(* KeyQuery.operatorIndex. *)
OperatorIndex(t) ==
    IF t.form = "empty" THEN Absent
    ELSE IF Number(t) \in Nat THEN Number(t) ELSE BadRequest

(* OperatorId.operator_id: it must be defined. *)
OperatorId(t) ==
    IF t.form # "empty" /\ Number(t) \in Nat THEN Number(t) ELSE BadRequest

(* KeyQueryWithAddress.moduleAddresses: lower-cased first, then validated.  *)
(* No text at all: the parameter was not given.                             *)
ModuleAddresses(texts) ==
    IF texts = {} THEN Absent
    ELSE IF \A t \in texts : isAddress(toLowerCase(t))
    THEN {toLowerCase(t) : t \in texts}
    ELSE BadRequest

(* A 0x-prefixed 48-byte hex string, in any case. *)
IsPubkey(t) == t.form # "short"

(* Pubkey: the parameter of GET /v1/keys/:pubkey. *)
Pubkey(t) == IF IsPubkey(t) THEN t ELSE BadRequest

(* KeysFindBody: at least one. *)
KeysFindBody(texts) ==
    IF texts # {} /\ \A t \in texts : IsPubkey(t) THEN texts ELSE BadRequest

toLocaleLowerCase(t) == [t EXCEPT !.form = IF @ = "upper" THEN "plain" ELSE @]
=============================================================================
