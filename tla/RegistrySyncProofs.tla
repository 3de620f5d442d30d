-------------------------- MODULE RegistrySyncProofs --------------------------
(****************************************************************************)
(* RegistrySync for every chain, every contract history, any number of      *)
(* operators and keys: the inductive invariant Inv, the safety properties   *)
(* it gives, that the update implements RegistryMirror, and what is true of *)
(* the rows that no update touches any more.                                *)
(*                                                                          *)
(* The timing assumption FinalityWaits is a hypothesis of every theorem     *)
(* that needs it; RegistrySyncSlow.cfg shows what happens without it.       *)
(****************************************************************************)
EXTENDS RegistrySync, FiniteSetTheorems, TLAPS

(* Finality never forgets: a block on the chain of the finalized block is   *)
(* on the chain of every block that descends from it.                       *)
LEMMA AncestorsTransitive ==
    ASSUME NEW c \in Blocks, NEW b \in Ancestors[c], NEW a \in Ancestors[b]
    PROVE  a \in Ancestors[c]
BY ChainAssumption DEF ChainAssumption

(* The ancestors of a block are blocks. *)
LEMMA AncestorsAreBlocks ==
    ASSUME NEW b \in Blocks
    PROVE  /\ b \in Ancestors[b]
           /\ Ancestors[b] \subseteq Blocks
BY ChainAssumption DEF ChainAssumption

(* The row of a key deposited at block f is the same at every block above.  *)
LEMMA DepositedRow ==
    ASSUME NEW b \in Blocks, NEW f \in Ancestors[b],
           NEW o \in Ops, Exists(f, o)
    PROVE  /\ Exists(b, o)
           /\ Operator[f][o].used <= Operator[b][o].used
           /\ \A i \in Slots : i < Operator[f][o].used =>
                ContractKeys(f, o)[i] = ContractKeys(b, o)[i]
PROOF
<1>1. f \in Blocks BY AncestorsAreBlocks
<1>2. /\ Operator[f][o] \in OnChainOperators
      /\ Operator[b][o] \in OnChainOperators
  BY <1>1, ContractAssumption DEF ContractAssumption
<1>3. /\ OpCount[f] \in Nat /\ OpCount[b] \in Nat
      /\ o \in Int
  BY <1>1, ContractAssumption DEF ContractAssumption, Ops
<1>4. /\ OpCount[f] <= OpCount[b]
      /\ Operator[f][o].used <= Operator[b][o].used
      /\ \A i \in Slots : i < Operator[f][o].used =>
           SigningKey[f][o][i] = SigningKey[b][o][i]
  BY ContractAssumption DEF ContractAssumption, Exists
<1>5. /\ Operator[f][o].used <= Operator[f][o].limit
      /\ Operator[f][o].limit <= Operator[f][o].total
      /\ Operator[b][o].used <= Operator[b][o].limit
      /\ Operator[b][o].limit <= Operator[b][o].total
  BY <1>1, ContractAssumption DEF ContractAssumption
<1>6. Exists(b, o) BY <1>3, <1>4 DEF Exists
<1>7. ASSUME NEW i \in Slots, i < Operator[f][o].used
      PROVE  ContractKeys(f, o)[i] = ContractKeys(b, o)[i]
  <2>1. i \in Int BY ContractAssumption DEF ContractAssumption, Slots
  <2>2. SigningKey[f][o][i] = SigningKey[b][o][i] BY <1>4, <1>7
  <2>3. /\ i < Operator[f][o].limit /\ i < Operator[f][o].total
        /\ i < Operator[b][o].used
        /\ i < Operator[b][o].limit /\ i < Operator[b][o].total
    BY <1>2, <1>4, <1>5, <1>7, <2>1 DEF OnChainOperators
  <2>. QED BY <1>7, <2>2, <2>3 DEF ContractKeys
<1>. QED BY <1>4, <1>6, <1>7

(* A safe prefix stays safe when finality advances. *)
LEMMA SafeToSkipAdvances ==
    ASSUME TypeOK, FinalizedPrefixStored,
           finalized' \in Blocks, finalized \in Ancestors[finalized'],
           UNCHANGED <<ops, keys>>
    PROVE  FinalizedPrefixStored'
PROOF
<1> SUFFICES ASSUME NEW o \in Ops, ops[o] # NoRow, ops[o].fin > 0
             PROVE  /\ Exists(finalized', o)
                    /\ ops[o].fin <= Operator[finalized'][o].used
                    /\ \A i \in Slots : i < ops[o].fin =>
                         keys[o][i] = ContractKeys(finalized', o)[i]
  BY DEF FinalizedPrefixStored, SafeToSkip, Exists, ContractKeys
<1>1. /\ Exists(finalized, o)
      /\ ops[o].fin <= Operator[finalized][o].used
      /\ \A i \in Slots : i < ops[o].fin =>
           keys[o][i] = ContractKeys(finalized, o)[i]
  BY DEF FinalizedPrefixStored, SafeToSkip
<1>2. /\ Exists(finalized', o)
      /\ Operator[finalized][o].used <= Operator[finalized'][o].used
      /\ \A i \in Slots : i < Operator[finalized][o].used =>
           ContractKeys(finalized, o)[i] = ContractKeys(finalized', o)[i]
  BY <1>1, DepositedRow
<1>3. finalized \in Blocks BY DEF TypeOK
<1>4. /\ Operator[finalized][o] \in OnChainOperators
      /\ Operator[finalized'][o] \in OnChainOperators
      /\ ops[o] \in OperatorRows
      /\ Slots \subseteq Int
  BY <1>3, ContractAssumption DEF ContractAssumption, TypeOK, Slots
<1>5. /\ Operator[finalized][o].used \in Int
      /\ Operator[finalized'][o].used \in Int
      /\ ops[o].fin \in Int
  BY <1>4, ContractAssumption
     DEF ContractAssumption, OnChainOperators, OperatorRows
<1>6. ops[o].fin <= Operator[finalized'][o].used BY <1>1, <1>2, <1>5
<1>7. \A i \in Slots : i < ops[o].fin => i < Operator[finalized][o].used
  BY <1>1, <1>4, <1>5
<1>. QED BY <1>1, <1>2, <1>6, <1>7

-----------------------------------------------------------------------------
(* Types. *)

TargetIsBlock == pc # "idle" => target \in Blocks

(* The facts about the constants every typing step needs. *)
LEMMA ContractTypes ==
    /\ NOperators \in Nat /\ NKeys \in Nat
    /\ \A b \in Blocks :
         /\ OpCount[b] \in 0..NOperators
         /\ \A o \in Ops : /\ Operator[b][o] \in OnChainOperators
                           /\ \A i \in Slots : SigningKey[b][o][i] \in Keys
BY ContractAssumption DEF ContractAssumption

(* The finalized count is a count of keys. *)
LEMMA FinalizedUsedType ==
    ASSUME finalized \in Blocks, NEW o \in Ops
    PROVE  FinalizedUsed(o) \subseteq 0..NKeys
BY ContractTypes DEF FinalizedUsed, OnChainOperators

(* A fetched operator is a row of the operators table. *)
LEMMA FetchedOperatorType ==
    ASSUME NEW b \in Blocks, NEW o \in Ops, NEW fin \in 0..NKeys
    PROVE  FetchedOperator(b, o, fin) \in OperatorRows
BY ContractTypes DEF FetchedOperator, OnChainOperators, OperatorRows

(* Merging keeps the keys table a keys table. *)
LEMMA MergedKeysType ==
    ASSUME target \in Blocks, NEW o \in Ops, NEW from, NEW curr,
           NEW stored \in [Slots -> KeyRows \cup {NoRow}]
    PROVE  MergedKeys(stored, o, from, curr) \in [Slots -> KeyRows \cup {NoRow}]
PROOF
<1> SUFFICES ASSUME NEW i \in Slots
             PROVE  [key    |-> SigningKey[target][o][i],
                     used   |-> i < Operator[target][o].used,
                     vetted |-> i < curr.limit] \in KeyRows
  BY DEF MergedKeys
<1>1. SigningKey[target][o][i] \in Keys BY ContractTypes
<1>2. /\ (i < Operator[target][o].used) \in BOOLEAN
      /\ (i < curr.limit) \in BOOLEAN
  OBVIOUS
<1>. QED BY <1>1, <1>2 DEF KeyRows

(* The empty tables have their types. *)
LEMMA TypeInit == Init => TypeOK /\ TargetIsBlock
PROOF
<1> SUFFICES ASSUME Init PROVE TypeOK /\ TargetIsBlock
  OBVIOUS
<1>1. latest \in Blocks /\ finalized \in Blocks
  BY AncestorsAreBlocks DEF Init
<1>. QED BY <1>1, ContractTypes
        DEF Init, TypeOK, TargetIsBlock, NoOperators, NoKeys, Phases

(* The locals of an update that is over have their types. *)
LEMMA ReturnType ==
    ASSUME Return
    PROVE  /\ pc' \in Phases /\ target' = NoBlock
           /\ previous' \in [Ops -> OperatorRows \cup {NoRow}]
           /\ current' \in [Ops -> OperatorRows \cup {NoRow}]
           /\ workOps' \in [Ops -> OperatorRows \cup {NoRow}]
           /\ workKeys' \in [Ops -> [Slots -> KeyRows \cup {NoRow}]]
           /\ next' \in 0..NOperators
BY ContractTypes DEF Return, NoOperators, NoKeys, Phases

(* Every step preserves the types: one case per action. *)
LEMMA TypeStep == TypeOK /\ TargetIsBlock /\ [Next]_vars => TypeOK' /\ TargetIsBlock'
PROOF
<1> SUFFICES ASSUME TypeOK, TargetIsBlock, [Next]_vars
             PROVE  TypeOK' /\ TargetIsBlock'
  OBVIOUS
<1> USE DEF TargetIsBlock, chain, tables, work
<1>1. CASE HeadMoves BY <1>1 DEF HeadMoves, TypeOK
<1>2. CASE FinalityAdvances
  <2>1. finalized' \in Blocks
    BY <1>2, AncestorsAreBlocks DEF FinalityAdvances, TypeOK
  <2>. QED BY <1>2, <2>1 DEF FinalityAdvances, TypeOK
<1>3. CASE ChooseTarget BY <1>3 DEF ChooseTarget, TypeOK, Phases
<1>4. CASE ReadStorage BY <1>4 DEF ReadStorage, TypeOK, Phases, NoOperators
<1>5. ASSUME NEW o \in Ops, FetchOperator(o)
      PROVE  TypeOK' /\ TargetIsBlock'
  <2>1. PICK fin \in FinalizedUsed(o) :
           current' = [current EXCEPT ![o] = FetchedOperator(target, o, fin)]
    BY <1>5 DEF FetchOperator
  <2>2. FetchedOperator(target, o, fin) \in OperatorRows
    BY <1>5, FinalizedUsedType, FetchedOperatorType DEF FetchOperator, TypeOK
  <2>3. current' \in [Ops -> OperatorRows \cup {NoRow}]
    BY <2>1, <2>2 DEF TypeOK
  <2>. QED BY <1>5, <2>3 DEF FetchOperator, TypeOK
<1>6. CASE SaveOperators
  <2>1. workOps' \in [Ops -> OperatorRows \cup {NoRow}]
    BY <1>6 DEF SaveOperators, TypeOK
  <2>2. workKeys' \in [Ops -> [Slots -> KeyRows \cup {NoRow}]]
    BY <1>6 DEF SaveOperators, TypeOK
  <2>. QED BY <1>6, <2>1, <2>2, ContractTypes DEF SaveOperators, TypeOK, Phases
<1>7. CASE SyncOperatorKeys
  <2>1. target \in Blocks BY <1>7 DEF SyncOperatorKeys
  <2>2. next \in Ops /\ next' \in 0..NOperators
    BY <1>7, <2>1, ContractTypes DEF SyncOperatorKeys, Exists, TypeOK, Ops
  <2>3. workKeys[next] \in [Slots -> KeyRows \cup {NoRow}]
    BY <2>2 DEF TypeOK
  <2>4. MergedKeys(workKeys[next], next, FromIndex(previous[next], current[next]),
                   current[next]) \in [Slots -> KeyRows \cup {NoRow}]
    BY <2>1, <2>2, <2>3, MergedKeysType
  <2>5. workKeys' \in [Ops -> [Slots -> KeyRows \cup {NoRow}]]
    BY <1>7, <2>4 DEF SyncOperatorKeys, TypeOK
  <2>. QED BY <1>7, <2>2, <2>5 DEF SyncOperatorKeys, TypeOK
<1>8. CASE Commit BY <1>8, ReturnType DEF Commit, TypeOK, Return
<1>9. CASE Abort BY <1>9, ReturnType DEF Abort, TypeOK, Return
<1>10. CASE UNCHANGED vars BY <1>10 DEF vars, TypeOK
<1>. QED BY <1>1, <1>2, <1>3, <1>4, <1>5, <1>6, <1>7, <1>8, <1>9, <1>10 DEF Next

(* Every reachable state is well typed, with finality assumed slow or not.  *)
THEOREM RegistrySyncTypeCorrect == Spec => []TypeOK
<1>1. TypeOK /\ TargetIsBlock /\ [Next]_vars => (TypeOK /\ TargetIsBlock)'
  BY TypeStep
<1>. QED BY <1>1, TypeInit, PTL DEF Spec

-----------------------------------------------------------------------------
(* Safety. *)

(* Under Inv, what the loop is about to skip is what the contract holds at  *)
(* the target: skipped keys are deposited at the finalized block, and the   *)
(* target descends from it.                                                 *)
LEMMA SkippedRows ==
    ASSUME Inv, pc = "syncing", next \in Ops, Exists(target, next),
           NEW i \in Slots, i < FromIndex(previous[next], current[next]),
           i < current[next].total
    PROVE  workKeys[next][i] = ContractKeys(target, next)[i]
PROOF
<1> DEFINE prev == previous[next]
<1>1. prev = ops[next] BY DEF Inv, PreviousIsCommitted
<1>2. i < UnchangedKeysMaxIndex(prev, current[next]) \/ i < 0
  BY DEF FromIndex
<1>3. i \in Int /\ ~(i < 0)
  BY ContractTypes DEF Slots
<1>4. prev # NoRow /\ i < prev.fin
  BY <1>2, <1>3 DEF UnchangedKeysMaxIndex, IsSameOperator
<1>5. prev \in OperatorRows BY <1>1, <1>4 DEF Inv, TypeOK
<1>6. prev.fin > 0 BY <1>3, <1>4, <1>5, ContractTypes DEF OperatorRows
<1>7. /\ Exists(finalized, next)
      /\ prev.fin <= Operator[finalized][next].used
      /\ keys[next][i] = ContractKeys(finalized, next)[i]
  BY <1>1, <1>4, <1>6 DEF Inv, FinalizedPrefixStored, SafeToSkip
<1>8. /\ target \in Blocks /\ finalized \in Ancestors[target]
      /\ finalized \in Blocks
  BY DEF Inv, FinalityBehindTarget, TypeOK
<1>9. i < Operator[finalized][next].used
  BY <1>3, <1>4, <1>5, <1>7, <1>8, ContractTypes DEF OperatorRows, OnChainOperators
<1>10. ContractKeys(finalized, next)[i] = ContractKeys(target, next)[i]
  BY <1>7, <1>8, <1>9, DepositedRow
<1>11. workKeys[next][i] = IF i >= current[next].total THEN NoRow ELSE keys[next][i]
  <2>1. next >= next BY ContractTypes DEF Ops
  <2>. QED BY <2>1 DEF Inv, WorkFaithful
<1>12. current[next] \in OperatorRows
  BY DEF Inv, TypeOK, WorkFaithful
<1>13. ~(i >= current[next].total)
  BY <1>3, <1>12, ContractTypes DEF OperatorRows
<1>. QED BY <1>7, <1>10, <1>11, <1>13

(* One iteration of the loop leaves the operator's keys exactly the         *)
(* contract's, skipped, fetched and removed rows together.                  *)
LEMMA SyncedOperatorKeys ==
    ASSUME Inv, SyncOperatorKeys
    PROVE  workKeys'[next] = ContractKeys(target, next)
PROOF
<1>1. pc = "syncing" /\ Exists(target, next) BY DEF SyncOperatorKeys
<1>2. target \in Blocks BY <1>1 DEF Inv, FinalityBehindTarget
<1>3. next \in Ops
  BY <1>1, <1>2, ContractTypes DEF Exists, Inv, TypeOK, Ops
<1> DEFINE curr == current[next]
           from == FromIndex(previous[next], curr)
<1>4. /\ curr \in OperatorRows
      /\ ContractPart(curr) = Operator[target][next]
  BY <1>1, <1>3 DEF Inv, TypeOK, WorkFaithful, FetchedFaithful
<1>5. Operator[target][next] = [reward |-> curr.reward, limit |-> curr.limit,
                                total |-> curr.total, used |-> curr.used]
  BY <1>4 DEF ContractPart
<1>6. curr.limit = Operator[target][next].limit /\ curr.total = Operator[target][next].total
  BY <1>5
<1>7. from \in Int
  <2>1. previous[next] \in OperatorRows \cup {NoRow} BY <1>3 DEF Inv, TypeOK
  <2>2. UnchangedKeysMaxIndex(previous[next], curr) \in Int
    BY <2>1, ContractTypes DEF UnchangedKeysMaxIndex, IsSameOperator, OperatorRows
  <2>. QED BY <2>2 DEF FromIndex
<1>8. workKeys'[next] = MergedKeys(workKeys[next], next, from, curr)
  BY <1>3 DEF SyncOperatorKeys, Inv, TypeOK
<1>9. ASSUME NEW i \in Slots
      PROVE  MergedKeys(workKeys[next], next, from, curr)[i] = ContractKeys(target, next)[i]
  <2>1. i \in Int /\ curr.total \in Int
    BY <1>4, ContractTypes DEF Slots, OperatorRows
  <2>2. CASE i >= from /\ i < curr.total
    BY <1>6, <2>2 DEF MergedKeys, ContractKeys
  <2>3. CASE i < curr.total /\ ~(i >= from)
    <3>1. i < from BY <1>7, <2>1, <2>3
    <3>2. workKeys[next][i] = ContractKeys(target, next)[i]
      BY <1>1, <1>3, <2>3, <3>1, SkippedRows
    <3>. QED BY <2>3, <3>2 DEF MergedKeys
  <2>4. CASE ~(i < curr.total)
    <3>1. workKeys[next][i] = NoRow
      <4>1. next >= next /\ i >= curr.total
        BY <2>1, <2>4, <1>3, ContractTypes DEF Ops
      <4>. QED BY <1>1, <1>3, <4>1 DEF Inv, WorkFaithful
    <3>. QED BY <1>6, <2>4, <3>1 DEF MergedKeys, ContractKeys
  <2>. QED BY <2>2, <2>3, <2>4
<1>. QED BY <1>8, <1>9 DEF MergedKeys, ContractKeys

(* The empty tables satisfy the invariant. *)
LEMMA InvInit == Init => Inv
PROOF
<1> SUFFICES ASSUME Init PROVE Inv
  OBVIOUS
<1>1. TypeOK BY TypeInit
<1>2. TablesMatchContract BY DEF Init, TablesMatchContract
<1>3. FinalizedPrefixStored
  BY DEF Init, FinalizedPrefixStored, SafeToSkip, NoOperators
<1>4. FinalityBehindTarget BY DEF Init, FinalityBehindTarget
<1>. QED BY <1>1, <1>2, <1>3, <1>4
        DEF Init, Inv, PreviousIsCommitted, FetchedFaithful, WorkFaithful

(* The committed tables after Commit. *)
LEMMA CommitFaithful ==
    ASSUME Inv, Commit
    PROVE  TablesMatchContract' /\ FinalizedPrefixStored'
PROOF
<1>1. /\ pc = "syncing" /\ ~Exists(target, next)
      /\ ops' = workOps /\ keys' = workKeys /\ synced' = target
      /\ UNCHANGED finalized
  BY DEF Commit, chain
<1>2. /\ target \in Blocks /\ finalized \in Blocks
      /\ finalized \in Ancestors[target]
  BY <1>1 DEF Inv, FinalityBehindTarget, TypeOK
<1>3. ASSUME NEW o \in Ops, Exists(target, o)
      PROVE  /\ current[o] # NoRow
             /\ ops'[o] = current[o]
             /\ keys'[o] = ContractKeys(target, o)
             /\ ContractPart(current[o]) = Operator[target][o]
  <2>1. o < next
    BY <1>1, <1>2, <1>3, ContractTypes DEF Exists, Inv, TypeOK, Ops
  <2>. QED BY <1>1, <1>3, <2>1 DEF Inv, WorkFaithful, FetchedFaithful
<1>4. TablesMatchContract'
  <2>1. ASSUME NEW o \in Ops, Exists(target, o)
        PROVE  /\ ops'[o] # NoRow
               /\ ContractPart(ops'[o]) = Operator[target][o]
               /\ keys'[o] = ContractKeys(target, o)
    BY <1>3, <2>1
  <2>. QED BY <1>1, <2>1 DEF TablesMatchContract, Exists, ContractPart, ContractKeys
<1>5. FinalizedPrefixStored'
  <2>1. ASSUME NEW o \in Ops, ops'[o] # NoRow, ops'[o].fin > 0
        PROVE  /\ Exists(finalized, o)
               /\ ops'[o].fin <= Operator[finalized][o].used
               /\ \A i \in Slots : i < ops'[o].fin =>
                    keys'[o][i] = ContractKeys(finalized, o)[i]
    <3>1. CASE Exists(target, o)
      <4>1. /\ Exists(finalized, o)
            /\ current[o].fin <= Operator[finalized][o].used
        BY <1>1, <1>3, <2>1, <3>1 DEF Inv, FetchedFaithful
      <4>2. \A i \in Slots : i < Operator[finalized][o].used =>
               ContractKeys(finalized, o)[i] = ContractKeys(target, o)[i]
        BY <1>2, <4>1, DepositedRow
      <4>3. current[o] \in OperatorRows BY <1>3, <3>1 DEF Inv, TypeOK
      <4>4. /\ current[o].fin \in Int
            /\ Operator[finalized][o].used \in Int
            /\ \A i \in Slots : i \in Int
        BY <1>2, <4>3, ContractTypes DEF OperatorRows, OnChainOperators, Slots
      <4>5. \A i \in Slots : i < current[o].fin => i < Operator[finalized][o].used
        BY <4>1, <4>4
      <4>. QED BY <1>3, <3>1, <4>1, <4>2, <4>5
    <3>2. CASE ~Exists(target, o)
      <4>1. ops'[o] = ops[o] /\ keys'[o] = keys[o]
        BY <1>1, <3>2 DEF Inv, WorkFaithful
      <4>. QED BY <2>1, <4>1 DEF Inv, FinalizedPrefixStored, SafeToSkip
    <3>. QED BY <3>1, <3>2
  <2>. QED BY <1>1, <2>1 DEF FinalizedPrefixStored, SafeToSkip, Exists, ContractKeys
<1>. QED BY <1>4, <1>5

(* What the update holds between its steps is not disturbed when only the   *)
(* head moves. *)
LEMMA InvHeadMoves == ASSUME Inv, HeadMoves PROVE Inv'
PROOF
<1>1. /\ latest' \in Blocks /\ finalized \in Ancestors[latest']
      /\ UNCHANGED <<finalized, ops, keys, synced, pc, target, previous,
                     current, workOps, workKeys, next>>
  BY DEF HeadMoves, tables, work
<1>2. TypeOK' BY <1>1 DEF Inv, TypeOK
<1>3. TablesMatchContract' BY <1>1
  DEF Inv, TablesMatchContract, Exists, ContractPart, ContractKeys
<1>4. FinalizedPrefixStored' BY <1>1
  DEF Inv, FinalizedPrefixStored, SafeToSkip, Exists, ContractKeys
<1>5. FinalityBehindTarget' BY <1>1 DEF Inv, FinalityBehindTarget
<1>6. PreviousIsCommitted' BY <1>1 DEF Inv, PreviousIsCommitted
<1>7. FetchedFaithful' BY <1>1 DEF Inv, FetchedFaithful, Exists, ContractPart
<1>8. WorkFaithful' BY <1>1 DEF Inv, WorkFaithful, Exists, ContractKeys
<1>. QED BY <1>2, <1>3, <1>4, <1>5, <1>6, <1>7, <1>8 DEF Inv

(* Finality reaching a later block of the chain keeps every stored count safe. *)
LEMMA InvFinalityAdvances ==
    ASSUME FinalityWaits, Inv, FinalityAdvances PROVE Inv'
PROOF
<1>1. /\ finalized' \in Ancestors[latest]
      /\ finalized \in Ancestors[finalized']
      /\ pc # "idle" => finalized' \in Ancestors[target]
      /\ UNCHANGED <<latest, ops, keys, synced, pc, target, previous,
                     current, workOps, workKeys, next>>
  BY DEF FinalityAdvances, tables, work
<1>2. finalized' \in Blocks BY <1>1, AncestorsAreBlocks DEF Inv, TypeOK
<1>3. TypeOK' BY <1>1, <1>2 DEF Inv, TypeOK
<1>4. TablesMatchContract' BY <1>1
  DEF Inv, TablesMatchContract, Exists, ContractPart, ContractKeys
<1>5. FinalizedPrefixStored'
  BY <1>1, <1>2, SafeToSkipAdvances DEF Inv
<1>6. FinalityBehindTarget' BY <1>1 DEF Inv, FinalityBehindTarget
<1>7. PreviousIsCommitted' BY <1>1 DEF Inv, PreviousIsCommitted
<1>8. FetchedFaithful'
  <2> SUFFICES ASSUME pc \in {"fetching", "syncing"},
                      NEW o \in Ops, current[o] # NoRow, current[o].fin > 0
               PROVE  /\ Exists(finalized', o)
                      /\ current[o].fin <= Operator[finalized'][o].used
    BY <1>1 DEF Inv, FetchedFaithful, Exists, ContractPart
  <2>1. /\ Exists(finalized, o)
        /\ current[o].fin <= Operator[finalized][o].used
    BY DEF Inv, FetchedFaithful
  <2>2. /\ Exists(finalized', o)
        /\ Operator[finalized][o].used <= Operator[finalized'][o].used
    BY <1>1, <1>2, <2>1, DepositedRow
  <2>3. /\ current[o] \in OperatorRows
        /\ Operator[finalized][o] \in OnChainOperators
        /\ Operator[finalized'][o] \in OnChainOperators
    BY <1>2, ContractTypes DEF Inv, TypeOK
  <2>. QED BY <2>1, <2>2, <2>3, ContractTypes DEF OperatorRows, OnChainOperators
<1>9. WorkFaithful' BY <1>1 DEF Inv, WorkFaithful, Exists, ContractKeys
<1>. QED BY <1>3, <1>4, <1>5, <1>6, <1>7, <1>8, <1>9 DEF Inv

(* A fetched operator is the target block's, with a safe finalized count. *)
LEMMA InvFetchOperator ==
    ASSUME Inv, TypeOK', NEW p \in Ops, FetchOperator(p) PROVE Inv'
PROOF
<1>1. /\ pc = "fetching" /\ Exists(target, p)
      /\ UNCHANGED <<latest, finalized, ops, keys, synced, pc, target, previous,
                     workOps, workKeys, next>>
  BY DEF FetchOperator, chain, tables, work
<1>2. PICK fin \in FinalizedUsed(p) :
         current' = [current EXCEPT ![p] = FetchedOperator(target, p, fin)]
  BY DEF FetchOperator
<1>3. target \in Blocks /\ finalized \in Blocks
  BY <1>1 DEF Inv, FinalityBehindTarget, TypeOK
<1>4. TablesMatchContract' BY <1>1
  DEF Inv, TablesMatchContract, Exists, ContractPart, ContractKeys
<1>5. FinalizedPrefixStored' BY <1>1
  DEF Inv, FinalizedPrefixStored, SafeToSkip, Exists, ContractKeys
<1>6. FinalityBehindTarget' BY <1>1 DEF Inv, FinalityBehindTarget
<1>7. PreviousIsCommitted' BY <1>1 DEF Inv, PreviousIsCommitted
<1>8. FetchedFaithful'
  <2> SUFFICES ASSUME NEW o \in Ops, current'[o] # NoRow
               PROVE  /\ Exists(target, o)
                      /\ ContractPart(current'[o]) = Operator[target][o]
                      /\ current'[o].fin > 0 =>
                           /\ Exists(finalized, o)
                           /\ current'[o].fin <= Operator[finalized][o].used
    BY <1>1 DEF FetchedFaithful, Exists, ContractPart
  <2>1. CASE o # p
    <3>1. current'[o] = current[o] BY <1>2, <2>1 DEF Inv, TypeOK
    <3>. QED BY <1>1, <3>1 DEF Inv, FetchedFaithful
  <2>2. CASE o = p
    <3>1. current'[o] = FetchedOperator(target, o, fin)
      BY <1>2, <2>2 DEF Inv, TypeOK
    <3>2. ContractPart(current'[o]) = Operator[target][o]
      <4>1. Operator[target][o] \in OnChainOperators BY <1>3, ContractTypes
      <4>. QED BY <3>1, <4>1 DEF ContractPart, FetchedOperator, OnChainOperators
    <3>3. ASSUME current'[o].fin > 0
          PROVE  /\ Exists(finalized, o)
                 /\ current'[o].fin <= Operator[finalized][o].used
      <4>1. current'[o].fin = fin BY <3>1 DEF FetchedOperator
      <4>2. fin # 0 BY <3>3, <4>1
      <4>3. Exists(finalized, o) /\ fin = Operator[finalized][o].used
        BY <2>2, <4>2, <1>2 DEF FinalizedUsed
      <4>4. Operator[finalized][o].used \in Int
        BY <1>3, ContractTypes DEF OnChainOperators
      <4>. QED BY <4>1, <4>3, <4>4
    <3>. QED BY <1>1, <2>2, <3>2, <3>3
  <2>. QED BY <2>1, <2>2
<1>9. WorkFaithful' BY <1>1 DEF WorkFaithful
<1>. QED BY <1>4, <1>5, <1>6, <1>7, <1>8, <1>9 DEF Inv

(* The transaction starts the loop from rows that are safe to skip by. *)
LEMMA InvSaveOperators ==
    ASSUME Inv, TypeOK', SaveOperators PROVE Inv'
PROOF
<1>1. /\ pc = "fetching" /\ pc' = "syncing" /\ next' = 0
      /\ \A o \in Ops : Exists(target, o) => current[o] # NoRow
      /\ UNCHANGED <<latest, finalized, ops, keys, synced, target, previous, current>>
  BY DEF SaveOperators, chain, tables
<1>2. TablesMatchContract' BY <1>1
  DEF Inv, TablesMatchContract, Exists, ContractPart, ContractKeys
<1>3. FinalizedPrefixStored' BY <1>1
  DEF Inv, FinalizedPrefixStored, SafeToSkip, Exists, ContractKeys
<1>4. FinalityBehindTarget' BY <1>1 DEF Inv, FinalityBehindTarget
<1>5. PreviousIsCommitted' BY <1>1 DEF Inv, PreviousIsCommitted
<1>6. FetchedFaithful' BY <1>1 DEF Inv, FetchedFaithful, Exists, ContractPart
<1>7. WorkFaithful'
  <2>1. target \in Blocks BY <1>1 DEF Inv, FinalityBehindTarget
  <2>2. next' <= OpCount[target] BY <1>1, <2>1, ContractTypes
  <2>3. ASSUME NEW o \in Ops
        PROVE  IF Exists(target, o)
               THEN /\ current[o] # NoRow
                    /\ workOps'[o] = current[o]
                    /\ ~(o < next')
                    /\ \A i \in Slots : workKeys'[o][i] =
                          IF i >= current[o].total THEN NoRow ELSE keys[o][i]
               ELSE /\ workOps'[o] = ops[o]
                    /\ workKeys'[o] = keys[o]
    <3>1. ~(o < next') BY <1>1, ContractTypes DEF Ops
    <3>2. workOps'[o] = IF Exists(target, o) THEN current[o] ELSE ops[o]
      BY DEF SaveOperators
    <3>3. workKeys'[o] = [i \in Slots |->
                            IF Exists(target, o) /\ i >= current[o].total
                            THEN NoRow ELSE keys[o][i]]
      BY DEF SaveOperators
    <3>4. keys[o] = [i \in Slots |-> keys[o][i]] BY DEF Inv, TypeOK
    <3>. QED BY <1>1, <3>1, <3>2, <3>3, <3>4
  <2>. QED BY <1>1, <2>2, <2>3 DEF WorkFaithful, Exists, ContractKeys
<1>. QED BY <1>2, <1>3, <1>4, <1>5, <1>6, <1>7 DEF Inv

(* One iteration makes one more operator match the target block. *)
LEMMA InvSyncOperatorKeys ==
    ASSUME Inv, TypeOK', SyncOperatorKeys PROVE Inv'
PROOF
<1>1. /\ pc = "syncing" /\ Exists(target, next) /\ next' = next + 1
      /\ UNCHANGED <<latest, finalized, ops, keys, synced, pc, target, previous,
                     current, workOps>>
  BY DEF SyncOperatorKeys, chain, tables
<1>2. TablesMatchContract' BY <1>1
  DEF Inv, TablesMatchContract, Exists, ContractPart, ContractKeys
<1>3. FinalizedPrefixStored' BY <1>1
  DEF Inv, FinalizedPrefixStored, SafeToSkip, Exists, ContractKeys
<1>4. FinalityBehindTarget' BY <1>1 DEF Inv, FinalityBehindTarget
<1>5. PreviousIsCommitted' BY <1>1 DEF Inv, PreviousIsCommitted
<1>6. FetchedFaithful' BY <1>1 DEF Inv, FetchedFaithful, Exists, ContractPart
<1>7. WorkFaithful'
  <2>1. target \in Blocks BY <1>1 DEF Inv, FinalityBehindTarget
  <2>2. next \in Int /\ OpCount[target] \in Int
    BY <2>1, ContractTypes DEF Inv, TypeOK
  <2>3. next' <= OpCount[target] BY <1>1, <2>2 DEF Exists
  <2>4. workKeys'[next] = ContractKeys(target, next) BY SyncedOperatorKeys
  <2>5. \A o \in Ops : o # next => workKeys'[o] = workKeys[o]
    BY DEF SyncOperatorKeys, Inv, TypeOK
  <2>6. ASSUME NEW o \in Ops
        PROVE  IF Exists(target, o)
               THEN /\ current[o] # NoRow
                    /\ workOps[o] = current[o]
                    /\ o < next' => workKeys'[o] = ContractKeys(target, o)
                    /\ o >= next' =>
                         \A i \in Slots : workKeys'[o][i] =
                            IF i >= current[o].total THEN NoRow ELSE keys[o][i]
               ELSE /\ workOps[o] = ops[o]
                    /\ workKeys'[o] = keys[o]
    <3>1. o \in Int BY ContractTypes DEF Ops
    <3>2. CASE ~Exists(target, o)
      <4>1. o # next BY <1>1, <3>2
      <4>. QED BY <1>1, <2>5, <3>2, <4>1 DEF Inv, WorkFaithful
    <3>3. CASE Exists(target, o) /\ o = next
      BY <1>1, <2>2, <2>4, <3>3 DEF Inv, WorkFaithful
    <3>4. CASE Exists(target, o) /\ o # next
      <4>1. (o < next' <=> o < next) /\ (o >= next' => o >= next)
        BY <1>1, <2>2, <3>1, <3>4
      <4>. QED BY <1>1, <2>5, <3>4, <4>1 DEF Inv, WorkFaithful
    <3>. QED BY <3>2, <3>3, <3>4
  <2>. QED BY <1>1, <2>3, <2>6 DEF WorkFaithful, Exists, ContractKeys
<1>. QED BY <1>2, <1>3, <1>4, <1>5, <1>6, <1>7 DEF Inv

(* Every step preserves the invariant: one case per action. *)
LEMMA InvStep == ASSUME FinalityWaits, Inv, [Next]_vars PROVE Inv'
PROOF
<1>1. TypeOK'
  <2>1. TypeOK /\ TargetIsBlock BY DEF Inv, FinalityBehindTarget, TargetIsBlock
  <2>. QED BY <2>1, TypeStep
<1>2. CASE HeadMoves BY <1>2, InvHeadMoves
<1>3. CASE FinalityAdvances BY <1>3, InvFinalityAdvances
<1>4. CASE ChooseTarget
  BY <1>1, <1>4
  DEF ChooseTarget, Inv, chain, tables, work, TablesMatchContract,
      FinalizedPrefixStored, SafeToSkip, Exists, ContractPart, ContractKeys,
      FinalityBehindTarget, PreviousIsCommitted, FetchedFaithful, WorkFaithful,
      TypeOK
<1>5. CASE ReadStorage
  BY <1>1, <1>5
  DEF ReadStorage, Inv, chain, tables, work, TablesMatchContract,
      FinalizedPrefixStored, SafeToSkip, Exists, ContractPart, ContractKeys,
      FinalityBehindTarget, PreviousIsCommitted, FetchedFaithful, WorkFaithful,
      NoOperators
<1>6. ASSUME NEW o \in Ops, FetchOperator(o) PROVE Inv'
  BY <1>1, <1>6, InvFetchOperator
<1>7. CASE SaveOperators BY <1>1, <1>7, InvSaveOperators
<1>8. CASE SyncOperatorKeys BY <1>1, <1>8, InvSyncOperatorKeys
<1>9. CASE Commit
  <2>1. TablesMatchContract' /\ FinalizedPrefixStored' BY <1>9, CommitFaithful
  <2>2. pc' = "idle" /\ latest' = latest /\ finalized' = finalized
    BY <1>9 DEF Commit, Return, chain
  <2>. QED BY <1>1, <2>1, <2>2
     DEF Inv, FinalityBehindTarget, PreviousIsCommitted, FetchedFaithful, WorkFaithful
<1>10. CASE Abort
  <2>1. /\ pc' = "idle"
        /\ UNCHANGED <<latest, finalized, ops, keys, synced>>
    BY <1>10 DEF Abort, Return, chain, tables
  <2>. QED BY <1>1, <2>1
     DEF Inv, TablesMatchContract, FinalizedPrefixStored, SafeToSkip, Exists,
         ContractPart, ContractKeys, FinalityBehindTarget, PreviousIsCommitted,
         FetchedFaithful, WorkFaithful
<1>11. CASE UNCHANGED vars
  BY <1>1, <1>11
  DEF vars, Inv, chain, tables, work, TablesMatchContract,
      FinalizedPrefixStored, SafeToSkip, Exists, ContractPart, ContractKeys,
      FinalityBehindTarget, PreviousIsCommitted, FetchedFaithful, WorkFaithful
<1>. QED BY <1>2, <1>3, <1>4, <1>5, <1>6, <1>7, <1>8, <1>9, <1>10, <1>11 DEF Next

(* For every chain and every contract history: if finality does not         *)
(* overtake an update in progress, the committed operators and keys are     *)
(* exactly the contract's at the synced block, and no skipped key differs   *)
(* from the chain's.                                                        *)
THEOREM RegistrySyncSafe ==
    ASSUME FinalityWaits
    PROVE  Spec => [](TablesMatchContract /\ FinalizedPrefixStored)
PROOF
<1>1. Inv /\ [Next]_vars => Inv' BY InvStep
<1>2. Inv => TablesMatchContract /\ FinalizedPrefixStored BY DEF Inv
<1>. QED BY <1>1, <1>2, InvInit, PTL DEF Spec

(* The comment at abstract-registry.ts 117-118 is true of every update that *)
(* finality does not overtake.                                              *)
THEOREM SkippedKeysSafe ==
    ASSUME FinalityWaits PROVE Spec => []SkippedKeysUnchanged
PROOF
<1>1. Inv /\ [Next]_vars => Inv' BY InvStep
<1>2. Inv => SkippedKeysUnchanged
  <2> SUFFICES ASSUME Inv, pc = "syncing", Exists(target, next), NEW i \in Slots,
                      i < FromIndex(previous[next], current[next]),
                      i < current[next].total
               PROVE  workKeys[next][i] = ContractKeys(target, next)[i]
    BY DEF SkippedKeysUnchanged
  <2>1. next \in Ops
    BY ContractTypes DEF Exists, Inv, TypeOK, Ops, FinalityBehindTarget
  <2>. QED BY <2>1, SkippedRows
<1>. QED BY <1>1, <1>2, InvInit, PTL DEF Spec

(* Only Commit changes what readers see. *)
LEMMA TablesChangeOnCommit ==
    [Next]_vars => Commit \/ UNCHANGED <<ops, keys, synced>>
BY DEF Next, vars, tables, HeadMoves, FinalityAdvances, ChooseTarget, ReadStorage,
       FetchOperator, SaveOperators, SyncOperatorKeys, Abort

(* A deposited key a reader has been shown is never changed or lost. *)
THEOREM DepositedKeysNeverChange ==
    ASSUME FinalityWaits PROVE Spec => DepositedKeysStable
PROOF
<1> DEFINE Stable ==
      synced # NoBlock /\ finalized \in Ancestors[synced] =>
         \A o \in Ops, i \in Slots :
            Exists(finalized, o) /\ i < Operator[finalized][o].used =>
                keys'[o][i] = keys[o][i]
<1>1. Inv /\ [Next]_vars => Inv' BY InvStep
<1>2. Inv /\ [Next]_vars => Stable
  <2> SUFFICES ASSUME Inv, [Next]_vars, synced # NoBlock,
                      finalized \in Ancestors[synced],
                      NEW o \in Ops, NEW i \in Slots,
                      Exists(finalized, o), i < Operator[finalized][o].used
               PROVE  keys'[o][i] = keys[o][i]
    OBVIOUS
  <2>1. CASE UNCHANGED <<ops, keys, synced>> BY <2>1
  <2>2. CASE Commit
    <3>1. /\ target \in Blocks /\ finalized \in Ancestors[target]
          /\ synced' = target /\ target # NoBlock
      BY <2>2, ChainAssumption
      DEF Commit, Inv, FinalityBehindTarget, ChainAssumption
    <3>2. synced \in Blocks BY DEF Inv, TypeOK
    <3>3. /\ Exists(synced, o)
          /\ ContractKeys(finalized, o)[i] = ContractKeys(synced, o)[i]
      BY <3>2, DepositedRow
    <3>4. /\ Exists(target, o)
          /\ ContractKeys(finalized, o)[i] = ContractKeys(target, o)[i]
      BY <3>1, DepositedRow
    <3>5. keys[o] = ContractKeys(synced, o)
      BY <3>3 DEF Inv, TablesMatchContract
    <3>6. keys'[o] = ContractKeys(target, o)
      <4>1. TablesMatchContract' BY <2>2, CommitFaithful
      <4>. QED BY <3>1, <3>4, <4>1 DEF TablesMatchContract, Exists, ContractKeys
    <3>. QED BY <3>3, <3>4, <3>5, <3>6
  <2>. QED BY <2>1, <2>2, TablesChangeOnCommit
<1>3. Inv /\ [Next]_vars => [Stable]_vars BY <1>2
<1>. QED BY <1>1, <1>3, InvInit, PTL DEF Spec, DepositedKeysStable

-----------------------------------------------------------------------------
(* Refinement. *)

(* What a commit does to an operator: replaced if the block has it, as it   *)
(* was if not.                                                              *)
LEMMA CommittedOperator ==
    ASSUME Inv, Commit, NEW o \in Ops
    PROVE  /\ target \in Blocks /\ synced' = target
           /\ Exists(target, o) =>
                /\ ops'[o] # NoRow
                /\ ContractPart(ops'[o]) = Operator[target][o]
                /\ keys'[o] = ContractKeys(target, o)
           /\ ~Exists(target, o) => ops'[o] = ops[o] /\ keys'[o] = keys[o]
PROOF
<1>1. /\ pc = "syncing" /\ synced' = target
      /\ ops' = workOps /\ keys' = workKeys
  BY DEF Commit
<1>2. target \in Blocks /\ target # NoBlock
  BY <1>1, ChainAssumption DEF Inv, FinalityBehindTarget, ChainAssumption
<1>3. TablesMatchContract' BY CommitFaithful
<1>4. Exists(target, o) =>
        /\ ops'[o] # NoRow
        /\ ContractPart(ops'[o]) = Operator[target][o]
        /\ keys'[o] = ContractKeys(target, o)
  BY <1>1, <1>2, <1>3 DEF TablesMatchContract, Exists, ContractPart, ContractKeys
<1>5. ~Exists(target, o) => ops'[o] = ops[o] /\ keys'[o] = keys[o]
  BY <1>1 DEF Inv, WorkFaithful
<1> QED BY <1>1, <1>2, <1>4, <1>5

(* What a commit does to all that a reader can find. *)
LEMMA CommittedListing ==
    ASSUME Inv, Commit
    PROVE  Mirror!Update(target)
PROOF
<1> DEFINE Next2(o) == IF o \in DOMAIN OnChainListing(target)
                       THEN OnChainListing(target)[o] ELSE Listing(ops, keys)[o]
<1>1. /\ target \in Blocks /\ finalized \in Ancestors[target]
      /\ synced' = target /\ finalized' = finalized
  BY DEF Commit, Inv, FinalityBehindTarget, chain
<1>2. ASSUME NEW o \in Ops PROVE Listing(ops', keys')[o] = Next2(o)
  <2>1. CASE Exists(target, o)
    <3>1. /\ ops'[o] # NoRow
          /\ ContractPart(ops'[o]) = Operator[target][o]
          /\ keys'[o] = ContractKeys(target, o)
      BY <2>1, CommittedOperator
    <3>2. Listing(ops', keys')[o] =
            [operator |-> Operator[target][o], keys |-> ContractKeys(target, o)]
      BY <3>1 DEF Listing
    <3>3. Next2(o) =
            [operator |-> Operator[target][o], keys |-> ContractKeys(target, o)]
      BY <2>1 DEF OnChainListing
    <3> QED BY <3>2, <3>3
  <2>2. CASE ~Exists(target, o)
    <3>1. ops'[o] = ops[o] /\ keys'[o] = keys[o] BY <2>2, CommittedOperator
    <3>2. o \notin DOMAIN OnChainListing(target) BY <2>2 DEF OnChainListing
    <3> QED BY <3>1, <3>2 DEF Listing
  <2> QED BY <2>1, <2>2
<1>3. Listing(ops', keys') = [o \in Ops |-> Next2(o)]
  BY <1>2 DEF Listing
<1>4. DOMAIN Listing(ops, keys) = Ops BY DEF Listing
<1>5. [b \in Blocks |-> OnChainListing(b)][target] = OnChainListing(target)
  BY <1>1
<1>6. Listing(ops, keys)' = Listing(ops', keys') BY DEF Listing, ContractPart
<1> QED BY <1>1, <1>3, <1>4, <1>5, <1>6 DEF Mirror!Update

(* The update, with its fetches, skips, partial work and failures,          *)
(* implements the one step of RegistryMirror on all rows a reader can find. *)
THEOREM RegistrySyncRefinesMirror ==
    ASSUME FinalityWaits PROVE Spec => MirrorSpec
PROOF
<1>1. Inv /\ [Next]_vars => Inv' BY InvStep
<1>2. Init => Mirror!Init
  BY ChainAssumption DEF Init, Mirror!Init, ChainAssumption
<1>3. Inv /\ [Next]_vars => [Mirror!Next]_(Mirror!vars)
  <2> SUFFICES ASSUME Inv, [Next]_vars
               PROVE  Mirror!Next \/ UNCHANGED Mirror!vars
    OBVIOUS
  <2>1. CASE Commit
    <3>1. target \in Blocks BY <2>1 DEF Commit, Inv, FinalityBehindTarget
    <3>2. Mirror!Update(target) BY <2>1, CommittedListing
    <3> QED BY <3>1, <3>2 DEF Mirror!Next
  <2>2. CASE FinalityAdvances
    <3>1. /\ finalized' \in Blocks /\ finalized \in Ancestors[finalized']
          /\ UNCHANGED <<ops, keys, synced>>
      BY <2>2, ChainAssumption
      DEF FinalityAdvances, tables, Inv, TypeOK, ChainAssumption
    <3> QED BY <3>1 DEF Mirror!Next, Mirror!Finalize, Listing, ContractPart
  <2>3. CASE UNCHANGED <<finalized, ops, keys, synced>>
    BY <2>3 DEF Mirror!vars, Listing, ContractPart
  <2>4. Commit \/ FinalityAdvances \/ UNCHANGED <<finalized, ops, keys, synced>>
    BY DEF Next, vars, chain, tables, HeadMoves, ChooseTarget, ReadStorage,
           FetchOperator, SaveOperators, SyncOperatorKeys, Abort
  <2> QED BY <2>1, <2>2, <2>3, <2>4
<1> QED BY <1>1, <1>2, <1>3, InvInit, PTL DEF Spec, MirrorSpec, Mirror!Spec

-----------------------------------------------------------------------------
(* The rows that no update touches: operators the last one did not see.     *)

(* Every operator of the tables, one that the synced block does not have    *)
(* included, is an operator of one block with the keys of that block.       *)
OfOneBlock(o) ==
    \/ ops[o] = NoRow /\ \A i \in Slots : keys[o][i] = NoRow
    \/ \E b \in Blocks :
         /\ Exists(b, o)
         /\ ops[o] # NoRow
         /\ ContractPart(ops[o]) = Operator[b][o]
         /\ keys[o] = ContractKeys(b, o)

RowsOfOneBlock == \A o \in Ops : OfOneBlock(o)

LEMMA RowsOfOneBlockInit == Init => RowsOfOneBlock
BY DEF Init, RowsOfOneBlock, OfOneBlock, NoOperators, NoKeys

LEMMA RowsOfOneBlockStep ==
    ASSUME Inv, RowsOfOneBlock, [Next]_vars PROVE RowsOfOneBlock'
PROOF
<1>1. CASE UNCHANGED <<ops, keys, synced>>
  BY <1>1 DEF RowsOfOneBlock, OfOneBlock, Exists, ContractPart, ContractKeys
<1>2. CASE Commit
  <2>1. ASSUME NEW o \in Ops PROVE OfOneBlock(o)'
    <3>1. CASE Exists(target, o)
      <4>1. /\ target \in Blocks
            /\ ops'[o] # NoRow
            /\ ContractPart(ops'[o]) = Operator[target][o]
            /\ keys'[o] = ContractKeys(target, o)
        BY <1>2, <3>1, CommittedOperator
      <4> QED BY <3>1, <4>1 DEF OfOneBlock, Exists, ContractPart, ContractKeys
    <3>2. CASE ~Exists(target, o)
      <4>1. ops'[o] = ops[o] /\ keys'[o] = keys[o] BY <1>2, <3>2, CommittedOperator
      <4>2. OfOneBlock(o) BY DEF RowsOfOneBlock
      <4> QED BY <4>1, <4>2 DEF OfOneBlock, Exists, ContractPart, ContractKeys
    <3> QED BY <3>1, <3>2
  <2> QED BY <2>1 DEF RowsOfOneBlock
<1> QED BY <1>1, <1>2, TablesChangeOnCommit

LEMMA RowsHold == ASSUME FinalityWaits PROVE Spec => [](Inv /\ RowsOfOneBlock)
PROOF
<1>1. Inv /\ RowsOfOneBlock /\ [Next]_vars => (Inv /\ RowsOfOneBlock)'
  BY InvStep, RowsOfOneBlockStep
<1> QED BY <1>1, InvInit, RowsOfOneBlockInit, PTL DEF Spec

(* A reader is never shown an operator of one block with keys of another:   *)
(* not even an operator that no update has seen since it was reorganised    *)
(* away, and that saveOperators therefore left as it was.                   *)
THEOREM OperatorsAreOfOneBlock ==
    ASSUME FinalityWaits PROVE Spec => []RowsOfOneBlock
PROOF
<1> QED BY RowsHold, PTL

(* What RestApi takes for granted of the tables: an operator has as many    *)
(* keys, and as many used ones, as its row says, and no key is without an   *)
(* operator.                                                                *)
CountsStored ==
    \A o \in Ops :
        LET own == {i \in Slots : keys[o][i] # NoRow} IN
        IF ops[o] = NoRow THEN own = {}
        ELSE /\ Cardinality(own) = ops[o].total
             /\ Cardinality({i \in own : keys[o][i].used}) = ops[o].used

(* The first n slots are n. *)
LEMMA FirstSlots ==
    ASSUME NEW n \in 0..NKeys
    PROVE  Cardinality({i \in Slots : i < n}) = n
PROOF
<1>1. NKeys \in Nat BY ContractTypes
<1>2. {i \in Slots : i < n} = 0..(n - 1) BY <1>1 DEF Slots
<1>3. Cardinality(0..(n - 1)) = IF 0 > n - 1 THEN 0 ELSE n - 1 - 0 + 1
  <2>1. 0 \in Int /\ n - 1 \in Int BY <1>1
  <2> QED BY <2>1, FS_Interval
<1>4. n \in Nat BY <1>1
<1>5. Cardinality(0..(n - 1)) = n BY <1>3, <1>4
<1> QED BY <1>2, <1>5

(* The counts of an operator's row are those of its keys, whatever was      *)
(* skipped, reorganised away or left behind (RestApiAssumption).            *)
THEOREM OperatorsCountTheirKeys ==
    ASSUME FinalityWaits PROVE Spec => []CountsStored
PROOF
<1>1. ASSUME TypeOK, RowsOfOneBlock PROVE CountsStored
  <2>1. ASSUME NEW o \in Ops, ops[o] = NoRow PROVE {i \in Slots : keys[o][i] # NoRow} = {}
    BY <1>1, <2>1 DEF RowsOfOneBlock, OfOneBlock
  <2>2. ASSUME NEW o \in Ops, ops[o] # NoRow
        PROVE  LET own == {i \in Slots : keys[o][i] # NoRow} IN
               /\ Cardinality(own) = ops[o].total
               /\ Cardinality({i \in own : keys[o][i].used}) = ops[o].used
    <3> DEFINE own    == {i \in Slots : keys[o][i] # NoRow}
               ownUsed == {i \in own : keys[o][i].used}
    <3>1. PICK b \in Blocks : /\ ContractPart(ops[o]) = Operator[b][o]
                              /\ keys[o] = ContractKeys(b, o)
      BY <1>1, <2>2 DEF RowsOfOneBlock, OfOneBlock
    <3>2. /\ Operator[b][o] \in OnChainOperators
          /\ Operator[b][o].used <= Operator[b][o].limit
          /\ Operator[b][o].limit <= Operator[b][o].total
          /\ \A i \in Slots : SigningKey[b][o][i] \in Keys
          /\ NKeys \in Nat
      BY ContractTypes, ContractAssumption DEF ContractAssumption
    <3>3. /\ ops[o].total = Operator[b][o].total
          /\ ops[o].used = Operator[b][o].used
      BY <3>1 DEF ContractPart
    <3>4. /\ ops[o].total \in 0..NKeys /\ ops[o].used \in 0..NKeys
          /\ ops[o].used <= ops[o].total
      BY <3>2, <3>3 DEF OnChainOperators
    <3>5. ASSUME NEW i \in Slots
          PROVE  /\ keys[o][i] # NoRow <=> i < ops[o].total
                 /\ i < ops[o].total => (keys[o][i].used <=> i < ops[o].used)
      <4>1. keys[o][i] = IF i < Operator[b][o].total
                         THEN [key    |-> SigningKey[b][o][i],
                               used   |-> i < Operator[b][o].used,
                               vetted |-> i < Operator[b][o].limit]
                         ELSE NoRow
        BY <3>1 DEF ContractKeys
      <4>2. [key    |-> SigningKey[b][o][i], used |-> i < Operator[b][o].used,
             vetted |-> i < Operator[b][o].limit] \in KeyRows
        BY <3>2 DEF KeyRows
      <4>3. NoRow \notin KeyRows BY ContractAssumption DEF ContractAssumption
      <4>4. CASE i < Operator[b][o].total
        <5>1. keys[o][i] = [key    |-> SigningKey[b][o][i],
                            used   |-> i < Operator[b][o].used,
                            vetted |-> i < Operator[b][o].limit]
          BY <4>1, <4>4
        <5>2. keys[o][i] # NoRow BY <4>2, <4>3, <5>1
        <5>3. keys[o][i].used = (i < Operator[b][o].used) BY <5>1
        <5> QED BY <3>3, <4>4, <5>2, <5>3
      <4>5. CASE ~(i < Operator[b][o].total)
        BY <3>3, <4>1, <4>5
      <4> QED BY <4>4, <4>5
    <3>6. own = {i \in Slots : i < ops[o].total} BY <3>5
    <3>7. ownUsed = {i \in Slots : i < ops[o].used}
      <4>1. \A i \in Slots : i \in Int BY <3>2 DEF Slots
      <4> QED BY <3>4, <3>5, <4>1
    <3> HIDE DEF own, ownUsed
    <3> QED BY <3>4, <3>6, <3>7, FirstSlots DEF own, ownUsed
  <2> QED BY <2>1, <2>2 DEF CountsStored
<1>2. Inv /\ RowsOfOneBlock => CountsStored BY <1>1 DEF Inv
<1> QED BY <1>2, RowsHold, PTL

(* No update goes to a block that has fewer operators than the last one. *)
OperatorsStay == synced # NoBlock /\ synced' # synced => OpCount[synced] <= OpCount[synced']

NoPhantoms ==
    /\ synced = NoBlock => \A o \in Ops : \A i \in Slots : keys[o][i] = NoRow
    /\ synced # NoBlock =>
         \A o \in Ops : ~Exists(synced, o) => \A i \in Slots : keys[o][i] = NoRow

(* Keys that the contract does not have are left behind in one way only: an *)
(* update to a block with fewer operators than the one before, after a      *)
(* reorganisation.  RegistrySyncPhantom shows that one.                     *)
THEOREM KeysLeftOnlyByLostOperators ==
    ASSUME FinalityWaits
    PROVE  Spec /\ [][OperatorsStay]_vars => []NoKeyBeyondContract
PROOF
<1>1. Init => NoPhantoms BY DEF Init, NoPhantoms, NoKeys
<1>2. ASSUME Inv, NoPhantoms, [Next]_vars, [OperatorsStay]_vars
      PROVE  NoPhantoms'
  <2>1. CASE UNCHANGED <<ops, keys, synced>> BY <1>2, <2>1 DEF NoPhantoms, Exists
  <2>2. CASE Commit
    <3>1. target \in Blocks /\ synced' = target /\ target # NoBlock
      BY <1>2, <2>2, ChainAssumption
      DEF Commit, Inv, FinalityBehindTarget, ChainAssumption
    <3>2. synced # NoBlock => synced \in Blocks BY <1>2 DEF Inv, TypeOK
    <3>3. synced # NoBlock => OpCount[synced] <= OpCount[target]
      <4>1. synced # NoBlock /\ synced' # synced => OpCount[synced] <= OpCount[synced']
        BY <1>2 DEF OperatorsStay, vars, tables
      <4>2. synced # NoBlock => OpCount[synced] <= OpCount[synced]
        BY <3>2, ContractTypes
      <4> QED BY <3>1, <4>1, <4>2
    <3>4. ASSUME NEW o \in Ops, ~Exists(target, o), NEW i \in Slots
          PROVE  keys'[o][i] = NoRow
      <4>1. keys'[o] = keys[o] BY <1>2, <2>2, <3>4, CommittedOperator
      <4>2. synced # NoBlock => ~Exists(synced, o)
        BY <3>1, <3>2, <3>3, <3>4, ContractTypes DEF Exists, Ops
      <4> QED BY <1>2, <4>1, <4>2 DEF NoPhantoms
    <3> QED BY <3>1, <3>4 DEF NoPhantoms, Exists
  <2> QED BY <1>2, <2>1, <2>2, TablesChangeOnCommit
<1>3. ASSUME Inv, NoPhantoms PROVE NoKeyBeyondContract
  <2> SUFFICES ASSUME synced # NoBlock, NEW o \in Ops, NEW i \in Slots, keys[o][i] # NoRow
               PROVE  Exists(synced, o) /\ i < Operator[synced][o].total
    BY DEF NoKeyBeyondContract
  <2>1. Exists(synced, o) BY <1>3 DEF NoPhantoms
  <2>2. keys[o] = ContractKeys(synced, o) BY <1>3, <2>1 DEF Inv, TablesMatchContract
  <2> QED BY <2>1, <2>2 DEF ContractKeys
<1>4. Inv /\ NoPhantoms /\ [Next]_vars /\ [OperatorsStay]_vars => (Inv /\ NoPhantoms)'
  BY <1>2, InvStep
<1>5. Inv /\ NoPhantoms => NoKeyBeyondContract BY <1>3
<1> QED BY <1>1, <1>4, <1>5, InvInit, PTL DEF Spec
==============================================================================
