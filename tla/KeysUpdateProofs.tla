--------------------------- MODULE KeysUpdateProofs ---------------------------
(****************************************************************************)
(* KeysUpdate for every chain, every history of the staking modules and     *)
(* every movement of the node's head: the reorg check is sound, the keys    *)
(* beside an el_meta block are that block's, and so are the rows, marks and *)
(* names as far as they can be.                                             *)
(****************************************************************************)
EXTENDS KeysUpdate, WellFoundedInduction, TLAPS

-----------------------------------------------------------------------------
(* The reorg check. *)

(* Every nonempty set of naturals has a least element. *)
LEMMA LeastNatural ==
    ASSUME NEW T, T \subseteq Nat, T # {}
    PROVE  \E x \in T : \A y \in T : ~(y < x)
PROOF
<1> DEFINE R == OpToRel(<, Nat)
<1>1. IsWellFoundedOn(R, Nat) BY NatLessThanWellFounded
<1>2. \E x \in T : \A y \in T : ~(<<y, x>> \in R)
  <2> HIDE DEF R
  <2>. QED BY <1>1, WFMin
<1>3. \A x, y \in Nat : y < x => <<y, x>> \in R BY DEF OpToRel
<1>. QED BY <1>2, <1>3

(* What the chain assumption says of ancestors. *)
LEMMA AncestorsFacts ==
    ASSUME NEW b \in Blocks
    PROVE  /\ b \in Ancestors[b]
           /\ Ancestors[b] \subseteq Blocks
           /\ Number[b] \in Nat
           /\ b # NoBlock
           /\ Parent[b] # NoBlock => Parent[b] \in Ancestors[b]
           /\ \A a \in Ancestors[b] : Ancestors[a] \subseteq Ancestors[b]
PROOF
<1>1. /\ Ancestors[b] = {b} \cup (IF Parent[b] = NoBlock THEN {} ELSE Ancestors[Parent[b]])
      /\ Ancestors[b] \subseteq Blocks
      /\ Number[b] \in Nat
      /\ \A a \in Ancestors[b] : Ancestors[a] \subseteq Ancestors[b]
  BY ChainAssumption DEF ChainAssumption
<1>2. b # NoBlock BY ChainAssumption DEF ChainAssumption
<1>3. Parent[b] # NoBlock => Parent[b] \in Ancestors[Parent[b]]
  <2> SUFFICES ASSUME Parent[b] # NoBlock PROVE Parent[b] \in Ancestors[Parent[b]]
    OBVIOUS
  <2>1. Parent[b] \in Blocks BY ChainAssumption DEF ChainAssumption
  <2>. QED BY <2>1, ChainAssumption DEF ChainAssumption
<1>. QED BY <1>1, <1>2, <1>3

(* A run of blocks, each the parent of the next and got by whatever view,   *)
(* is a stretch of the chain of its last block.                             *)
LEMMA LinkedBlocksAreAncestors ==
    ASSUME NEW lo \in Nat, NEW hi \in Nat, lo <= hi,
           NEW c \in Blocks, blocks[hi] = c,
           \A n \in lo..hi : blocks[n] # NoBlock,
           \A n \in (lo..hi) \ {lo} : Linked(n)
    PROVE  blocks[lo] \in Ancestors[c]
PROOF
<1> DEFINE T == {k \in Nat : k <= hi - lo /\ blocks[hi - k] \notin Ancestors[c]}
<1>1. CASE T = {}
  <2>1. (hi - lo) \in Nat /\ hi - (hi - lo) = lo OBVIOUS
  <2>. QED BY <1>1, <2>1
<1>2. CASE T # {}
  <2>1. PICK k \in T : \A y \in T : ~(y < k)
    BY <1>2, LeastNatural
  <2>2. k \in Nat /\ k <= hi - lo /\ blocks[hi - k] \notin Ancestors[c]
    BY <2>1
  <2>3. k # 0
    <3>1. c \in Ancestors[c] BY AncestorsFacts
    <3>. QED BY <2>2, <3>1
  <2>4. k - 1 \in Nat /\ k - 1 < k /\ k - 1 <= hi - lo BY <2>2, <2>3
  <2>5. blocks[hi - (k - 1)] \in Ancestors[c] BY <2>1, <2>4
  <2> DEFINE n == hi - (k - 1)
  <2>6. n \in (lo..hi) \ {lo} /\ n - 1 = hi - k /\ n - 1 \in lo..hi
    BY <2>2, <2>3, <2>4
  <2>7. Parent[blocks[n]] = blocks[n - 1] /\ blocks[n - 1] # NoBlock
    BY <2>6 DEF Linked
  <2>8. blocks[n] \in Blocks BY <2>5, AncestorsFacts
  <2>9. blocks[n - 1] \in Ancestors[blocks[n]] BY <2>7, <2>8, AncestorsFacts
  <2>10. blocks[n - 1] \in Ancestors[c] BY <2>5, <2>9, AncestorsFacts
  <2>. QED BY <2>2, <2>6, <2>10
<1>. QED BY <1>1, <1>2

-----------------------------------------------------------------------------
(* Facts about the constants and the shapes of steps. *)

(* The modules of a block are modules, their addresses addresses. *)
LEMMA ModulesTypes ==
    /\ NModules \in Nat
    /\ MaxBlocksOverlap \in Nat
    /\ \A b \in Blocks :
         /\ ModuleCount[b] \in 0..NModules
         /\ ModulesAt(b) \subseteq Modules
         /\ \A m \in Modules : Address[b][m] \in Addresses
         /\ \A a \in Addresses : Nonce[b][a] \in Nat
         /\ \A m1, m2 \in ModulesAt(b) : Address[b][m1] = Address[b][m2] => m1 = m2
PROOF
<1>1. /\ NModules \in Nat
      /\ MaxBlocksOverlap \in Nat
      /\ \A b \in Blocks :
           /\ ModuleCount[b] \in 0..NModules
           /\ \A m \in Modules : Address[b][m] \in Addresses
           /\ \A a \in Addresses : Nonce[b][a] \in Nat
           /\ \A m1, m2 \in 1..ModuleCount[b] : Address[b][m1] = Address[b][m2] => m1 = m2
  <2>1. NModules \in Nat /\ MaxBlocksOverlap \in Nat
    BY ModulesAssumption DEF ModulesAssumption
  <2>2. ASSUME NEW b \in Blocks PROVE ModuleCount[b] \in 0..NModules
    BY ModulesAssumption DEF ModulesAssumption
  <2>3. ASSUME NEW b \in Blocks, NEW m \in Modules PROVE Address[b][m] \in Addresses
    BY ModulesAssumption DEF ModulesAssumption
  <2>4. ASSUME NEW b \in Blocks, NEW a \in Addresses PROVE Nonce[b][a] \in Nat
    BY ModulesAssumption DEF ModulesAssumption
  <2>5. ASSUME NEW b \in Blocks, NEW m1 \in 1..ModuleCount[b],
               NEW m2 \in 1..ModuleCount[b], Address[b][m1] = Address[b][m2]
        PROVE  m1 = m2
    BY <2>5, ModulesAssumption DEF ModulesAssumption
  <2>. QED BY <2>1, <2>2, <2>3, <2>4, <2>5
<1>2. \A b \in Blocks : ModulesAt(b) \subseteq Modules
  <2> SUFFICES ASSUME NEW b \in Blocks, NEW m \in ModulesAt(b) PROVE m \in Modules
    OBVIOUS
  <2>1. ModuleCount[b] \in 0..NModules /\ NModules \in Nat BY <1>1
  <2>. QED BY <2>1 DEF ModulesAt, Modules
<1>. QED BY <1>1, <1>2 DEF ModulesAt

(* Along one chain a module keeps its address, and an unchanged nonce means *)
(* unchanged keys. *)
LEMMA SameNonceSameKeys ==
    ASSUME NEW b \in Blocks, NEW a \in Ancestors[b], NEW m \in ModulesAt(a)
    PROVE  /\ m \in ModulesAt(b)
           /\ Address[a][m] = Address[b][m]
           /\ Nonce[a][Address[b][m]] = Nonce[b][Address[b][m]] =>
                Keyset[a][Address[b][m]] = Keyset[b][Address[b][m]]
PROOF
<1>1. a \in Blocks BY AncestorsFacts
<1>2. /\ ModuleCount[a] \in 0..NModules /\ ModuleCount[b] \in 0..NModules
      /\ ModulesAt(b) \subseteq Modules
      /\ NModules \in Nat
  BY <1>1, ModulesTypes
<1>3. ModuleCount[a] <= ModuleCount[b]
  BY ModulesAssumption DEF ModulesAssumption
<1>4. m \in ModulesAt(b) BY <1>2, <1>3 DEF ModulesAt
<1>5. Address[a][m] = Address[b][m]
  BY ModulesAssumption DEF ModulesAssumption, ModulesAt
<1>6. Address[b][m] \in Addresses BY <1>2, <1>4, ModulesTypes
<1>7. \A c \in Addresses : Nonce[a][c] = Nonce[b][c] => Keyset[a][c] = Keyset[b][c]
  BY ModulesAssumption DEF ModulesAssumption
<1>. QED BY <1>4, <1>5, <1>6, <1>7

(* The empty database is a database. *)
LEMMA EmptyDbType == EmptyDb \in Databases
BY DEF EmptyDb, Databases

(* The locals of a round that is over have their types. *)
LEMMA EndRoundType ==
    ASSUME EndRound
    PROVE  /\ pc' = "idle" /\ txn' \in Databases
           /\ curr' \in Blocks \cup {NoBlock}
           /\ module' \in 1..(NModules + 1)
           /\ lastChanged' \in Blocks \cup {NoBlock}
           /\ isReorgDetected' \in BOOLEAN
           /\ blocks' \in [Numbers -> Blocks \cup {NoBlock, Missing}]
PROOF
<1>1. 1 \in 1..(NModules + 1) BY ModulesTypes
<1>2. NoBlocks \in [Numbers -> Blocks \cup {NoBlock, Missing}] BY DEF NoBlocks
<1>. QED BY <1>1, <1>2, EmptyDbType DEF EndRound

(* The end of a round, committed or not, leaves nothing but the db. *)
LEMMA InvEndRound ==
    ASSUME Inv, EndRound, head' \in Blocks, calm' \in BOOLEAN, stable' \in BOOLEAN, db' = db
    PROVE  Inv'
PROOF
<1>1. TypeOK' BY EndRoundType DEF Inv, TypeOK, Phases
<1>2. pc' = "idle" BY DEF EndRound
<1>3. CommittedFaithful'
  BY DEF Inv, CommittedFaithful, prev, ModulesAt, ModuleFaithful
<1>. QED BY <1>1, <1>2, <1>3
   DEF Inv, CurrIsAhead, TxnFaithful, CheckedModule, NoReorgMeansDescendant, InRound

(* The loop's own module: where it is, and what is known of its row. *)
LEMMA LoopModule ==
    ASSUME Inv, InRound, InLoop
    PROVE  /\ curr \in Blocks
           /\ module \in ModulesAt(curr) /\ module \in Modules
           /\ Addr \in Addresses
           /\ Row \in ModuleRows \cup {NoRow}
           /\ Row = db.rows[module]
           /\ txn.tables[Addr] = db.tables[Addr]
           /\ module + 1 \in 1..(NModules + 1)
PROOF
<1>1. curr \in Blocks BY DEF Inv, CurrIsAhead
<1>2. module \in Int /\ module >= 1 /\ NModules \in Nat
  BY ModulesTypes DEF Inv, TypeOK
<1>3. module \in ModulesAt(curr)
  BY <1>1, <1>2, ModulesTypes DEF InLoop, ModulesAt
<1>4. module \in Modules BY <1>1, <1>3, ModulesTypes
<1>5. Addr \in Addresses BY <1>1, <1>4, ModulesTypes DEF Addr
<1>6. Row \in ModuleRows \cup {NoRow}
  BY <1>4 DEF Inv, TypeOK, Databases, Row
<1>7. Row = db.rows[module] /\ txn.tables[Addr] = db.tables[Addr]
  BY <1>2, <1>3 DEF Inv, TxnFaithful, Row, Addr
<1>8. module + 1 \in 1..(NModules + 1)
  BY <1>2, <1>4 DEF Modules
<1>. QED BY <1>1, <1>3, <1>4, <1>5, <1>6, <1>7, <1>8

(* An upserted row is a row of sr_modules. *)
LEMMA UpsertedType ==
    ASSUME curr \in Blocks, NEW row \in ModuleRows \cup {NoRow}, NEW a \in Addresses,
           NEW n \in Nat, NEW h \in Blocks
    PROVE  Upserted(row, a, n, h) \in ModuleRows
BY DEF Upserted, ModuleRows

-----------------------------------------------------------------------------
(* The invariant is inductive. *)

(* The empty database and an idle service satisfy the invariant. *)
LEMMA InvInit == Init => Inv
PROOF
<1> SUFFICES ASSUME Init PROVE Inv
  OBVIOUS
<1>1. TypeOK
  <2>1. 1 \in 1..(NModules + 1) BY ModulesTypes
  <2>2. NoBlocks \in [Numbers -> Blocks \cup {NoBlock, Missing}] BY DEF NoBlocks
  <2>. QED BY <2>1, <2>2, EmptyDbType DEF Init, TypeOK, Phases
<1>2. CommittedFaithful BY DEF Init, CommittedFaithful, prev, EmptyDb
<1>. QED BY <1>1, <1>2
   DEF Init, Inv, CurrIsAhead, TxnFaithful, CheckedModule, NoReorgMeansDescendant, InRound

(* The definitions Inv is made of, for steps that leave its variables.      *)
LEMMA InvUnchanged ==
    ASSUME Inv, head' \in Blocks, calm' \in BOOLEAN, stable' \in BOOLEAN,
           UNCHANGED <<db, txn, pc, curr, module, lastChanged, isReorgDetected, blocks>>
    PROVE  Inv'
PROOF
<1>1. TypeOK' BY DEF Inv, TypeOK
<1>2. CommittedFaithful'
  BY DEF Inv, CommittedFaithful, prev, ModulesAt, ModuleFaithful
<1>3. CurrIsAhead' BY DEF Inv, CurrIsAhead, InRound, NodeIsBehind, prev
<1>4. TxnFaithful' BY DEF Inv, TxnFaithful, InRound, ModulesAt, ModuleFaithful
<1>5. CheckedModule'
  BY DEF Inv, CheckedModule, InLoop, MustUpdate, NoPastState, NonceChanged,
         TooMuchDiff, prev, Row, Addr
<1>6. NoReorgMeansDescendant' BY DEF Inv, NoReorgMeansDescendant, prev
<1>. QED BY <1>1, <1>2, <1>3, <1>4, <1>5, <1>6 DEF Inv

(* The transaction starts as a copy: nothing is passed, everything is kept. *)
LEMMA InvBeginTransaction == ASSUME Inv, BeginTransaction PROVE Inv'
PROOF
<1>1. /\ curr \in Blocks /\ ~ModulesWereDeleted
      /\ txn' = db /\ pc' = "module" /\ module' = 1
      /\ UNCHANGED <<head, calm, stable, db, curr, isReorgDetected, blocks>>
  BY DEF BeginTransaction, Inv, CurrIsAhead, env
<1>2. TypeOK'
  <2>1. 1 \in 1..(NModules + 1) BY ModulesTypes
  <2>2. lastChanged' \in Blocks \cup {NoBlock}
    BY <1>1 DEF BeginTransaction, Inv, TypeOK, Databases
  <2>. QED BY <1>1, <2>1, <2>2 DEF Inv, TypeOK, Phases
<1>3. CommittedFaithful'
  BY <1>1 DEF Inv, CommittedFaithful, prev, ModulesAt, ModuleFaithful
<1>4. TxnFaithful'
  <2>1. ASSUME NEW m \in ModulesAt(curr) PROVE ~(m < 1)
    BY <1>1, ModulesTypes DEF ModulesAt
  <2>2. ASSUME NEW m \in Modules, db.rows[m] # NoRow PROVE m \in ModulesAt(curr)
    <3>1. ~(m > ModuleCount[curr]) BY <1>1, <2>2 DEF ModulesWereDeleted
    <3>. QED BY <1>1, <3>1, ModulesTypes DEF Modules, ModulesAt
  <2>. QED BY <1>1, <2>1, <2>2 DEF TxnFaithful, ModulesAt
<1>5. ~NodeIsBehind' BY <1>1 DEF BeginTransaction, NodeIsBehind, prev
<1>. QED BY <1>1, <1>2, <1>3, <1>4, <1>5
   DEF Inv, CurrIsAhead, CheckedModule, NoReorgMeansDescendant

(* The modules the loop has passed after one more step. *)
LEMMA BelowNext ==
    ASSUME NEW m \in Int, NEW k \in Int, m # k
    PROVE  m < k + 1 <=> m < k
OBVIOUS

(* Whatever the loop does to its own module, done right, keeps the rest: it *)
(* touches one row and at most the table of that module's address.          *)
LEMMA InvModuleDone ==
    ASSUME Inv, InRound, InLoop,
           NEW row \in ModuleRows, NEW tab \in Blocks \cup {NoBlock},
           txn' = [txn EXCEPT !.tables[Addr] = tab, !.rows[module] = row],
           row.nonce = Nonce[curr][Addr],
           tab # NoBlock, Keyset[tab][Addr] = Keyset[curr][Addr],
           module' = module + 1, pc' = "module", blocks' = NoBlocks,
           lastChanged' \in Blocks \cup {NoBlock}, isReorgDetected' \in BOOLEAN,
           UNCHANGED <<head, calm, stable, db, curr>>
    PROVE  Inv'
PROOF
<1>1. /\ curr \in Blocks
      /\ module \in ModulesAt(curr) /\ module \in Modules
      /\ Addr \in Addresses
      /\ module + 1 \in 1..(NModules + 1)
  BY LoopModule
<1>2. txn \in Databases BY DEF Inv, TypeOK
<1>3. /\ txn'.rows = [txn.rows EXCEPT ![module] = row]
      /\ txn'.tables = [txn.tables EXCEPT ![Addr] = tab]
      /\ txn' \in Databases
  BY <1>1, <1>2 DEF Databases
<1>4. /\ txn.rows \in [Modules -> ModuleRows \cup {NoRow}]
      /\ txn.tables \in [Addresses -> Blocks \cup {NoBlock}]
  BY <1>2 DEF Databases
<1>5. row # NoRow BY AbsentAssumption DEF AbsentAssumption
<1>6. TypeOK'
  <2>1. NoBlocks \in [Numbers -> Blocks \cup {NoBlock, Missing}] BY DEF NoBlocks
  <2>. QED BY <1>1, <1>3, <2>1 DEF Inv, TypeOK, Phases
<1>7. CommittedFaithful'
  BY DEF Inv, CommittedFaithful, prev, ModulesAt, ModuleFaithful
<1>8. TxnFaithful'
  <2>1. ASSUME NEW m \in ModulesAt(curr)
        PROVE  IF m < module + 1
               THEN ModuleFaithful(txn', curr, m)
               ELSE /\ txn'.rows[m] = db.rows[m]
                    /\ txn'.tables[Address[curr][m]] = db.tables[Address[curr][m]]
    <3>1. m \in Modules /\ Address[curr][m] \in Addresses
      BY <1>1, ModulesTypes
    <3>2. CASE m = module
      <4>1. /\ txn'.rows[m] = row
            /\ txn'.tables[Address[curr][m]] = tab
        BY <1>1, <1>3, <1>4, <3>2 DEF Addr
      <4>2. m < module + 1 BY <3>2, <1>1, ModulesTypes DEF Modules
      <4>. QED BY <1>5, <3>2, <4>1, <4>2 DEF ModuleFaithful, Addr
    <3>3. CASE m # module
      <4>1. Address[curr][m] # Addr BY <1>1, <3>3, ModulesTypes DEF Addr
      <4>2. /\ txn'.rows[m] = txn.rows[m]
            /\ txn'.tables[Address[curr][m]] = txn.tables[Address[curr][m]]
        BY <1>3, <1>4, <3>1, <3>3, <4>1
      <4>3. m < module + 1 <=> m < module
        <5>1. m \in Int /\ module \in Int BY <1>1, <3>1, ModulesTypes DEF Modules
        <5>. QED BY <3>3, <5>1, BelowNext
      <4>. QED BY <4>2, <4>3 DEF Inv, TxnFaithful, ModuleFaithful
    <3>. QED BY <3>2, <3>3
  <2>2. ASSUME NEW m \in Modules, txn'.rows[m] # NoRow PROVE m \in ModulesAt(curr)
    <3>1. CASE m = module BY <1>1, <3>1
    <3>2. CASE m # module
      <4>1. txn'.rows[m] = txn.rows[m] BY <1>3, <1>4, <3>2
      <4>. QED BY <2>2, <4>1 DEF Inv, TxnFaithful
    <3>. QED BY <3>1, <3>2
  <2>. QED BY <2>1, <2>2 DEF TxnFaithful, ModulesAt, ModuleFaithful
<1>. QED BY <1>1, <1>6, <1>7, <1>8
   DEF Inv, CurrIsAhead, CheckedModule, NoReorgMeansDescendant, InRound,
       NodeIsBehind, prev

(* A module that is updated is faithful to the current block afterwards. *)
LEMMA InvUpdateModule ==
    ASSUME Inv, InRound, InLoop, UpdateModule, isReorgDetected' \in BOOLEAN
    PROVE  Inv'
PROOF
<1>1. /\ curr \in Blocks /\ module \in Modules
      /\ Addr \in Addresses
      /\ Row \in ModuleRows \cup {NoRow}
  BY LoopModule
<1>2. Nonce[curr][Addr] \in Nat BY <1>1, ModulesTypes
<1> DEFINE row == Upserted(Row, Addr, Nonce[curr][Addr], curr)
<1>3. row \in ModuleRows BY <1>1, <1>2, UpsertedType
<1>4. row.nonce = Nonce[curr][Addr] BY DEF Upserted
<1>5. curr # NoBlock BY <1>1, AncestorsFacts
<1>6. /\ txn' = [txn EXCEPT !.tables[Addr] = curr, !.rows[module] = row]
      /\ module' = module + 1 /\ pc' = "module" /\ blocks' = NoBlocks
      /\ lastChanged' \in Blocks \cup {NoBlock}
      /\ UNCHANGED <<head, calm, stable, db, curr>>
  BY <1>1 DEF UpdateModule, env
<1> HIDE DEF row
<1>. QED BY <1>1, <1>3, <1>4, <1>5, <1>6, InvModuleDone

(* A module that reached the events check: its nonce is the committed one,  *)
(* the previous block is on the chain of the current one, so its keys are   *)
(* the current block's.                                                     *)
LEMMA KeptModule ==
    ASSUME Inv, pc = "events"
    PROVE  /\ Address[prev][module] = Addr
           /\ Nonce[prev][Addr] = Nonce[curr][Addr]
           /\ db.tables[Addr] # NoBlock
           /\ Keyset[db.tables[Addr]][Addr] = Keyset[curr][Addr]
PROOF
<1>1. InRound /\ InLoop /\ ~MustUpdate /\ prev \in Ancestors[curr]
  BY DEF Inv, InRound, CheckedModule, NoReorgMeansDescendant
<1>2. curr \in Blocks /\ module \in Modules /\ Row = db.rows[module]
  BY <1>1, LoopModule
<1>3. Row # NoRow /\ Row.nonce = Nonce[curr][Addr] /\ prev # NoBlock
  BY <1>1 DEF MustUpdate, NoPastState, NonceChanged
<1>4. module \in ModulesAt(prev) BY <1>2, <1>3 DEF Inv, CommittedFaithful
<1>5. ModuleFaithful(db, prev, module)
  BY <1>3, <1>4 DEF Inv, CommittedFaithful
<1>6. /\ Address[prev][module] = Addr
      /\ Nonce[prev][Addr] = Nonce[curr][Addr] => Keyset[prev][Addr] = Keyset[curr][Addr]
  BY <1>1, <1>2, <1>4, SameNonceSameKeys DEF Addr
<1>. QED BY <1>2, <1>3, <1>5, <1>6 DEF ModuleFaithful

(* A kept module is still right for the current block. *)
LEMMA InvKeepModule ==
    ASSUME Inv, pc = "events", KeepModule
    PROVE  Inv'
PROOF
<1>1. InRound /\ InLoop /\ ~MustUpdate /\ prev \in Ancestors[curr]
  BY DEF Inv, InRound, CheckedModule, NoReorgMeansDescendant
<1>2. /\ curr \in Blocks /\ module \in Modules
      /\ Addr \in Addresses
      /\ Row \in ModuleRows \cup {NoRow}
      /\ Row = db.rows[module]
      /\ txn.tables[Addr] = db.tables[Addr]
  BY <1>1, LoopModule
<1>3. Row # NoRow /\ Row.nonce = Nonce[curr][Addr] /\ prev # NoBlock
  BY <1>1 DEF MustUpdate, NoPastState, NonceChanged
<1>4. /\ db.tables[Addr] # NoBlock
      /\ Keyset[db.tables[Addr]][Addr] = Keyset[curr][Addr]
  BY KeptModule
<1>5. /\ Row \in ModuleRows /\ Row.nonce \in Nat /\ Row.lastChanged \in Blocks
  BY <1>2, <1>3 DEF ModuleRows
<1> DEFINE row == Upserted(Row, Addr, Row.nonce, Row.lastChanged)
           tab == txn.tables[Addr]
<1>6. row \in ModuleRows BY <1>2, <1>5, UpsertedType
<1>7. row.nonce = Nonce[curr][Addr] BY <1>3 DEF Upserted
<1>8. txn \in Databases BY DEF Inv, TypeOK
<1>9. tab \in Blocks \cup {NoBlock} BY <1>2, <1>8 DEF Databases
<1>10. txn' = [txn EXCEPT !.tables[Addr] = tab, !.rows[module] = row]
  <2>1. txn' = [txn EXCEPT !.rows[module] = row] BY DEF KeepModule
  <2>2. txn.tables = [txn.tables EXCEPT ![Addr] = tab]
    BY <1>2, <1>8 DEF Databases
  <2>3. [txn EXCEPT !.tables[Addr] = tab, !.rows[module] = row]
          = [txn EXCEPT !.rows[module] = row]
    BY <1>8, <2>2 DEF Databases
  <2>. QED BY <2>1, <2>3
<1>11. /\ module' = module + 1 /\ pc' = "module" /\ blocks' = NoBlocks
       /\ lastChanged' \in Blocks \cup {NoBlock} /\ isReorgDetected' \in BOOLEAN
       /\ UNCHANGED <<head, calm, stable, db, curr>>
  BY DEF KeepModule, env, state, Inv, TypeOK
<1>12. tab # NoBlock /\ Keyset[tab][Addr] = Keyset[curr][Addr] BY <1>2, <1>4
<1> HIDE DEF row, tab
<1>. QED BY <1>1, <1>6, <1>7, <1>9, <1>10, <1>11, <1>12, InvModuleDone

(* The loop has passed every module of the block: all of them are right. *)
LEMMA InvCommit == ASSUME Inv, Commit PROVE Inv'
PROOF
<1>1. /\ pc = "module" /\ ~InLoop /\ EndRound
      /\ db' = [txn EXCEPT !.block = curr, !.lastChanged = lastChanged]
      /\ UNCHANGED <<head, calm, stable>>
  BY DEF Commit, env
<1>2. curr \in Blocks /\ InRound BY <1>1 DEF Inv, CurrIsAhead, InRound
<1>3. txn \in Databases /\ lastChanged \in Blocks \cup {NoBlock}
  BY DEF Inv, TypeOK
<1>4. /\ db' \in Databases /\ db'.block = curr
      /\ db'.rows = txn.rows /\ db'.tables = txn.tables
  BY <1>1, <1>2, <1>3 DEF Databases
<1>5. TypeOK' BY <1>1, <1>4, EndRoundType DEF Inv, TypeOK, Phases
<1>6. ASSUME NEW m \in ModulesAt(curr) PROVE ModuleFaithful(txn, curr, m)
  <2>1. m < module
    BY <1>1, <1>2, ModulesTypes DEF InLoop, ModulesAt, Inv, TypeOK
  <2>. QED BY <1>2, <2>1 DEF Inv, TxnFaithful
<1>7. ASSUME NEW m \in Modules, txn.rows[m] # NoRow
      PROVE  curr # NoBlock /\ m \in ModulesAt(curr)
  BY <1>2, <1>7, AncestorsFacts DEF Inv, TxnFaithful
<1>8. CommittedFaithful'
  BY <1>4, <1>6, <1>7 DEF CommittedFaithful, prev, ModulesAt, ModuleFaithful
<1>9. pc' = "idle" BY <1>1 DEF EndRound
<1>. QED BY <1>5, <1>8, <1>9
   DEF Inv, CurrIsAhead, TxnFaithful, CheckedModule, NoReorgMeansDescendant, InRound

(* The module a round checks stays the one it decided about. *)
LEMMA CheckedModulePreserved ==
    ASSUME Inv, InLoop, ~MustUpdate,
           UNCHANGED <<db, txn, curr, module>>
    PROVE  CheckedModule'
BY DEF CheckedModule, InLoop, MustUpdate, NoPastState, NonceChanged, TooMuchDiff,
       prev, Row, Addr

(* The parent of the current block is on its chain. *)
LEMMA InvReorgCheckParent == ASSUME Inv, ReorgCheckParent PROVE Inv'
PROOF
<1>1. /\ pc = "module" /\ pc' = "events" /\ InLoop /\ ~MustUpdate
      /\ Parent[curr] = prev
      /\ UNCHANGED <<head, calm, stable, db, txn, curr, module, lastChanged,
                     isReorgDetected, blocks>>
  BY DEF ReorgCheckParent, ReorgCheckBegins, env, state
<1>2. curr \in Blocks BY <1>1 DEF Inv, CurrIsAhead, InRound
<1>3. prev \in Ancestors[curr]
  BY <1>1, <1>2, AncestorsFacts DEF MustUpdate, NoPastState
<1>4. TypeOK' BY <1>1 DEF Inv, TypeOK, Phases
<1>5. CommittedFaithful'
  BY <1>1 DEF Inv, CommittedFaithful, prev, ModulesAt, ModuleFaithful
<1>6. TxnFaithful'
  BY <1>1 DEF Inv, TxnFaithful, InRound, ModulesAt, ModuleFaithful
<1>7. CheckedModule' BY <1>1, CheckedModulePreserved
<1>8. NoReorgMeansDescendant' BY <1>1, <1>3 DEF NoReorgMeansDescendant, prev
<1>. QED BY <1>1, <1>2, <1>4, <1>5, <1>6, <1>7, <1>8
   DEF Inv, CurrIsAhead, InRound, NodeIsBehind, prev

(* Asking for blocks changes no table. *)
LEMMA InvReorgCheckStart == ASSUME Inv, ReorgCheckStart PROVE Inv'
PROOF
<1>1. /\ pc = "module" /\ pc' = "reorg" /\ InLoop /\ ~MustUpdate
      /\ UNCHANGED <<head, calm, stable, db, txn, curr, module, lastChanged,
                     isReorgDetected, blocks>>
  BY DEF ReorgCheckStart, ReorgCheckBegins, env, state
<1>2. curr \in Blocks BY <1>1 DEF Inv, CurrIsAhead, InRound
<1>3. TypeOK' BY <1>1 DEF Inv, TypeOK, Phases
<1>4. CommittedFaithful'
  BY <1>1 DEF Inv, CommittedFaithful, prev, ModulesAt, ModuleFaithful
<1>5. TxnFaithful'
  BY <1>1 DEF Inv, TxnFaithful, InRound, ModulesAt, ModuleFaithful
<1>6. CheckedModule' BY <1>1, CheckedModulePreserved
<1>. QED BY <1>1, <1>2, <1>3, <1>4, <1>5, <1>6
   DEF Inv, CurrIsAhead, NoReorgMeansDescendant, InRound, NodeIsBehind, prev

(* The node answers with a block or with nothing. *)
LEMMA AtNumberType ==
    ASSUME NEW h \in Blocks, NEW n
    PROVE  AtNumber(h, n) \in Blocks \cup {NoBlock}
BY AncestorsFacts DEF AtNumber

(* An answer of the node changes no table. *)
LEMMA InvGetFullBlock ==
    ASSUME Inv, NEW n \in Numbers, GetFullBlock(n) PROVE Inv'
PROOF
<1>1. /\ pc = "reorg"
      /\ UNCHANGED <<head, calm, stable, db, txn, pc, curr, module, lastChanged, isReorgDetected>>
  BY DEF GetFullBlock, env, state
<1>2. blocks' \in [Numbers -> Blocks \cup {NoBlock, Missing}]
  <2>1. AtNumber(head, n) \in Blocks \cup {NoBlock}
    BY AtNumberType DEF Inv, TypeOK
  <2>. QED BY <2>1 DEF GetFullBlock, Inv, TypeOK
<1>3. TypeOK' BY <1>1, <1>2 DEF Inv, TypeOK
<1>4. CommittedFaithful'
  BY <1>1 DEF Inv, CommittedFaithful, prev, ModulesAt, ModuleFaithful
<1>5. CurrIsAhead' BY <1>1 DEF Inv, CurrIsAhead, InRound, NodeIsBehind, prev
<1>6. TxnFaithful'
  BY <1>1 DEF Inv, TxnFaithful, InRound, ModulesAt, ModuleFaithful
<1>7. CheckedModule'
  <2>1. InLoop /\ ~MustUpdate BY <1>1 DEF Inv, CheckedModule
  <2>. QED BY <1>1, <2>1, CheckedModulePreserved
<1>8. NoReorgMeansDescendant' BY <1>1 DEF NoReorgMeansDescendant
<1>. QED BY <1>3, <1>4, <1>5, <1>6, <1>7, <1>8 DEF Inv

(* The verdict "no reorg" is true, whatever views answered. *)
LEMMA VerdictIsSound ==
    ASSUME Inv, pc = "reorg", AllAnswered, ChainIsIntact
    PROVE  prev \in Ancestors[curr]
PROOF
<1>1. curr \in Blocks BY DEF Inv, CurrIsAhead, InRound
<1>2. prev \in Blocks
  BY DEF Inv, CheckedModule, MustUpdate, NoPastState, TypeOK, Databases, prev
<1>3. Number[prev] \in Nat /\ Number[curr] \in Nat
  BY <1>1, <1>2, AncestorsFacts
<1>4. CASE Number[prev] <= Number[curr]
  <2>1. blocks[Number[prev]] = prev /\ blocks[Number[curr]] = curr
    BY DEF ChainIsIntact, First, Last
  <2>2. \A n \in Number[prev]..Number[curr] : blocks[n] # NoBlock
    BY DEF AllAnswered, CheckedNumbers
  <2>3. \A n \in (Number[prev]..Number[curr]) \ {Number[prev]} : Linked(n)
    BY DEF ChainIsIntact, CheckedNumbers
  <2>. QED BY <1>1, <1>3, <1>4, <2>1, <2>2, <2>3, LinkedBlocksAreAncestors
<1>5. CASE ~(Number[prev] <= Number[curr])
  BY <1>2, <1>3, <1>5, AncestorsFacts DEF Inv, CurrIsAhead, NodeIsBehind, InRound
<1>. QED BY <1>4, <1>5

(* The verdict "no reorg" is sound, by VerdictIsSound. *)
LEMMA InvNoReorg == ASSUME Inv, NoReorg PROVE Inv'
PROOF
<1>1. /\ pc = "reorg" /\ AllAnswered /\ ChainIsIntact /\ pc' = "events"
      /\ UNCHANGED <<head, calm, stable, db, txn, curr, module, lastChanged,
                     isReorgDetected, blocks>>
  BY DEF NoReorg, env, state
<1>2. prev \in Ancestors[curr] BY <1>1, VerdictIsSound
<1>3. TypeOK' BY <1>1 DEF Inv, TypeOK, Phases
<1>4. CommittedFaithful'
  BY <1>1 DEF Inv, CommittedFaithful, prev, ModulesAt, ModuleFaithful
<1>5. CurrIsAhead' BY <1>1 DEF Inv, CurrIsAhead, InRound, NodeIsBehind, prev
<1>6. TxnFaithful'
  BY <1>1 DEF Inv, TxnFaithful, InRound, ModulesAt, ModuleFaithful
<1>7. CheckedModule'
  <2>1. InLoop /\ ~MustUpdate BY <1>1 DEF Inv, CheckedModule
  <2>. QED BY <1>1, <2>1, CheckedModulePreserved
<1>8. NoReorgMeansDescendant' BY <1>1, <1>2 DEF NoReorgMeansDescendant, prev
<1>. QED BY <1>3, <1>4, <1>5, <1>6, <1>7, <1>8 DEF Inv

(* Every step preserves the invariant: one case per action. *)
LEMMA InvStep == Inv /\ [Next]_vars => Inv'
PROOF
<1> SUFFICES ASSUME Inv, [Next]_vars PROVE Inv'
  OBVIOUS
<1>0. head \in Blocks /\ calm \in BOOLEAN /\ stable \in BOOLEAN /\ isReorgDetected \in BOOLEAN
  BY DEF Inv, TypeOK
<1>1. CASE HeadMoves BY <1>0, <1>1, InvUnchanged DEF HeadMoves, state
<1>2. CASE CalmDown BY <1>0, <1>2, InvUnchanged DEF CalmDown, state
<1>3. CASE GetLatest
  <2>1. /\ pc' = "compare" /\ curr' = head
        /\ UNCHANGED <<head, calm, stable, db, txn, module, lastChanged, isReorgDetected, blocks>>
    BY <1>3 DEF GetLatest, env, state
  <2>2. TypeOK' BY <1>0, <2>1 DEF Inv, TypeOK, Phases
  <2>3. CommittedFaithful'
    BY <2>1 DEF Inv, CommittedFaithful, prev, ModulesAt, ModuleFaithful
  <2>. QED BY <1>0, <2>1, <2>2, <2>3
     DEF Inv, CurrIsAhead, TxnFaithful, CheckedModule, NoReorgMeansDescendant, InRound
<1>4. CASE NothingToUpdate BY <1>0, <1>4, InvEndRound DEF NothingToUpdate, env
<1>5. CASE ExitOnUnknownType \/ ExitOnDeletedModules
  <2>1. /\ pc' = "down" /\ curr' = NoBlock
        /\ UNCHANGED <<head, calm, stable, db, txn, module, lastChanged, isReorgDetected, blocks>>
    BY <1>5 DEF ExitOnUnknownType, ExitOnDeletedModules, env, state
  <2>2. TypeOK' BY <1>0, <2>1 DEF Inv, TypeOK, Phases
  <2>3. CommittedFaithful'
    BY <2>1 DEF Inv, CommittedFaithful, prev, ModulesAt, ModuleFaithful
  <2>. QED BY <2>1, <2>2, <2>3
     DEF Inv, CurrIsAhead, TxnFaithful, CheckedModule, NoReorgMeansDescendant, InRound
<1>6. CASE Restart BY <1>0, <1>6, InvEndRound DEF Restart, env
<1>7. CASE BeginTransaction BY <1>7, InvBeginTransaction
<1>8. CASE UpdateOutright
  BY <1>0, <1>8, InvUpdateModule DEF UpdateOutright, InRound
<1>9. CASE ReorgCheckParent BY <1>9, InvReorgCheckParent
<1>10. CASE ReorgCheckSameHeight
  BY <1>10, InvUpdateModule DEF ReorgCheckSameHeight, ReorgCheckBegins, InRound
<1>11. CASE ReorgCheckStart BY <1>11, InvReorgCheckStart
<1>12. ASSUME NEW n \in Numbers, GetFullBlock(n) PROVE Inv'
  BY <1>12, InvGetFullBlock
<1>13. CASE NoReorg BY <1>13, InvNoReorg
<1>14. CASE ReorgFound
  <2>1. InRound /\ InLoop BY <1>14 DEF ReorgFound, Inv, CheckedModule, InRound
  <2>. QED BY <1>14, <2>1, InvUpdateModule DEF ReorgFound
<1>15. CASE ReorgCheckThrows BY <1>0, <1>15, InvEndRound DEF ReorgCheckThrows, env
<1>16. CASE CheckEvents
  <2>1. InRound /\ InLoop /\ pc = "events"
    BY <1>16 DEF CheckEvents, Inv, CheckedModule, InRound
  <2>2. CASE OperatorsWereChanged
    BY <1>0, <1>16, <2>1, <2>2, InvUpdateModule DEF CheckEvents
  <2>3. CASE ~OperatorsWereChanged
    BY <1>16, <2>1, <2>3, InvKeepModule DEF CheckEvents
  <2>. QED BY <2>2, <2>3
<1>17. CASE Commit BY <1>17, InvCommit
<1>18. CASE Rollback BY <1>0, <1>18, InvEndRound DEF Rollback, env
<1>19. CASE ReorgCheckForgotten BY <1>0, <1>19, InvEndRound DEF ReorgCheckForgotten, env
<1>20. CASE UNCHANGED vars BY <1>0, <1>20, InvUnchanged DEF vars, env, state
<1>. QED BY <1>1, <1>2, <1>3, <1>4, <1>5, <1>6, <1>7, <1>8, <1>9, <1>10, <1>11,
            <1>12, <1>13, <1>14, <1>15, <1>16, <1>17, <1>18, <1>19, <1>20 DEF Next, Progress

-----------------------------------------------------------------------------
(* Every reachable state of the service is well typed. *)
THEOREM KeysUpdateTypeCorrect == Spec => []TypeOK
<1>1. Inv => TypeOK BY DEF Inv
<1>. QED BY <1>1, InvInit, InvStep, PTL DEF Spec

(* isReorgDetected never overlooks a reorganisation, however the node's     *)
(* head moved between the blocks it asked for.                              *)
THEOREM ReorgCheckSound == Spec => []NoReorgMeansDescendant
<1>1. Inv => NoReorgMeansDescendant BY DEF Inv
<1>. QED BY <1>1, InvInit, InvStep, PTL DEF Spec

(* The keys beside an el_meta block are the contract's keys at that block,  *)
(* for every chain, every node and every pattern of failures.               *)
THEOREM SnapshotKeysCorrect == Spec => []SnapshotKeysFaithful
<1>1. Inv => SnapshotKeysFaithful
  BY DEF Inv, CommittedFaithful, ModuleFaithful, SnapshotKeysFaithful
<1>. QED BY <1>1, InvInit, InvStep, PTL DEF Spec
-----------------------------------------------------------------------------
(* What else a snapshot says: the mark of the last change, the module rows, *)
(* and the names as long as no round's block left the node's chain.         *)

(* A block's ancestors are not above it. *)
LEMMA AncestorsAreBelow ==
    ASSUME NEW b \in Blocks, NEW a \in Ancestors[b]
    PROVE  Number[a] <= Number[b]
PROOF
<1> DEFINE C == {c \in Ancestors[b] : a \in Ancestors[c]}
           T == {Number[c] : c \in C}
<1>1. b \in C BY AncestorsFacts
<1>2. C \subseteq Blocks /\ T \subseteq Nat /\ T # {} BY <1>1, AncestorsFacts
<1>3. PICK x \in T : \A y \in T : ~(y < x) BY <1>2, LeastNatural
<1>4. PICK c \in C : x = Number[c] BY <1>3
<1>5. CASE c = a
  <2>1. ~(Number[b] < Number[a]) BY <1>1, <1>3, <1>4, <1>5
  <2>2. Number[a] \in Nat /\ Number[b] \in Nat BY <1>2, <1>4, <1>5, AncestorsFacts
  <2>. QED BY <2>1, <2>2
<1>6. CASE c # a
  <2>1. c \in Blocks /\ c \in Ancestors[b] /\ a \in Ancestors[c] BY <1>2, <1>4
  <2>2. Parent[c] # NoBlock /\ a \in Ancestors[Parent[c]]
    BY <1>6, <2>1, ChainAssumption DEF ChainAssumption
  <2>3. Number[c] = Number[Parent[c]] + 1 BY <2>1, <2>2, ChainAssumption DEF ChainAssumption
  <2>4. Parent[c] \in C BY <2>1, <2>2, AncestorsFacts
  <2>5. Number[Parent[c]] \in Nat /\ ~(Number[Parent[c]] < Number[c])
    BY <1>2, <1>3, <1>4, <2>4
  <2>. QED BY <2>3, <2>5
<1>. QED BY <1>5, <1>6

(* On one chain, what is not below a block is above it. *)
LEMMA LaterBlocksAreAbove ==
    ASSUME NEW b \in Blocks, NEW p \in Ancestors[b], NEW e \in Ancestors[b] \ Ancestors[p]
    PROVE  Number[p] < Number[e]
PROOF
<1> DEFINE C == {c \in Ancestors[b] : p \in Ancestors[c] /\ e \in Ancestors[c]}
           T == {Number[c] : c \in C}
<1>1. b \in C BY AncestorsFacts
<1>2. C \subseteq Blocks /\ T \subseteq Nat /\ T # {} BY <1>1, AncestorsFacts
<1>3. PICK x \in T : \A y \in T : ~(y < x) BY <1>2, LeastNatural
<1>4. PICK c \in C : x = Number[c] BY <1>3
<1>5. c \in Blocks /\ c \in Ancestors[b] /\ p \in Ancestors[c] /\ e \in Ancestors[c]
  BY <1>2, <1>4
<1>6. CASE c = e
  <2>1. e \in Blocks /\ p \in Blocks BY AncestorsFacts
  <2>2. Number[p] <= Number[e] BY <1>5, <1>6, <2>1, AncestorsAreBelow
  <2>3. p # e BY <2>1, AncestorsFacts
  <2>4. Number[p] # Number[e] BY <2>3, ChainAssumption DEF ChainAssumption
  <2>5. Number[p] \in Nat /\ Number[e] \in Nat BY <2>1, AncestorsFacts
  <2>. QED BY <2>2, <2>4, <2>5
<1>7. CASE c # e
  <2>1. c # p BY <1>5
  <2>2. Parent[c] # NoBlock /\ p \in Ancestors[Parent[c]] /\ e \in Ancestors[Parent[c]]
    BY <1>5, <1>7, <2>1, ChainAssumption DEF ChainAssumption
  <2>3. Number[c] = Number[Parent[c]] + 1 BY <1>5, <2>2, ChainAssumption DEF ChainAssumption
  <2>4. Parent[c] \in C BY <1>5, <2>2, AncestorsFacts
  <2>5. Number[Parent[c]] \in Nat /\ ~(Number[Parent[c]] < Number[c])
    BY <1>2, <1>3, <1>4, <2>4
  <2>. QED BY <2>3, <2>5
<1>. QED BY <1>6, <1>7

(* What a reader is told of a module beside its keys.  Its mark names the   *)
(* block of its tables, and the snapshot's mark a block with the same keys. *)
Marked(d, mark, b, m) ==
    LET a == Address[b][m] IN
    /\ d.rows[m].lastChanged = d.tables[a]
    /\ m <= ModuleCount[mark]
    /\ Keyset[d.tables[a]][a] = Keyset[mark][a]

(* Every module id has one address on every branch. *)
AddressesAgree == \A m \in Modules : OneAddress(m)

Described(d, mark, b, m, named) ==
    /\ Marked(d, mark, b, m)
    /\ d.rows[m].address \in AddressesOf(m)
    /\ d.rows[m].shown = b
    /\ named => Names[d.tables[Address[b][m]]][Address[b][m]] = Names[b][Address[b][m]]

(* All of the committed db, and of the modules the loop has passed.         *)
DbDescribed ==
    prev # NoBlock =>
        /\ db.lastChanged \in Blocks
        /\ \A m \in ModulesAt(prev) : Described(db, db.lastChanged, prev, m, stable)

TxnDescribed ==
    InRound =>
        /\ ~ModulesWereDeleted
        /\ lastChanged \in Blocks
        /\ lastChanged \in {db.lastChanged, curr}
        /\ \A m \in ModulesAt(curr) : m < module => Described(txn, lastChanged, curr, m, stable)

OnTheNodesChain == stable /\ curr # NoBlock => curr \in Ancestors[head]

More == DbDescribed /\ TxnDescribed /\ OnTheNodesChain

(* Less is claimed when stable falls. *)
LEMMA DescribedLess ==
    ASSUME NEW d, NEW mark, NEW b, NEW m, NEW s, NEW t, Described(d, mark, b, m, s), t => s
    PROVE  Described(d, mark, b, m, t)
BY DEF Described

(* Nothing is claimed of the empty database. *)
LEMMA MoreInit == Init => More
BY DEF Init, More, DbDescribed, TxnDescribed, OnTheNodesChain, InRound, EmptyDb, prev

(* The committed db is described as long as it stays. *)
LEMMA DbStays ==
    ASSUME DbDescribed, db' = db, stable' => stable
    PROVE  DbDescribed'
<1>1. ASSUME prev # NoBlock, NEW m \in ModulesAt(prev)
      PROVE  Described(db, db.lastChanged, prev, m, stable')
  BY <1>1, DescribedLess DEF DbDescribed
<1>. QED BY <1>1 DEF DbDescribed, prev, ModulesAt

(* The end of a round keeps the committed db. *)
LEMMA MoreEndRound ==
    ASSUME More, EndRound, UNCHANGED <<stable, db>>
    PROVE  More'
<1>1. DbDescribed' BY DbStays DEF More
<1>. QED BY <1>1 DEF More, TxnDescribed, InRound, OnTheNodesChain, EndRound

(* Steps that touch neither the db nor the transaction. *)
LEMMA MoreQuiet ==
    ASSUME More, InRound' => InRound,
           UNCHANGED <<head, stable, db, txn, curr, module, lastChanged>>
    PROVE  More'
<1>1. DbDescribed' BY DbStays DEF More
<1>2. TxnDescribed' BY DEF More, TxnDescribed, ModulesAt, ModulesWereDeleted
<1>. QED BY <1>1, <1>2 DEF More, OnTheNodesChain

(* A new head leaves the round's block on its chain, or ends stable. *)
LEMMA MoreHeadMoves == ASSUME More, HeadMoves PROVE More'
<1>1. /\ stable' => stable
      /\ stable' /\ curr # NoBlock => curr \in Ancestors[head']
      /\ UNCHANGED <<db, txn, pc, curr, module, lastChanged>>
  BY DEF HeadMoves, state
<1>2. DbDescribed' BY <1>1, DbStays DEF More
<1>3. ASSUME InRound, NEW m \in ModulesAt(curr), m < module
      PROVE  Described(txn, lastChanged, curr, m, stable')
  BY <1>1, <1>3, DescribedLess DEF More, TxnDescribed
<1>4. TxnDescribed' BY <1>1, <1>3 DEF More, TxnDescribed, InRound, ModulesAt, ModulesWereDeleted
<1>. QED BY <1>1, <1>2, <1>4 DEF More, OnTheNodesChain

(* The mark starts as the committed one, if there is any. *)
LEMMA MoreBeginTransaction == ASSUME Inv, More, BeginTransaction PROVE More'
<1>1. /\ curr \in Blocks /\ ~ModulesWereDeleted /\ pc' = "module" /\ module' = 1
      /\ UNCHANGED <<head, stable, db, curr>>
      /\ lastChanged' = IF db.lastChanged # NoBlock THEN db.lastChanged ELSE curr
  BY DEF BeginTransaction, Inv, CurrIsAhead, env
<1>2. DbDescribed' BY <1>1, DbStays DEF More
<1>3. \A m \in ModulesAt(curr) : ~(m < 1) BY <1>1, ModulesTypes DEF ModulesAt
<1>4. lastChanged' \in Blocks /\ lastChanged' \in {db.lastChanged, curr}
  BY <1>1 DEF Inv, TypeOK, Databases
<1>. QED BY <1>1, <1>2, <1>3, <1>4
   DEF More, TxnDescribed, OnTheNodesChain, ModulesAt, ModulesWereDeleted

(* Another module than the one the loop is at is as it was. *)
LEMMA OthersUntouched ==
    ASSUME Inv, InRound, InLoop, NEW row, NEW tab, NEW m \in ModulesAt(curr), m < module + 1,
           m # module,
           txn'.rows = [txn.rows EXCEPT ![module] = row],
           txn'.tables = [txn.tables EXCEPT ![Addr] = tab]
    PROVE  /\ m < module
           /\ txn'.rows[m] = txn.rows[m]
           /\ txn'.tables[Address[curr][m]] = txn.tables[Address[curr][m]]
<1>1. /\ curr \in Blocks /\ module \in ModulesAt(curr) /\ module \in Modules
      /\ Addr \in Addresses
  BY LoopModule
<1>2. m \in Modules /\ Address[curr][m] \in Addresses /\ m \in Int /\ module \in Int
  BY <1>1, ModulesTypes DEF Modules
<1>3. Address[curr][m] # Addr BY <1>1, ModulesTypes DEF Addr
<1>4. /\ txn.rows \in [Modules -> ModuleRows \cup {NoRow}]
      /\ txn.tables \in [Addresses -> Blocks \cup {NoBlock}]
  BY DEF Inv, TypeOK, Databases
<1>. QED BY <1>1, <1>2, <1>3, <1>4, BelowNext

(* A row that is there is that of a module of the previous block. *)
LEMMA RowIsDescribed ==
    ASSUME Inv, More, InRound, InLoop, Row # NoRow
    PROVE  /\ prev \in Blocks /\ module \in ModulesAt(prev)
           /\ Described(db, db.lastChanged, prev, module, stable)
<1>1. module \in Modules /\ Row = db.rows[module] BY LoopModule
<1>2. prev # NoBlock /\ module \in ModulesAt(prev)
  BY <1>1 DEF Inv, CommittedFaithful
<1>3. prev \in Blocks BY <1>2 DEF Inv, TypeOK, Databases, prev
<1>. QED BY <1>2, <1>3 DEF More, DbDescribed

(* The address of a module of a block is one of its addresses. *)
LEMMA AddressIsOne ==
    ASSUME NEW b \in Blocks, NEW m \in ModulesAt(b)
    PROVE  Address[b][m] \in AddressesOf(m)
BY DEF AddressesOf, BlocksWith

(* The address of a row that is kept is one the module has had somewhere.   *)
LEMMA UpsertedAddress ==
    ASSUME Inv, More, InRound, InLoop, NEW nonce, NEW hash
    PROVE  Upserted(Row, Addr, nonce, hash).address \in AddressesOf(module)
<1>1. curr \in Blocks /\ module \in ModulesAt(curr) /\ Row = db.rows[module]
  BY LoopModule
<1>2. CASE Row = NoRow
  <2>1. Addr \in AddressesOf(module) BY <1>1, AddressIsOne DEF Addr
  <2>. QED BY <1>2, <2>1 DEF Upserted
<1>3. CASE Row # NoRow
  <2>1. Described(db, db.lastChanged, prev, module, stable)
    BY <1>3, RowIsDescribed
  <2>. QED BY <1>1, <1>3, <2>1 DEF Described, Upserted
<1>. QED BY <1>2, <1>3

(* Where every id has one address, it is the module's. *)
LEMMA UpsertedAgrees ==
    ASSUME Inv, More, InRound, InLoop, AddressesAgree, NEW nonce, NEW hash
    PROVE  Upserted(Row, Addr, nonce, hash).address = Addr
<1>1. /\ curr \in Blocks /\ module \in ModulesAt(curr) /\ module \in Modules
  BY LoopModule
<1>2. Addr \in AddressesOf(module) BY <1>1, AddressIsOne DEF Addr
<1>3. Upserted(Row, Addr, nonce, hash).address \in AddressesOf(module)
  BY UpsertedAddress
<1>. QED BY <1>1, <1>2, <1>3 DEF AddressesAgree, OneAddress

(* An updated module is marked with the round's block, whose keys all the   *)
(* modules before it have too. *)
LEMMA MoreUpdateModule ==
    ASSUME Inv, More, InRound, InLoop, UpdateModule
    PROVE  More'
<1>1. /\ curr \in Blocks /\ module \in ModulesAt(curr) /\ module \in Modules
      /\ Addr \in Addresses
      /\ Row \in ModuleRows \cup {NoRow}
  BY LoopModule
<1> DEFINE row == Upserted(Row, Addr, Nonce[curr][Addr], curr)
<1>2. /\ txn' = [txn EXCEPT !.tables[Addr] = curr, !.rows[module] = row]
      /\ lastChanged' = curr /\ module' = module + 1
      /\ UNCHANGED <<head, stable, db, curr>>
  BY DEF UpdateModule, env
<1>3. txn \in Databases BY DEF Inv, TypeOK
<1>4. row.lastChanged = curr /\ row.shown = curr BY DEF Upserted
<1>5. row.address \in AddressesOf(module) BY UpsertedAddress
<1> HIDE DEF row
<1>6. /\ txn'.rows = [txn.rows EXCEPT ![module] = row]
      /\ txn'.tables = [txn.tables EXCEPT ![Addr] = curr]
      /\ txn.rows \in [Modules -> ModuleRows \cup {NoRow}]
      /\ txn.tables \in [Addresses -> Blocks \cup {NoBlock}]
  BY <1>1, <1>2, <1>3 DEF Databases
<1>7. DbDescribed' BY <1>2, DbStays DEF More
<1>8. ASSUME NEW m \in ModulesAt(curr), m < module + 1
      PROVE  Described(txn', curr, curr, m, stable)
  <2>1. m <= ModuleCount[curr] BY <1>1, ModulesTypes DEF ModulesAt
  <2>2. CASE m = module
    <3>1. txn'.rows[m] = row /\ txn'.tables[Addr] = curr BY <1>1, <1>6, <2>2
    <3>. QED BY <1>4, <1>5, <2>1, <2>2, <3>1 DEF Described, Marked, Addr
  <2>3. CASE m # module
    <3>1. /\ m < module
          /\ txn'.rows[m] = txn.rows[m]
          /\ txn'.tables[Address[curr][m]] = txn.tables[Address[curr][m]]
      BY <1>6, <1>8, <2>3, OthersUntouched
    <3>2. Described(txn, lastChanged, curr, m, stable) BY <3>1 DEF More, TxnDescribed
    <3>3. ModuleFaithful(txn, curr, m) BY <3>1 DEF Inv, TxnFaithful
    <3>. QED BY <2>1, <3>1, <3>2, <3>3 DEF Described, Marked, ModuleFaithful
  <2>. QED BY <2>2, <2>3
<1>9. TxnDescribed' BY <1>1, <1>2, <1>8 DEF More, TxnDescribed, ModulesAt, ModulesWereDeleted
<1>. QED BY <1>2, <1>7, <1>9 DEF More, OnTheNodesChain

(* A module is kept on the answer of the events only if its names are those *)
(* of the current block, as long as that block is on the node's chain.      *)
LEMMA KeptNames ==
    ASSUME Inv, More, pc = "events", ~OperatorsWereChanged, stable
    PROVE  Names[prev][Addr] = Names[curr][Addr]
<1>1. /\ InRound /\ InLoop /\ ~MustUpdate /\ prev \in Ancestors[curr]
  BY DEF Inv, InRound, CheckedModule, NoReorgMeansDescendant
<1>2. curr \in Blocks /\ Addr \in Addresses BY <1>1, LoopModule
<1>3. prev # NoBlock /\ Row # NoRow /\ Row.nonce = Nonce[curr][Addr]
  BY <1>1 DEF MustUpdate, NoPastState, NonceChanged
<1>4. Nonce[prev][Addr] = Nonce[curr][Addr] BY <1>1, <1>3, KeptModule
<1>5. SUFFICES ASSUME Names[prev][Addr] # Names[curr][Addr] PROVE FALSE
  OBVIOUS
<1>6. PICK e \in Ancestors[curr] \ Ancestors[prev] : TypeOf[Addr] \in Topics[e]
  BY <1>1, <1>2, <1>4, <1>5, ModulesAssumption DEF ModulesAssumption
<1>7. Number[prev] < Number[e] BY <1>1, <1>2, LaterBlocksAreAbove
<1>8. Number[e] <= Number[curr] BY <1>2, AncestorsAreBelow
<1>9. /\ Number[prev] \in Nat /\ Number[e] \in Nat /\ Number[curr] \in Nat
  BY <1>1, <1>2, AncestorsFacts
<1>10. head \in Blocks /\ curr \in Ancestors[head]
  BY <1>2, AncestorsFacts DEF More, OnTheNodesChain, Inv, TypeOK
<1>11. e \in Ancestors[head] BY <1>10, AncestorsFacts
<1>12. e \in Between(head, Number[prev] + 1, Number[curr])
  BY <1>7, <1>8, <1>9, <1>11 DEF Between
<1>. QED BY <1>6, <1>7, <1>8, <1>9, <1>12 DEF OperatorsWereChanged

(* A kept module keeps its mark, its address and its tables. *)
LEMMA MoreKeepModule ==
    ASSUME Inv, More, pc = "events", ~OperatorsWereChanged, KeepModule
    PROVE  More'
<1>1. /\ InRound /\ InLoop /\ ~MustUpdate /\ prev \in Ancestors[curr]
  BY DEF Inv, InRound, CheckedModule, NoReorgMeansDescendant
<1>2. /\ curr \in Blocks /\ module \in ModulesAt(curr) /\ module \in Modules
      /\ Addr \in Addresses
      /\ Row = db.rows[module]
      /\ txn.tables[Addr] = db.tables[Addr]
  BY <1>1, LoopModule
<1>3. Row # NoRow BY <1>1 DEF MustUpdate, NoPastState
<1>4. prev \in Blocks /\ module \in ModulesAt(prev)
      /\ Described(db, db.lastChanged, prev, module, stable)
  BY <1>1, <1>3, RowIsDescribed
<1>5. /\ Address[prev][module] = Addr
      /\ Keyset[db.tables[Addr]][Addr] = Keyset[curr][Addr]
  BY KeptModule
<1> DEFINE row == Upserted(Row, Addr, Row.nonce, Row.lastChanged)
<1>6. /\ txn' = [txn EXCEPT !.rows[module] = row]
      /\ lastChanged' = lastChanged /\ module' = module + 1 /\ pc' = "module"
      /\ UNCHANGED <<head, stable, db, curr>>
  BY DEF KeepModule, env, state
<1>7. txn \in Databases BY DEF Inv, TypeOK
<1>8. row.lastChanged = Row.lastChanged /\ row.shown = curr /\ row.address = Row.address
  BY <1>3 DEF Upserted
<1> HIDE DEF row
<1>9. /\ txn'.rows = [txn.rows EXCEPT ![module] = row]
      /\ txn'.tables = txn.tables
      /\ txn.rows \in [Modules -> ModuleRows \cup {NoRow}]
      /\ txn.tables \in [Addresses -> Blocks \cup {NoBlock}]
  BY <1>6, <1>7 DEF Databases
<1>10. txn'.tables = [txn.tables EXCEPT ![Addr] = txn.tables[Addr]] BY <1>9
<1>11. DbDescribed' BY <1>6, DbStays DEF More
<1>12. lastChanged \in Blocks /\ lastChanged \in {db.lastChanged, curr}
  BY <1>1 DEF More, TxnDescribed
<1>13. ASSUME NEW m \in ModulesAt(curr), m < module + 1
       PROVE  Described(txn', lastChanged, curr, m, stable)
  <2>1. CASE m = module
    <3>1. txn'.rows[m] = row /\ txn'.tables[Address[curr][m]] = db.tables[Addr]
      BY <1>2, <1>9, <2>1 DEF Addr
    <3>2. /\ m <= ModuleCount[lastChanged]
          /\ Keyset[db.tables[Addr]][Addr] = Keyset[lastChanged][Addr]
      BY <1>2, <1>4, <1>5, <1>12, <2>1, ModulesTypes DEF Described, Marked, ModulesAt
    <3>3. stable => Names[db.tables[Addr]][Addr] = Names[curr][Addr]
      BY <1>4, <1>5, KeptNames DEF Described
    <3>4. /\ Row.lastChanged = db.tables[Addr]
          /\ Row.address \in AddressesOf(module)
      BY <1>2, <1>4, <1>5 DEF Described, Marked
    <3>. QED BY <1>8, <2>1, <3>1, <3>2, <3>3, <3>4 DEF Described, Marked, Addr
  <2>2. CASE m # module
    <3>1. /\ m < module
          /\ txn'.rows[m] = txn.rows[m]
          /\ txn'.tables[Address[curr][m]] = txn.tables[Address[curr][m]]
      BY <1>1, <1>9, <1>10, <1>13, <2>2, OthersUntouched
    <3>2. Described(txn, lastChanged, curr, m, stable) BY <1>1, <3>1 DEF More, TxnDescribed
    <3>. QED BY <3>1, <3>2 DEF Described, Marked
  <2>. QED BY <2>1, <2>2
<1>14. TxnDescribed'
  BY <1>1, <1>6, <1>12, <1>13 DEF More, TxnDescribed, ModulesAt, ModulesWereDeleted
<1>. QED BY <1>6, <1>11, <1>14 DEF More, OnTheNodesChain

(* What the loop has described is committed. *)
LEMMA MoreCommit == ASSUME Inv, More, Commit PROVE More'
<1>1. /\ pc = "module" /\ ~InLoop /\ EndRound
      /\ db' = [txn EXCEPT !.block = curr, !.lastChanged = lastChanged]
      /\ UNCHANGED <<head, stable>>
  BY DEF Commit, env
<1>2. curr \in Blocks /\ InRound BY <1>1 DEF Inv, CurrIsAhead, InRound
<1>3. txn \in Databases BY DEF Inv, TypeOK
<1>4. /\ db'.block = curr /\ db'.lastChanged = lastChanged
      /\ db'.rows = txn.rows /\ db'.tables = txn.tables
  BY <1>1, <1>3 DEF Databases
<1>5. ASSUME NEW m \in ModulesAt(curr)
      PROVE  Described(txn, lastChanged, curr, m, stable)
  <2>1. m < module
    BY <1>1, <1>2, ModulesTypes DEF InLoop, ModulesAt, Inv, TypeOK
  <2>. QED BY <1>2, <2>1 DEF More, TxnDescribed
<1>6. ASSUME NEW m \in ModulesAt(curr)
      PROVE  Described(db', lastChanged, curr, m, stable)
  BY <1>4, <1>5 DEF Described, Marked
<1>7. lastChanged \in Blocks BY <1>2 DEF More, TxnDescribed
<1>8. DbDescribed' BY <1>1, <1>4, <1>6, <1>7 DEF DbDescribed, prev, ModulesAt
<1>. QED BY <1>1, <1>8 DEF More, TxnDescribed, InRound, OnTheNodesChain, EndRound

(* Every step preserves the rest: one case per action. *)
LEMMA MoreStep == ASSUME Inv, More, [Next]_vars PROVE More'
<1>1. CASE HeadMoves BY <1>1, MoreHeadMoves
<1>2. CASE CalmDown BY <1>2, MoreQuiet DEF CalmDown, state, InRound
<1>3. CASE GetLatest
  <2>1. /\ pc' = "compare" /\ curr' = head /\ UNCHANGED <<head, stable, db>>
    BY <1>3 DEF GetLatest, env
  <2>2. DbDescribed' BY <2>1, DbStays DEF More
  <2>3. head \in Blocks BY DEF Inv, TypeOK
  <2>. QED BY <2>1, <2>2, <2>3, AncestorsFacts DEF More, TxnDescribed, InRound, OnTheNodesChain
<1>4. CASE NothingToUpdate BY <1>4, MoreEndRound DEF NothingToUpdate, env
<1>5. CASE ExitOnUnknownType \/ ExitOnDeletedModules
  <2>1. pc' = "down" /\ curr' = NoBlock /\ UNCHANGED <<head, stable, db>>
    BY <1>5 DEF ExitOnUnknownType, ExitOnDeletedModules, env
  <2>2. DbDescribed' BY <2>1, DbStays DEF More
  <2>. QED BY <2>1, <2>2 DEF More, TxnDescribed, InRound, OnTheNodesChain
<1>6. CASE Restart BY <1>6, MoreEndRound DEF Restart, env
<1>7. CASE BeginTransaction BY <1>7, MoreBeginTransaction
<1>8. CASE UpdateOutright BY <1>8, MoreUpdateModule DEF UpdateOutright, InRound
<1>9. CASE ReorgCheckParent
  BY <1>9, MoreQuiet DEF ReorgCheckParent, ReorgCheckBegins, env, state, InRound
<1>10. CASE ReorgCheckSameHeight BY <1>10, MoreUpdateModule DEF ReorgCheckSameHeight, ReorgCheckBegins, InRound
<1>11. CASE ReorgCheckStart BY <1>11, MoreQuiet DEF ReorgCheckStart, ReorgCheckBegins, env, state, InRound
<1>12. ASSUME NEW n \in Numbers, GetFullBlock(n) PROVE More'
  BY <1>12, MoreQuiet DEF GetFullBlock, env, state, InRound
<1>13. CASE NoReorg BY <1>13, MoreQuiet DEF NoReorg, env, state, InRound
<1>14. CASE ReorgFound
  <2>1. InRound /\ InLoop BY <1>14 DEF ReorgFound, Inv, CheckedModule, InRound
  <2>. QED BY <1>14, <2>1, MoreUpdateModule DEF ReorgFound
<1>15. CASE ReorgCheckThrows BY <1>15, MoreEndRound DEF ReorgCheckThrows, env
<1>16. CASE CheckEvents
  <2>1. InRound /\ InLoop /\ pc = "events"
    BY <1>16 DEF CheckEvents, Inv, CheckedModule, InRound
  <2>2. CASE OperatorsWereChanged BY <1>16, <2>1, <2>2, MoreUpdateModule DEF CheckEvents
  <2>3. CASE ~OperatorsWereChanged BY <1>16, <2>1, <2>3, MoreKeepModule DEF CheckEvents
  <2>. QED BY <2>2, <2>3
<1>17. CASE Commit BY <1>17, MoreCommit
<1>18. CASE Rollback BY <1>18, MoreEndRound DEF Rollback, env
<1>19. CASE ReorgCheckForgotten BY <1>19, MoreEndRound DEF ReorgCheckForgotten, env
<1>20. CASE UNCHANGED vars BY <1>20, MoreQuiet DEF vars, env, state, InRound
<1>. QED BY <1>1, <1>2, <1>3, <1>4, <1>5, <1>6, <1>7, <1>8, <1>9, <1>10, <1>11,
            <1>12, <1>13, <1>14, <1>15, <1>16, <1>17, <1>18, <1>19, <1>20 DEF Next, Progress

(* Both invariants hold in every reachable state. *)
LEMMA MoreHolds == Spec => [](Inv /\ More)
<1>1. Inv /\ More /\ [Next]_vars => (Inv /\ More)' BY InvStep, MoreStep
<1>. QED BY <1>1, InvInit, MoreInit, PTL DEF Spec

(* What a client kept of the block named by lastChangedBlockHash is what    *)
(* the keys still are, however many rounds kept or updated which modules.   *)
THEOREM MarksIdentifyKeys == Spec => []LastChangedIdentifiesKeys
<1>1. Inv /\ More => LastChangedIdentifiesKeys
  BY DEF More, DbDescribed, Described, Marked, LastChangedIdentifiesKeys
<1>. QED BY <1>1, MoreHolds, PTL

(* The events are not missed as long as no round's block left the node's    *)
(* chain: the names beside an el_meta block are that block's.               *)
THEOREM SnapshotNamesCorrect == Spec => []SnapshotNamesFaithful
<1>1. Inv /\ More => SnapshotNamesFaithful
  BY DEF More, DbDescribed, Described, SnapshotNamesFaithful
<1>. QED BY <1>1, MoreHolds, PTL

(* The row of a module is the contract's at the el_meta block, but for an   *)
(* address that a reorganised branch left in it: upsert keeps the address   *)
(* of a row.                                                                *)
THEOREM ModuleRowsCorrect == Spec => []ModuleRowFaithful
<1>1. ASSUME Inv, More, prev # NoBlock, NEW m \in ModulesAt(prev)
      PROVE  /\ db.rows[m] # NoRow
             /\ db.rows[m].nonce = Nonce[prev][Address[prev][m]]
             /\ db.rows[m].shown = prev
             /\ db.rows[m].address # Address[prev][m] =>
                  \E b \in BlocksWith(m) \ Ancestors[prev] :
                     db.rows[m].address = Address[b][m]
  <2>1. ModuleFaithful(db, prev, m) BY <1>1 DEF Inv, CommittedFaithful
  <2>2. Described(db, db.lastChanged, prev, m, stable) BY <1>1 DEF More, DbDescribed
  <2>3. prev \in Blocks BY <1>1 DEF Inv, TypeOK, Databases, prev
  <2>4. PICK b \in BlocksWith(m) : db.rows[m].address = Address[b][m]
    BY <2>2 DEF Described, AddressesOf
  <2>5. CASE b \in Ancestors[prev]
    <3>1. Address[b][m] = Address[prev][m]
      BY <2>3, <2>4, <2>5, ModulesAssumption
      DEF BlocksWith, ModulesAt, ModulesAssumption
    <3>. QED BY <2>1, <2>2, <2>4, <3>1 DEF ModuleFaithful, Described
  <2>6. CASE b \notin Ancestors[prev]
    BY <2>1, <2>2, <2>4, <2>6 DEF ModuleFaithful, Described
  <2>. QED BY <2>5, <2>6
<1>2. Inv /\ More => ModuleRowFaithful BY <1>1 DEF ModuleRowFaithful
<1>. QED BY <1>2, MoreHolds, PTL

(* The answer "not changed" is wrong in one way only: the round's block has *)
(* left the node's chain while the round ran.  KeysUpdateMovingHead shows   *)
(* that one; whatever else moves under the check does no harm.              *)
THEOREM KeptOperatorsMissedByReorgOnly == Spec => [](stable => KeptOperatorsUnchanged)
<1>1. ASSUME Inv, More, stable, pc = "events", ~OperatorsWereChanged
      PROVE  Names[txn.tables[Addr]][Addr] = Names[curr][Addr]
  <2>1. InRound /\ InLoop /\ ~MustUpdate
    BY <1>1 DEF Inv, InRound, CheckedModule
  <2>2. Row # NoRow BY <2>1 DEF MustUpdate, NoPastState
  <2>3. Described(db, db.lastChanged, prev, module, stable)
    BY <1>1, <2>1, <2>2, RowIsDescribed
  <2>4. txn.tables[Addr] = db.tables[Addr] BY <1>1, <2>1, LoopModule
  <2>5. Address[prev][module] = Addr BY <1>1, KeptModule
  <2>6. Names[db.tables[Addr]][Addr] = Names[prev][Addr]
    BY <1>1, <2>3, <2>5 DEF Described
  <2>. QED BY <1>1, <2>4, <2>6, KeptNames
<1>2. Inv /\ More => (stable => KeptOperatorsUnchanged)
  BY <1>1 DEF KeptOperatorsUnchanged
<1>. QED BY <1>2, MoreHolds, PTL

-----------------------------------------------------------------------------
(* The rows of sr_modules and the tables of the registries. *)

(* No two modules have one address; and where a module id has one address   *)
(* on every branch, what is in the tables is some module's.                 *)
RowsOwnTables(d) ==
    /\ \A m, n \in Modules :
         d.rows[m] # NoRow /\ d.rows[n] # NoRow /\ d.rows[m].address = d.rows[n].address
           => m = n
    /\ AddressesAgree =>
         \A a \in Addresses : d.tables[a] # NoBlock =>
           \E m \in Modules : d.rows[m] # NoRow /\ d.rows[m].address = a

Owned == RowsOwnTables(db) /\ RowsOwnTables(txn)

LEMMA EmptyOwned == RowsOwnTables(EmptyDb)
BY DEF RowsOwnTables, EmptyDb

(* A row that is upserted takes an address of its own, or keeps it; the     *)
(* tables that change are those of the row.                                 *)
LEMMA UpsertOwned ==
    ASSUME Inv, RowsOwnTables(txn), NEW row \in ModuleRows, module \in Modules,
           txn'.rows = [txn.rows EXCEPT ![module] = row],
           AddressesAgree =>
             \A a \in Addresses : a = row.address \/ txn'.tables[a] = txn.tables[a],
           Row = NoRow => AddressIsFree(Row, row.address),
           Row # NoRow => row.address = Row.address
    PROVE  RowsOwnTables(txn')
<1>1. txn.rows \in [Modules -> ModuleRows \cup {NoRow}] BY DEF Inv, TypeOK, Databases
<1>2. row # NoRow BY AbsentAssumption
<1>3. /\ txn'.rows[module] = row
      /\ \A m \in Modules : m # module => txn'.rows[m] = txn.rows[m]
  BY <1>1
<1>4. ASSUME NEW m \in Modules, m # module, txn.rows[m] # NoRow
      PROVE  txn.rows[m].address # row.address
  <2>1. CASE Row = NoRow BY <1>4, <2>1 DEF AddressIsFree
  <2>2. CASE Row # NoRow BY <1>4, <2>2 DEF RowsOwnTables, Row
  <2>. QED BY <2>1, <2>2
<1>5. ASSUME NEW m \in Modules, NEW n \in Modules,
             txn'.rows[m] # NoRow, txn'.rows[n] # NoRow,
             txn'.rows[m].address = txn'.rows[n].address
      PROVE  m = n
  <2>1. CASE m = module /\ n # module BY <1>3, <1>4, <1>5, <2>1
  <2>2. CASE n = module /\ m # module BY <1>3, <1>4, <1>5, <2>2
  <2>3. CASE m # module /\ n # module BY <1>3, <1>5, <2>3 DEF RowsOwnTables
  <2>. QED BY <2>1, <2>2, <2>3
<1>6. ASSUME AddressesAgree, NEW a \in Addresses, txn'.tables[a] # NoBlock
      PROVE  \E m \in Modules : txn'.rows[m] # NoRow /\ txn'.rows[m].address = a
  <2>1. CASE a = row.address BY <1>2, <1>3, <2>1
  <2>2. CASE a # row.address
    <3>1. txn.tables[a] # NoBlock BY <1>6, <2>2
    <3>2. PICK m \in Modules : txn.rows[m] # NoRow /\ txn.rows[m].address = a
      BY <1>6, <3>1 DEF RowsOwnTables
    <3>3. CASE m = module BY <2>2, <3>2, <3>3 DEF Row
    <3>4. CASE m # module BY <1>3, <3>2, <3>4
    <3>. QED BY <3>3, <3>4
  <2>. QED BY <2>1, <2>2
<1>. QED BY <1>5, <1>6 DEF RowsOwnTables

LEMMA OwnedUpdateModule ==
    ASSUME Inv, More, InRound, InLoop, Owned, UpdateModule
    PROVE  Owned'
<1> DEFINE row == Upserted(Row, Addr, Nonce[curr][Addr], curr)
<1>1. /\ curr \in Blocks /\ module \in Modules /\ Addr \in Addresses
      /\ Row \in ModuleRows \cup {NoRow}
  BY LoopModule
<1>2. /\ txn' = [txn EXCEPT !.tables[Addr] = curr, !.rows[module] = row]
      /\ AddressIsFree(Row, Addr) /\ db' = db
  BY DEF UpdateModule
<1>3. row \in ModuleRows BY <1>1, UpsertedType, ModulesTypes
<1>4. AddressesAgree => row.address = Addr BY UpsertedAgrees
<1>5. /\ Row = NoRow => row.address = Addr
      /\ Row # NoRow => row.address = Row.address
  BY DEF Upserted
<1> HIDE DEF row
<1>6. txn \in Databases BY DEF Inv, TypeOK
<1>7. /\ txn'.rows = [txn.rows EXCEPT ![module] = row]
      /\ txn'.tables = [txn.tables EXCEPT ![Addr] = curr]
      /\ txn.tables \in [Addresses -> Blocks \cup {NoBlock}]
  BY <1>1, <1>2, <1>6 DEF Databases
<1>8. AddressesAgree =>
        \A a \in Addresses : a = row.address \/ txn'.tables[a] = txn.tables[a]
  BY <1>1, <1>4, <1>7
<1>9. RowsOwnTables(txn')
  BY <1>1, <1>2, <1>3, <1>5, <1>7, <1>8, UpsertOwned DEF Owned
<1>. QED BY <1>2, <1>9 DEF Owned, RowsOwnTables

LEMMA OwnedKeepModule ==
    ASSUME Inv, More, Owned, pc = "events", KeepModule
    PROVE  Owned'
<1> DEFINE row == Upserted(Row, Addr, Row.nonce, Row.lastChanged)
<1>1. /\ InRound /\ InLoop /\ ~MustUpdate
  BY DEF Inv, InRound, CheckedModule
<1>2. /\ curr \in Blocks /\ module \in Modules /\ Addr \in Addresses
      /\ Row \in ModuleRows
  BY <1>1, LoopModule DEF MustUpdate, NoPastState
<1>3. txn' = [txn EXCEPT !.rows[module] = row] /\ db' = db BY DEF KeepModule
<1>4. row \in ModuleRows /\ row.address = Row.address /\ Row # NoRow
  BY <1>2, AbsentAssumption DEF ModuleRows, Upserted
<1> HIDE DEF row
<1>5. txn \in Databases BY DEF Inv, TypeOK
<1>6. txn'.rows = [txn.rows EXCEPT ![module] = row] /\ txn'.tables = txn.tables
  BY <1>2, <1>3, <1>5 DEF Databases
<1>7. RowsOwnTables(txn') BY <1>2, <1>4, <1>6, UpsertOwned DEF Owned
<1>. QED BY <1>3, <1>7 DEF Owned, RowsOwnTables

(* What a step does to the two copies of the database. *)
LEMMA CopiesChange ==
    ASSUME Inv, [Next]_vars
    PROVE  \/ db' = db /\ (txn' = txn \/ txn' = db \/ txn' = EmptyDb)
           \/ InRound /\ InLoop /\ UpdateModule
           \/ pc = "events" /\ KeepModule
           \/ Commit
BY DEF vars, env, state, Next, Progress, HeadMoves, CalmDown, GetLatest, NothingToUpdate,
       ExitOnUnknownType, ExitOnDeletedModules, Restart, BeginTransaction, UpdateOutright,
       ReorgCheckParent, ReorgCheckSameHeight, ReorgCheckStart, ReorgCheckForgotten,
       ReorgCheckBegins, GetFullBlock, NoReorg, ReorgFound, ReorgCheckThrows, CheckEvents,
       Rollback, EndRound, InRound, Inv, CheckedModule

LEMMA OwnedStep == ASSUME Inv, More, Owned, [Next]_vars PROVE Owned'
<1>1. CASE db' = db /\ (txn' = txn \/ txn' = db \/ txn' = EmptyDb)
  <2>1. RowsOwnTables(txn') BY <1>1, EmptyOwned DEF Owned
  <2>. QED BY <1>1, <2>1 DEF Owned, RowsOwnTables
<1>2. CASE Commit
  <2>1. db' = [txn EXCEPT !.block = curr, !.lastChanged = lastChanged] /\ txn' = EmptyDb
    BY <1>2 DEF Commit, EndRound
  <2>2. txn \in Databases BY DEF Inv, TypeOK
  <2>3. db'.rows = txn.rows /\ db'.tables = txn.tables BY <2>1, <2>2 DEF Databases
  <2>4. RowsOwnTables(db') BY <2>3 DEF Owned, RowsOwnTables
  <2>. QED BY <2>1, <2>4, EmptyOwned DEF Owned, RowsOwnTables
<1>3. CASE InRound /\ InLoop /\ UpdateModule BY <1>3, OwnedUpdateModule
<1>4. CASE pc = "events" /\ KeepModule BY <1>4, OwnedKeepModule
<1>. QED BY <1>1, <1>2, <1>3, <1>4, CopiesChange

(* What the readers take for granted of the rows they look keys up by: no   *)
(* two modules have an address in common, and, where a module id has one    *)
(* address on every branch, every operator and key belongs to a module,     *)
(* however many rounds were kept, undone or skipped a block                 *)
(* (sr-module.storage.ts upsert, RestApiAssumption).                        *)
ReadersRows == RowsOwnTables(db)

THEOREM RowsOwnTheirTables == Spec => []ReadersRows
<1>1. Init => Owned BY EmptyOwned DEF Init, Owned
<1>2. Inv /\ More /\ Owned /\ [Next]_vars => (Inv /\ More /\ Owned)'
  BY InvStep, MoreStep, OwnedStep
<1>3. Owned => ReadersRows BY DEF Owned, ReadersRows
<1>. QED BY <1>1, <1>2, <1>3, InvInit, MoreInit, PTL DEF Spec

-----------------------------------------------------------------------------
(* Refinement. *)

(* Only the commit changes what readers see. *)
LEMMA DbChangesOnCommit ==
    ASSUME [Next]_vars, db' # db
    PROVE  Commit
BY DEF vars, env, state, Next, Progress, HeadMoves, CalmDown, GetLatest, NothingToUpdate,
       ExitOnUnknownType, ExitOnDeletedModules, Restart, BeginTransaction, UpdateOutright, ReorgCheckParent,
       ReorgCheckSameHeight, ReorgCheckStart, ReorgCheckForgotten, GetFullBlock, NoReorg, ReorgFound,
       ReorgCheckThrows, CheckEvents, KeepModule, UpdateModule, Rollback

(* What readers find beside a block is what the contracts say there. *)
LEMMA FoundIsContent ==
    ASSUME Inv, More, prev # NoBlock
    PROVE  prev \in Blocks /\ Found = Content[prev]
<1>1. prev \in Blocks BY DEF Inv, TypeOK, Databases, prev
<1>2. {k \in Modules : db.rows[k] # NoRow} = ModulesAt(prev)
  BY <1>1, ModulesTypes DEF Inv, CommittedFaithful, ModuleFaithful
<1>3. {k \in Modules : db.rows[k] # NoRow /\ OneAddress(k)}
        = {k \in ModulesAt(prev) : OneAddress(k)}
  BY <1>2
<1>4. ASSUME NEW m \in ModulesAt(prev), OneAddress(m)
      PROVE  Keyset[db.tables[db.rows[m].address]][db.rows[m].address]
               = Keyset[prev][Address[prev][m]]
  <2>1. db.rows[m].address \in AddressesOf(m) BY <1>4 DEF More, DbDescribed, Described
  <2>2. Address[prev][m] \in AddressesOf(m) BY <1>1, AddressIsOne
  <2>3. db.rows[m].address = Address[prev][m] BY <1>4, <2>1, <2>2 DEF OneAddress
  <2>. QED BY <2>3 DEF Inv, CommittedFaithful, ModuleFaithful
<1>. QED BY <1>1, <1>3, <1>4 DEF Found, Content

(* The job implements the promise that the readers are built on, for the    *)
(* modules whose id stands for one contract on every branch.                *)
THEOREM KeysUpdateRefinesSnapshots == Spec => SnapshotsSpec
<1>1. Init => Published!Init
  BY DEF Init, Published!Init, prev, Found, EmptyDb
<1>2. Inv /\ More => (prev # NoBlock => Found = Content[prev])
  BY FoundIsContent
<1>3. (Inv /\ More)' => (prev # NoBlock => Found = Content[prev])' BY <1>2, PTL
<1>4. Inv /\ More /\ (Inv /\ More)' /\ [Next]_vars => [Published!Next]_(Published!vars)
  <2> SUFFICES ASSUME Inv, More, Inv', More', [Next]_vars
               PROVE  Published!Next \/ UNCHANGED Published!vars
    OBVIOUS
  <2>1. CASE db' = db BY <2>1 DEF Published!vars, prev, Found
  <2>2. CASE db' # db
    <3>1. Commit BY <2>2, DbChangesOnCommit
    <3>2. /\ InRound /\ curr \in Blocks /\ ~NodeIsBehind /\ ~ModulesWereDeleted
      BY <3>1 DEF Commit, Inv, More, CurrIsAhead, TxnDescribed, InRound
    <3>3. prev' = curr
      BY <3>1, <3>2 DEF Commit, Inv, TypeOK, Databases, prev
    <3>4. curr # NoBlock BY <3>2, AncestorsFacts
    <3>5. Found' = Content[curr]
      <4>1. prev' # NoBlock => Found' = Content'[prev'] BY <1>3
      <4>2. Content' = Content
        BY DEF Content, ModulesAt, OneAddress, AddressesOf, BlocksWith
      <4>. QED BY <3>3, <3>4, <4>1, <4>2
    <3>6. prev # NoBlock => Number[prev] <= Number[curr]
      <4>1. prev # NoBlock => Number[prev] \in Nat
        BY AncestorsFacts DEF Inv, TypeOK, Databases, prev
      <4>. QED BY <3>2, <4>1, AncestorsFacts DEF NodeIsBehind
    <3>7. DOMAIN Found \subseteq DOMAIN Content[curr]
      <4>1. ASSUME NEW m \in Modules, db.rows[m] # NoRow PROVE m \in ModulesAt(curr)
        BY <3>2, <4>1, ModulesTypes DEF ModulesWereDeleted, Modules, ModulesAt
      <4>. QED BY <3>2, <4>1 DEF Found, Content
    <3>8. Published!Publish(curr) BY <3>3, <3>5, <3>6, <3>7 DEF Published!Publish
    <3>. QED BY <3>2, <3>8 DEF Published!Next
  <2>. QED BY <2>1, <2>2
<1>. QED BY <1>1, <1>4, MoreHolds, PTL DEF Spec, SnapshotsSpec, Published!Spec
===============================================================================
