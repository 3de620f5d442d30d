------------------------- MODULE ValidatorsExitProofs -------------------------
(***************************************************************************)
(* Proofs about ValidatorsExit, for any number of blocks, keys and         *)
(* parameters: its types, the order of an exit list, that the CL snapshot  *)
(* a list names determines it, and that a status is of one moment.         *)
(***************************************************************************)
EXTENDS ValidatorsExit, FiniteSetTheorems, TLAPS

-----------------------------------------------------------------------------
(* Lemmas about the choice *)

\* A cut of the sorted validators takes members of the set only, and whatever
\* it leaves out has a higher index than whatever it takes.
LEMMA OldestIsPrefix ==
    ASSUME NEW S \in SUBSET Pubkeys, NEW k \in Nat
    PROVE  /\ Oldest(S, k) \subseteq S
           /\ \A v \in Oldest(S, k), w \in S \ Oldest(S, k) : Index[v] < Index[w]
<1>1. Oldest(S, k) \subseteq S
  BY DEF Oldest
<1>2. ASSUME NEW v \in Oldest(S, k), NEW w \in S \ Oldest(S, k)
      PROVE  Index[v] < Index[w]
  <2> DEFINE UpTo(x) == {y \in S : Index[y] <= Index[x]}
  <2>1. Index[v] \in Nat /\ Index[w] \in Nat
    BY <1>1, ExitAssumption
  <2>2. SUFFICES ASSUME Index[w] <= Index[v] PROVE FALSE
    BY <2>1
  <2>3. UpTo(w) \subseteq UpTo(v)
    BY <2>1, <2>2, ExitAssumption
  <2>4. IsFiniteSet(UpTo(v))
    BY FS_Subset, ExitAssumption
  <2>5. /\ Cardinality(UpTo(w)) <= Cardinality(UpTo(v))
        /\ Cardinality(UpTo(w)) \in Nat /\ Cardinality(UpTo(v)) \in Nat
    BY <2>3, <2>4, FS_Subset, FS_CardinalityType
  <2>6. Cardinality(UpTo(v)) <= k
    BY DEF Oldest
  <2>7. w \in Oldest(S, k)
    BY <2>5, <2>6 DEF Oldest
  <2> QED BY <2>7
<1> QED BY <1>1, <1>2

\* Whatever the parameters, the validators chosen are a prefix in that order.
LEMMA ChosenIsPrefix ==
    ASSUME NEW S \in SUBSET Pubkeys, NEW q \in Query
    PROVE  /\ Chosen(S, q) \subseteq S
           /\ \A v \in Chosen(S, q), w \in S \ Chosen(S, q) : Index[v] < Index[w]
<1>1. IsFiniteSet(S) /\ Cardinality(S) \in Nat
  BY FS_Subset, FS_CardinalityType, ExitAssumption
<1>2. /\ q.percent \in Nat \cup {None} /\ q.max_amount \in Nat \cup {None}
      /\ EffectivePercent(q) \in Nat \cup {None}
  BY ExitAssumption DEF Query, EffectivePercent
<1>3. CASE Truthy(EffectivePercent(q))
  <2>1. (Cardinality(S) * EffectivePercent(q) + 99) \div 100 \in Nat
    BY <1>1, <1>2, <1>3 DEF Truthy
  <2>2. Chosen(S, q) = Oldest(S, (Cardinality(S) * EffectivePercent(q) + 99) \div 100)
    BY <1>3 DEF Chosen, PercentOf, Truthy
  <2> QED BY <2>1, <2>2, OldestIsPrefix
<1>4. CASE ~Truthy(EffectivePercent(q)) /\ Truthy(q.max_amount)
  <2>1. Chosen(S, q) = Oldest(S, q.max_amount) /\ q.max_amount \in Nat
    BY <1>2, <1>4 DEF Chosen, Truthy
  <2> QED BY <2>1, OldestIsPrefix
<1>5. CASE ~Truthy(EffectivePercent(q)) /\ ~Truthy(q.max_amount)
  <2>1. Chosen(S, q) = {} \/ Chosen(S, q) = S
    BY <1>2, <1>5, ExitAssumption DEF Chosen, Truthy
  <2> QED BY <2>1
<1> QED BY <1>3, <1>4, <1>5

-----------------------------------------------------------------------------
(***************************************************************************)
(* The inductive invariant.  The properties of a reply hold because of     *)
(* what the request has read before it: the EL meta and the keys it holds  *)
(* are those of one committed state, the one its transaction sees.         *)
(***************************************************************************)

ViewInv ==
    /\ Now \in moments
    /\ pc \in {"keys", "validators", "clMeta"} => view \in moments /\ elMeta = view.el
    /\ pc = "validators" => keys = KeysAt(view.el)

ReplyInv ==
    Listed =>
        /\ 0 < reply.meta.cl /\ reply.meta.cl <= reply.meta.el
        /\ reply.list = Chosen(Candidates, query)

IInv == TypeOK /\ ViewInv /\ ReplyInv /\ StatusIsOneMoment

-----------------------------------------------------------------------------

LEMMA TypesOfConstants ==
    /\ \A b \in Blocks : b \in Nat
    /\ 0 \in Blocks
    /\ \A b \in Blocks : KeysAt(b) \in SUBSET Pubkeys /\ ExitableAt(b) \in SUBSET Pubkeys
    /\ Empty \in Pair
BY ExitAssumption, ChainAssumption DEF Blocks, Pair, Empty

LEMMA InitIInv == Init => IInv
<1> SUFFICES ASSUME Init PROVE IInv
  OBVIOUS
<1>1. TypeOK
  BY TypesOfConstants DEF Init, TypeOK, Query, Nothing, Answer, Kind
<1>2. ViewInv
  BY DEF Init, ViewInv, Now, Empty
<1>3. ReplyInv /\ StatusIsOneMoment
  BY DEF Init, ReplyInv, Listed, StatusIsOneMoment, Nothing, Answer
<1> QED BY <1>1, <1>2, <1>3 DEF IInv

\* An answer with no list and no meta, or none at all, satisfies what is
\* said of replies.
LEMMA PlainReply ==
    ASSUME TypeOK, NEW code \in {0, 404, 425, 500},
           NEW kind \in Kind, reply' = Answer(kind, code, {}, Empty)
    PROVE  /\ reply' \in [kind : Kind, code : {0, 200, 404, 425, 500},
                          list : SUBSET Pubkeys, meta : Pair]
           /\ ReplyInv' /\ StatusIsOneMoment'
BY TypesOfConstants DEF Answer, ReplyInv, Listed, StatusIsOneMoment

LEMMA NextIInv == IInv /\ [Next]_vars => IInv'
<1> SUFFICES ASSUME IInv, [Next]_vars PROVE IInv'
  OBVIOUS
<1> USE DEF jobs
<1>0. TypeOK /\ ViewInv /\ ReplyInv /\ StatusIsOneMoment
  BY DEF IInv
<1>1. CASE CommitKeys
  <2>1. TypeOK'
    BY <1>0, <1>1, TypesOfConstants, ExitAssumption DEF CommitKeys, TypeOK, Blocks, Pair
  <2>2. ViewInv'
    BY <1>0, <1>1 DEF CommitKeys, ViewInv, Now
  <2>3. ReplyInv'
    BY <1>0, <1>1 DEF CommitKeys, ReplyInv, Listed, Candidates
  <2>4. StatusIsOneMoment'
    BY <1>0, <1>1 DEF CommitKeys, StatusIsOneMoment
  <2> QED BY <2>1, <2>2, <2>3, <2>4 DEF IInv
<1>2. CASE CommitValidators
  <2>1. TypeOK'
    BY <1>0, <1>2, TypesOfConstants, ExitAssumption DEF CommitValidators, TypeOK, Blocks, Pair
  <2>2. ViewInv'
    BY <1>0, <1>2 DEF CommitValidators, ViewInv, Now
  <2>3. ReplyInv'
    BY <1>0, <1>2 DEF CommitValidators, ReplyInv, Listed, Candidates
  <2>4. StatusIsOneMoment'
    BY <1>0, <1>2 DEF CommitValidators, StatusIsOneMoment
  <2> QED BY <2>1, <2>2, <2>3, <2>4 DEF IInv
<1>3. CASE RegistryDisabled
  <2>1. reply' = Answer("exits", 500, {}, Empty)
    BY <1>3 DEF RegistryDisabled, Finish
  <2>2. TypeOK' /\ ReplyInv' /\ StatusIsOneMoment'
    BY <1>0, <1>3, <2>1, PlainReply DEF RegistryDisabled, Finish, TypeOK, Kind
  <2>3. ViewInv'
    BY <1>0, <1>3 DEF RegistryDisabled, Finish, ViewInv, Now
  <2> QED BY <2>2, <2>3 DEF IInv
<1>4. CASE AskExits
  <2>1. reply' = Answer("none", 0, {}, Empty)
    BY <1>4 DEF AskExits, Nothing
  <2>2. TypeOK' /\ ReplyInv' /\ StatusIsOneMoment'
    BY <1>0, <1>4, <2>1, PlainReply DEF AskExits, TypeOK, Kind
  <2>3. ViewInv'
    BY <1>0, <1>4 DEF AskExits, ViewInv, Now
  <2> QED BY <2>2, <2>3 DEF IInv
<1>5. CASE ReadModule
  <2>1. view' = Now /\ elMeta' = view'.el /\ view' \in Pair /\ view' \in moments'
        /\ Now' = Now
    BY <1>0, <1>5 DEF ReadModule, ViewInv, TypeOK, Pair, Now
  <2>2. pc' \in {"idle", "keys"}
    BY <1>5 DEF ReadModule, Finish
  <2>3. ViewInv'
    BY <2>1, <2>2 DEF ViewInv
  <2>4. CASE Lookup(el) = 200
    <3>1. UNCHANGED <<enabled, moments, query, reply>>
      BY <1>5, <2>4 DEF ReadModule
    <3>2. TypeOK'
      BY <1>0, <1>5, <2>1, <2>2, <3>1 DEF ReadModule, TypeOK
    <3>3. ReplyInv' /\ StatusIsOneMoment'
      BY <1>0, <3>1 DEF ReplyInv, Listed, Candidates, StatusIsOneMoment
    <3> QED BY <2>3, <3>2, <3>3 DEF IInv
  <2>5. CASE Lookup(el) # 200
    <3>1. reply' = Answer("exits", Lookup(el), {}, Empty) /\ Lookup(el) \in {404, 425}
      BY <1>5, <2>5 DEF ReadModule, Finish, Lookup
    <3>2. ReplyInv' /\ StatusIsOneMoment' /\ reply' \in [kind : Kind,
            code : {0, 200, 404, 425, 500}, list : SUBSET Pubkeys, meta : Pair]
      BY <1>0, <3>1, PlainReply DEF Kind
    <3>3. elMeta' \in Blocks /\ UNCHANGED <<enabled, el, cl, moments, query, keys>>
      BY <1>0, <1>5 DEF ReadModule, TypeOK
    <3>4. TypeOK'
      BY <1>0, <2>1, <2>2, <3>2, <3>3 DEF TypeOK
    <3> QED BY <2>3, <3>2, <3>4 DEF IInv
  <2> QED BY <2>4, <2>5
<1>6. CASE ReadKeys
  <2>1. TypeOK'
    BY <1>0, <1>6, TypesOfConstants DEF ReadKeys, Seen, TypeOK, Pair
  <2>2. ViewInv'
    BY <1>0, <1>6 DEF ReadKeys, Seen, ViewInv, Now
  <2>3. ReplyInv' /\ StatusIsOneMoment'
    BY <1>0, <1>6 DEF ReadKeys, ReplyInv, Listed, Candidates, StatusIsOneMoment
  <2> QED BY <2>1, <2>2, <2>3 DEF IInv
<1>7. CASE ReadValidators
  <2>1. ViewInv'
    BY <1>0, <1>7 DEF ReadValidators, Finish, ViewInv, Now
  <2>2. keys = KeysAt(elMeta) /\ elMeta \in Blocks /\ view.cl \in Blocks
        /\ keys \in SUBSET Pubkeys /\ query \in Query
    BY <1>0, <1>7 DEF ReadValidators, ViewInv, TypeOK, Pair
  <2>3. CASE Verdict(elMeta, view.cl) = 200
    <3> DEFINE S == Exitable(keys, view.cl)
               meta == [el |-> elMeta, cl |-> view.cl]
    <3>1. reply' = Answer("exits", 200, Chosen(S, query), meta)
      BY <1>7, <2>3 DEF ReadValidators, Seen, Finish
    <3>2. S = KeysAt(elMeta) \cap ExitableAt(view.cl) /\ S \in SUBSET Pubkeys
      BY <2>2, TypesOfConstants DEF Exitable
    <3>3. Chosen(S, query) \in SUBSET Pubkeys
      BY <2>2, <3>2, ChosenIsPrefix
    <3>4. 0 < view.cl /\ view.cl <= elMeta
      BY <2>2, <2>3, TypesOfConstants DEF Verdict
    <3>5. meta \in Pair
      BY <2>2 DEF Pair
    <3> HIDE DEF S, meta
    <3>6. /\ reply'.kind = "exits" /\ reply'.code = 200
          /\ reply'.list = Chosen(S, query) /\ reply'.meta = meta
      BY <3>1 DEF Answer
    <3>7. TypeOK'
      BY <1>0, <1>7, <3>1, <3>3, <3>5
      DEF ReadValidators, Finish, Answer, TypeOK, Kind
    <3>8. query' = query
      BY <1>7 DEF ReadValidators
    <3>9. ReplyInv'
      BY <3>2, <3>4, <3>6, <3>8 DEF ReplyInv, Listed, Candidates, meta
    <3>10. StatusIsOneMoment'
      BY <3>6 DEF StatusIsOneMoment
    <3> QED BY <2>1, <3>7, <3>9, <3>10 DEF IInv
  <2>4. CASE Verdict(elMeta, view.cl) # 200
    <3>1. /\ reply' = Answer("exits", Verdict(elMeta, view.cl), {}, Empty)
          /\ Verdict(elMeta, view.cl) \in {425, 500}
      BY <1>7, <2>4 DEF ReadValidators, Seen, Finish, Verdict
    <3>2. UNCHANGED <<enabled, el, cl, moments, query, view, elMeta, keys>> /\ pc' = "idle"
      BY <1>7 DEF ReadValidators, Finish
    <3>3. TypeOK' /\ ReplyInv' /\ StatusIsOneMoment'
      BY <1>0, <3>1, <3>2, PlainReply DEF TypeOK, Kind
    <3> QED BY <2>1, <3>3 DEF IInv
  <2> QED BY <2>3, <2>4
<1>8. CASE AskStatus
  <2>1. reply' = Answer("none", 0, {}, Empty)
    BY <1>8 DEF AskStatus, Nothing
  <2>2. TypeOK' /\ ReplyInv' /\ StatusIsOneMoment'
    BY <1>0, <1>8, <2>1, PlainReply DEF AskStatus, TypeOK, Kind
  <2>3. ViewInv'
    BY <1>0, <1>8 DEF AskStatus, ViewInv, Now
  <2> QED BY <2>2, <2>3 DEF IInv
<1>9. CASE ReadElMeta
  <2>1. TypeOK' /\ ViewInv'
    BY <1>0, <1>9 DEF ReadElMeta, TypeOK, ViewInv, Pair, Now
  <2>2. ReplyInv' /\ StatusIsOneMoment'
    BY <1>0, <1>9 DEF ReadElMeta, ReplyInv, Listed, Candidates, StatusIsOneMoment
  <2> QED BY <2>1, <2>2 DEF IInv
<1>10. CASE ReadClMeta
  <2> DEFINE meta == [el |-> elMeta, cl |-> IF enabled THEN view.cl ELSE 0]
  <2>1. reply' = Answer("status", 200, {}, meta)
    BY <1>10 DEF ReadClMeta, Seen, Finish
  <2>2. UNCHANGED <<enabled, el, cl, moments, query, view, elMeta, keys>> /\ pc' = "idle"
    BY <1>10 DEF ReadClMeta, Finish
  <2>3. meta \in Pair
    BY <1>0, TypesOfConstants DEF TypeOK, Pair
  <2>4. TypeOK'
    BY <1>0, <2>1, <2>2, <2>3 DEF TypeOK, Answer, Kind
  <2>5. ViewInv'
    BY <1>0, <2>2 DEF ViewInv, Now
  <2>6. ReplyInv'
    BY <2>1 DEF ReplyInv, Listed, Answer
  <2>7. view \in moments' /\ meta.el = view.el /\ meta.cl = IF enabled' THEN view.cl ELSE 0
    BY <1>0, <1>10, <2>2 DEF ReadClMeta, ViewInv
  <2>8. reply'.meta = meta
    BY <2>1 DEF Answer
  <2>9. StatusIsOneMoment'
    BY <2>7, <2>8 DEF StatusIsOneMoment
  <2> QED BY <2>4, <2>5, <2>6, <2>9 DEF IInv
<1>11. CASE QueryFails
  <2>1. PICK kind \in Kind : reply' = Answer(kind, 500, {}, Empty)
    BY <1>11 DEF QueryFails, Finish, Kind
  <2>2. UNCHANGED <<enabled, el, cl, moments, query, view, elMeta, keys>> /\ pc' = "idle"
    BY <1>11 DEF QueryFails, Finish
  <2>3. TypeOK' /\ ReplyInv' /\ StatusIsOneMoment'
    BY <1>0, <2>1, <2>2, PlainReply DEF TypeOK
  <2>4. ViewInv'
    BY <1>0, <2>2 DEF ViewInv, Now
  <2> QED BY <2>3, <2>4 DEF IInv
<1>12. CASE Restart
  <2>1. reply' = Answer("none", 0, {}, Empty)
    BY <1>12 DEF Restart, Nothing
  <2>2. TypeOK' /\ ReplyInv' /\ StatusIsOneMoment'
    BY <1>0, <1>12, <2>1, PlainReply DEF Restart, TypeOK, Kind
  <2>3. ViewInv'
    BY <1>0, <1>12 DEF Restart, ViewInv, Now
  <2> QED BY <2>2, <2>3 DEF IInv
<1>13. CASE UNCHANGED vars
  BY <1>0, <1>13 DEF vars, IInv, TypeOK, ViewInv, ReplyInv, Listed, Candidates,
                     StatusIsOneMoment, Now
<1> QED BY <1>1, <1>2, <1>3, <1>4, <1>5, <1>6, <1>7, <1>8, <1>9, <1>10, <1>11,
           <1>12, <1>13 DEF Next

LEMMA IInvHolds == Spec => []IInv
BY InitIInv, NextIInv, PTL DEF Spec

-----------------------------------------------------------------------------

\* Types: a request holds what it can hold, whatever the jobs do beside it.
THEOREM ValidatorsExitTypeCorrect == Spec => []TypeOK
<1>1. IInv => TypeOK
  BY DEF IInv
<1> QED BY <1>1, IInvHolds, PTL

\* No exit list leaves out a validator older than one it names.
THEOREM ExitListsAreOldestFirst == Spec => []ExitListIsOldest
<1>1. IInv => ExitListIsOldest
  <2> SUFFICES ASSUME IInv, Listed
               PROVE  /\ reply.list \subseteq Candidates
                      /\ \A v \in reply.list, w \in Candidates \ reply.list : Index[v] < Index[w]
    BY DEF ExitListIsOldest
  <2>1. reply.list = Chosen(Candidates, query) /\ query \in Query
    BY DEF IInv, ReplyInv, TypeOK
  <2>2. Candidates \in SUBSET Pubkeys
    BY TypesOfConstants DEF IInv, TypeOK, Pair, Candidates
  <2> QED BY <2>1, <2>2, ChosenIsPrefix
<1> QED BY <1>1, IInvHolds, PTL

\* Where only the module deposits to its operators' keys, the CL snapshot a
\* list names and the parameters determine the list.
THEOREM ListsAreDeterminedByMeta ==
    ASSUME DepositsByModule
    PROVE  Spec => []MetaDeterminesReply
<1>1. IInv => MetaDeterminesReply
  <2> SUFFICES ASSUME IInv, Listed
               PROVE  reply.list =
                        Chosen(UsedAt(reply.meta.cl) \cap ExitableAt(reply.meta.cl), query)
    BY DEF MetaDeterminesReply
  <2> DEFINE b == reply.meta.cl
             e == reply.meta.el
  <2>1. reply.list = Chosen(Candidates, query) /\ b <= e /\ b \in Blocks /\ e \in Blocks
    BY DEF IInv, ReplyInv, TypeOK, Pair
  <2>2. UsedAt(b) \subseteq KeysAt(e)
    BY <2>1, ChainAssumption
  <2>3. ExitableAt(b) \cap KeysAt(e) \subseteq UsedAt(b)
    BY <2>1, DepositsByModule DEF DepositsByModule
  <2>4. Candidates = UsedAt(b) \cap ExitableAt(b)
    BY <2>2, <2>3 DEF Candidates
  <2> QED BY <2>1, <2>4
<1> QED BY <1>1, IInvHolds, PTL

\* The two snapshots of a status were committed at one moment.
THEOREM StatusesAreOfOneMoment == Spec => []StatusIsOneMoment
<1>1. IInv => StatusIsOneMoment
  BY DEF IInv
<1> QED BY <1>1, IInvHolds, PTL

=============================================================================
