---------------------------- MODULE MCContractFetch ----------------------------
(* Three operators at one block and two at another; batches of two operators *)
(* and two keys, so that the last batch of each is a short one.              *)
EXTENDS ContractFetch

CONSTANTS b1, b2, none, registry

Operator(name, active, vetted, added, deposited) ==
    [name |-> name, active |-> active, vetted |-> vetted, added |-> added,
     deposited |-> deposited, depositable |-> vetted - deposited]

MCBlocks == {b1, b2}
MCOperatorsAt ==
    [b \in MCBlocks |->
       IF b = b1
       THEN [o \in 0 .. 1 |-> IF o = 0 THEN Operator("a", TRUE, 2, 3, 1)
                              ELSE Operator("b", FALSE, 0, 0, 0)]
       ELSE [o \in 0 .. 2 |-> IF o = 0 THEN Operator("a", TRUE, 4, 5, 3)
                              ELSE IF o = 1 THEN Operator("c", FALSE, 1, 1, 0)
                              ELSE Operator("d", TRUE, 2, 2, 2)]]
MCKeysLength == 1
MCSignatureLength == 2
=============================================================================
