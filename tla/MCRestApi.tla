----------------------------- MODULE MCRestApi -----------------------------
(* Two snapshots: a curated module alone, then with a community module      *)
(* beside it that has one of its pubkeys too.  Integer columns end at 2.    *)
EXTENDS RestApi

Module(id, a) == [moduleId |-> id, stakingModuleAddress |-> Plain(a)]
Op(a, i, total, used) ==
    [moduleAddress |-> Plain(a), index |-> i, totalSigningKeys |-> total,
     usedSigningKeys |-> used]
KeyRow(a, o, i, p, used) ==
    [moduleAddress |-> Plain(a), operatorIndex |-> o, index |-> i,
     key |-> [key |-> p, form |-> "plain"], used |-> used, vetted |-> used \/ i = 1]

First ==
    [block |-> "b1", modules |-> {Module(1, "curated")},
     operators |-> {Op("curated", 0, 2, 1), Op("curated", 1, 0, 0)},
     keys |-> {KeyRow("curated", 0, 0, "p1", TRUE), KeyRow("curated", 0, 1, "p2", FALSE)}]

Second ==
    [block |-> "b2", modules |-> {Module(1, "curated"), Module(2, "csm")},
     operators |-> {Op("curated", 0, 2, 2), Op("curated", 1, 1, 0), Op("csm", 0, 2, 1)},
     keys |-> {KeyRow("curated", 0, 0, "p1", TRUE), KeyRow("curated", 0, 1, "p2", TRUE),
               KeyRow("curated", 1, 0, "p3", FALSE),
               KeyRow("csm", 0, 0, "p1", TRUE), KeyRow("csm", 0, 1, "p1", FALSE)}]

Committed == {First, Second}

Number3(v, form) == [value |-> v, form |-> form]
NumberTextsMC ==
    {Number3(v, "plain") : v \in 0..3}
      \cup {Number3(1, "padded"), Number3(1, "spaced"), Number3(2, "hex"),
             Number3(0, "negative"), Number3(1, "negative"), Number3(1, "fraction"),
             Number3(0, "word"), Number3(0, "blank"), Number3(0, "empty")}

AddressTextsMC ==
    [address : {"curated", "csm", "zero"}, form : AddressForms]
      \cup {Plain("other")}

ModuleIdTextsMC == AddressTextsMC \cup (NumberTextsMC \ {Number3(0, "empty")})

Text(a, form) == [address |-> a, form |-> form]
AddressListsMC ==
    {{}} \cup {{t} : t \in AddressTextsMC}
      \cup {{Text("curated", "checksum"), Text("csm", "upper")},
             {Text("curated", "plain"), Text("curated", "mixed")},
             {Text("csm", "plain"), Text("other", "plain")},
             {Text("csm", "plain"), Text("csm", "icap")},
             {Text("curated", "bare"), Text("csm", "0X")}}

PubkeyListsMC == {{}} \cup {texts \in SUBSET PubkeyTexts : Cardinality(texts) \in 1..2}
============================================================================
