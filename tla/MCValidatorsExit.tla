-------------------------- MODULE MCValidatorsExit --------------------------
(* Five keys, added and deposited one after another; indexes are given in  *)
(* another order than deposits. Key k1 has left by block 3, k5 is never    *)
(* used. The module is in the router from block 2 on.                      *)
EXTENDS ValidatorsExit, TLC

CONSTANTS k1, k2, k3, k4, k5

MCIndex == (k1 :> 7) @@ (k2 :> 3) @@ (k3 :> 9) @@ (k4 :> 4) @@ (k5 :> 6)

KeysIn(b) ==
    CASE b = 0 -> {} [] b = 1 -> {k1, k2} [] b = 2 -> {k1, k2, k3} [] OTHER -> Pubkeys

UsedIn(b) ==
    CASE b = 0 -> {} [] b = 1 -> {k1} [] b = 2 -> {k1, k2} [] OTHER -> {k1, k2, k3, k4}

ExitableIn(b) ==
    CASE b = 0 -> {} [] b = 1 -> {k1} [] b = 2 -> {k1, k2} [] OTHER -> {k2, k3, k4}
=============================================================================
