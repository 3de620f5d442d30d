---------------------------- MODULE MCDeployment ---------------------------
(* This release, replacing the one before it.  The new process is started   *)
(* with every environment that differs from an ordinary one in a variable   *)
(* or two; what an empty text does is the matter of EmptyIsUnset.            *)
EXTENDS Deployment, TLC

MCTexts == {"", "abc", "-5", "0", "1", "7", "1.5", "7abc", "1024", "1025", "65535", "65536",
            "no", "maybe", "json", "production", "/secret", "/blank", "/missing"}
Integer == [ x \in {"-5", "0", "1", "7", "1024", "1025", "65535", "65536"} |->
             CASE x = "-5" -> -5 [] x = "0" -> 0 [] x = "1" -> 1 [] x = "7" -> 7
               [] x = "1024" -> 1024 [] x = "1025" -> 1025 [] x = "65535" -> 65535
               [] x = "65536" -> 65536 ]
MCintegerOf  == [t \in MCTexts |-> IF t \in DOMAIN Integer THEN {Integer[t]}
                                   ELSE IF t = "" THEN {0} ELSE {}]
MCparseIntOf == [t \in MCTexts |-> IF t \in DOMAIN Integer THEN {Integer[t]}
                                   ELSE IF t = "1.5" THEN {1} ELSE IF t = "7abc" THEN {7} ELSE {}]
MCfileText   == [f \in {"/secret", "/blank"} |-> IF f = "/secret" THEN "abc" ELSE ""]

MCProcesses == {"old", "new"}
MCrelease   == [p \in MCProcesses |-> IF p = "new" THEN 7 ELSE 6]

Ordinary == [CHAIN_ID |-> "1", DB_PORT |-> "1025", DB_HOST |-> "abc", DB_USER |-> "abc",
             DB_NAME |-> "abc", DB_PASSWORD |-> "abc", PROVIDERS_URLS |-> <<"url", "url/">>,
             CL_API_URLS |-> <<"url">>]

TextsFor(v) == IF v \in UrlVars THEN {<<"">>, <<"noproto">>, <<"url//">>, <<"url", "">>}
               ELSE IF v \in {"PORT", "DB_PORT"} THEN {"1024", "1025", "65535", "65536"}
               ELSE IF v = "STREAM_TIMEOUT" THEN {"", "abc", "0", "7abc"}
               ELSE IF v \in DOMAIN NumberRule THEN {"abc", "-5", "0", "1", "1.5", "7abc"}
               ELSE IF v = "VALIDATOR_REGISTRY_ENABLE" THEN {"no", "maybe"}
               ELSE IF v \in DOMAIN EnumRule THEN {"json", "production", "abc"}
               ELSE IF v = "DB_PASSWORD_FILE" THEN {"", "/secret", "/blank", "/missing"}
               ELSE {"", "abc"}

With(e, v, t)  == (v :> t) @@ e
Without(e, v)  == [w \in DOMAIN e \ {v} |-> e[w]]

Changed(e, vs) == {e} \cup {Without(e, v) : v \in DOMAIN e \cap vs}
                      \cup UNION {{With(e, v, t) : t \in TextsFor(v)} : v \in vs}

MCenvs == [p \in MCProcesses |->
             IF p = "new"
             THEN Changed(Ordinary, Variables)
                  \cup Changed(With(Ordinary, "VALIDATOR_REGISTRY_ENABLE", "no"), {"CL_API_URLS"})
                  \cup Changed(With(Ordinary, "VALIDATOR_REGISTRY_ENABLE", "maybe"), {"CL_API_URLS"})
                  \cup Changed(Without(Ordinary, "DB_PASSWORD"), {"DB_PASSWORD_FILE"})
                  \cup Changed(With(Ordinary, "CHAIN_ID", "7"), {"LIDO_LOCATOR_DEVNET_ADDRESS"})
             ELSE {Ordinary}]
=============================================================================
