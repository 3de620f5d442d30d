---------------------------- MODULE Environment ----------------------------
(***************************************************************************)
(* The process's environment and what the program makes of it: the check   *)
(* and the conversion of common/config/env.validation.ts, and the places   *)
(* where the configuration is used while the application is created.       *)
(*                                                                         *)
(* An environment is a function from the variables that are set to their   *)
(* texts.  A text is a string, of which the model knows only what          *)
(* JavaScript's Number and parseInt make of it; the text of a list of URLs *)
(* is the sequence of its pieces.  A value that may be missing, or that is *)
(* not of its type (NaN, a fraction), is a set of at most one element.     *)
(*                                                                         *)
(* CORS_WHITELIST_REGEXP and SENTRY_DSN, which are taken as they are, and  *)
(* NODE_ENV=test, which skips the check, are left out.                     *)
(***************************************************************************)
EXTENDS Integers, Sequences, SequencesExt

CONSTANTS Texts,        \* the texts of variables
          integerOf,    \* Number(text), when that is an integer
          parseIntOf,   \* parseInt(text, 10)
          fileText      \* the files that exist, with their text, trimmed

ASSUME TextsAssumption ==
    /\ "" \in Texts
    /\ integerOf \in [Texts -> SUBSET Int]
    /\ parseIntOf \in [Texts -> SUBSET Int]
    /\ DOMAIN fileText \subseteq Texts \ {""}

-----------------------------------------------------------------------------
(* The variables and their rules *)

Optional(default, min, max) == [default |-> {default}, min |-> {min}, max |-> max]

\* An integer, its default, its least and its greatest value.
NumberRule ==
    [ PORT                               |-> Optional(3000, 1025, {65535}),
      GLOBAL_THROTTLE_TTL                |-> Optional(5, 1, {}),
      GLOBAL_THROTTLE_LIMIT              |-> Optional(100, 1, {}),
      GLOBAL_CACHE_TTL                   |-> Optional(1, 1, {}),
      PROVIDER_JSON_RPC_MAX_BATCH_SIZE   |-> Optional(100, 1, {}),
      PROVIDER_CONCURRENT_REQUESTS       |-> Optional(5, 1, {}),
      PROVIDER_BATCH_AGGREGATION_WAIT_MS |-> Optional(10, 1, {}),
      UPDATE_KEYS_INTERVAL_MS            |-> Optional(5000, 1, {}),
      UPDATE_VALIDATORS_INTERVAL_MS      |-> Optional(10000, 1, {}),
      KEYS_FETCH_BATCH_SIZE              |-> Optional(1100, 1, {}),
      CHAIN_ID |-> [default |-> {}, min |-> {},     max |-> {}],
      DB_PORT  |-> [default |-> {}, min |-> {1025}, max |-> {65535}] ]

\* The members of an enumeration; the first is the default.
EnumRule ==
    [ NODE_ENV   |-> <<"development", "production", "staging", "testnet">>,
      LOG_LEVEL  |-> <<"debug", "error", "warning", "notice", "info">>,
      LOG_FORMAT |-> <<"json", "simple">> ]

UrlVars      == {"PROVIDERS_URLS", "CL_API_URLS"}
RequiredText == {"DB_HOST", "DB_USER", "DB_NAME"}
TextVars     == RequiredText \cup
                {"DB_PASSWORD", "DB_PASSWORD_FILE", "LIDO_LOCATOR_DEVNET_ADDRESS"}
Variables    == DOMAIN NumberRule \cup DOMAIN EnumRule \cup UrlVars \cup TextVars
                \cup {"VALIDATOR_REGISTRY_ENABLE", "STREAM_TIMEOUT"}

\* What a list of URLs may be split into: URLs with slashes at their end, a text
\* that is no URL, nothing.
Pieces == {"url", "url/", "url//", "noproto", ""}

Unset(v) == IF v \in UrlVars THEN <<"">> ELSE ""      \* the empty text of v

-----------------------------------------------------------------------------
(* The conversions *)

\* Mutant of toNumber: the empty text is taken for a number.
toNumberOfAny(v, text) == integerOf[text]

toNumber(v, text) == IF text = "" THEN NumberRule[v].default ELSE integerOf[text]

toBoolean(text) ==
    IF text \in {"", "true", "yes", "1"} THEN {TRUE}
    ELSE IF text \in {"false", "no", "0"} THEN {FALSE}
    ELSE {}

WithoutSlash(piece) ==
    IF piece = "url/" THEN "url" ELSE IF piece = "url//" THEN "url/" ELSE piece

toArrayOfUrls(pieces) ==
    IF pieces = <<"">> THEN <<>>
    ELSE [i \in DOMAIN pieces |-> WithoutSlash(pieces[i])]

IsUrl(piece) == piece \in {"url", "url/", "url//"}

toEnum(v, text) == IF text = "" THEN EnumRule[v][1] ELSE text

DefaultTimeout == {60000}

Default(v) ==
    IF v \in DOMAIN NumberRule THEN NumberRule[v].default
    ELSE IF v \in DOMAIN EnumRule THEN EnumRule[v][1]
    ELSE IF v \in UrlVars THEN <<>>
    ELSE IF v = "VALIDATOR_REGISTRY_ENABLE" THEN {TRUE}
    ELSE IF v = "STREAM_TIMEOUT" THEN DefaultTimeout
    ELSE ""

Transform(v, text) ==
    IF v \in DOMAIN NumberRule THEN toNumber(v, text)
    ELSE IF v \in DOMAIN EnumRule THEN toEnum(v, text)
    ELSE IF v \in UrlVars THEN toArrayOfUrls(text)
    ELSE IF v = "VALIDATOR_REGISTRY_ENABLE" THEN toBoolean(text)
    ELSE IF v = "STREAM_TIMEOUT" THEN parseIntOf[text]
    ELSE text

\* The instance of EnvironmentVariables: a variable that is not set keeps its
\* initial value and is not transformed.
plainToInstance(env) ==
    [v \in Variables |-> IF v \in DOMAIN env THEN Transform(v, env[v]) ELSE Default(v)]

-----------------------------------------------------------------------------
(* The check *)

InRange(v, n) == /\ \A m \in NumberRule[v].min : n >= m
                 /\ \A m \in NumberRule[v].max : n <= m

\* Mutant of IsNumber: without Min, Max and IsPositive.
IsAnyNumber(v, value) == value # {}

IsNumber(v, value) == value # {} /\ \A n \in value : InRange(v, n)

AreUrls(urls) == urls # <<>> /\ \A i \in DOMAIN urls : IsUrl(urls[i])

Mainnet == 1
Hoodi   == 560048

HasErrors(c) ==
    \/ \E v \in DOMAIN NumberRule : ~IsNumber(v, c[v])
    \/ \E v \in DOMAIN EnumRule : c[v] \notin ToSet(EnumRule[v])
    \/ \E v \in RequiredText : c[v] = ""
    \/ c.VALIDATOR_REGISTRY_ENABLE = {}
    \/ c.STREAM_TIMEOUT = {} \/ \E n \in c.STREAM_TIMEOUT : ~(n > 0)
    \/ ~AreUrls(c.PROVIDERS_URLS)
    \* Whatever is not false, even a text that is no boolean, asks for the list.
    \/ c.VALIDATOR_REGISTRY_ENABLE # {FALSE} /\ ~AreUrls(c.CL_API_URLS)
    \/ c.DB_PASSWORD = "" /\ c.DB_PASSWORD_FILE = ""
    \/ c.CHAIN_ID \notin {{Mainnet}, {Hoodi}} /\ c.LIDO_LOCATOR_DEVNET_ADDRESS = ""

\* The configuration, or none: the process exits.
validate(env) == LET c == plainToInstance(env)
                 IN IF HasErrors(c) THEN {} ELSE {c}

-----------------------------------------------------------------------------
(* What the program needs of its configuration *)

\* ConfigService.get("DB_PASSWORD"), and the module mikro-orm.config when it
\* is loaded: no file, or a blank one, ends the process.
HasPassword(c) ==
    \/ c.DB_PASSWORD # ""
    \/ c.DB_PASSWORD_FILE \in DOMAIN fileText /\ fileText[c.DB_PASSWORD_FILE] # ""

\* LidoLocatorProvider: the address known for the chain, else the text that is
\* given.  No text makes the factory throw, and that only; one that is no address
\* is connected like any other and fails at every call, after the start.
LocatorAddress(c) ==
    IF c.CHAIN_ID \in {{Mainnet}, {Hoodi}} THEN "known address"
    ELSE c.LIDO_LOCATOR_DEVNET_ADDRESS

\* What the factories of the application's modules and the calls of bootstrap
\* that take a value of the configuration work with: positive integers for timers,
\* batches and caches, ports, nodes, an address (the password is HasPassword).
NumbersWork(c) ==
    /\ c.CHAIN_ID # {}
    /\ \A v \in DOMAIN NumberRule \ {"CHAIN_ID"} : c[v] # {} /\ \A n \in c[v] : n > 0
    /\ \A n \in c.PORT \cup c.DB_PORT : n < 65536
    /\ c.STREAM_TIMEOUT # {} /\ \A n \in c.STREAM_TIMEOUT : n > 0

Given(urls) == \E i \in DOMAIN urls : urls[i] # ""

NodesGiven(c) == /\ Given(c.PROVIDERS_URLS)
                 /\ TRUE \in c.VALIDATOR_REGISTRY_ENABLE => Given(c.CL_API_URLS)

FactoriesWork(c) ==
    /\ NumbersWork(c)
    /\ NodesGiven(c)
    /\ LocatorAddress(c) # ""
=============================================================================
