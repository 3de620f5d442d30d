-------------------------- MODULE DeploymentProofs --------------------------
(***************************************************************************)
(* Proofs about the processes' lives: for every set of texts and every     *)
(* environment, a configuration that passed the check fails no factory and *)
(* an empty text is a variable that is not set; a service that is told to  *)
(* end clears every interval for good; and for any processes of any releases, and any  *)
(* migrations an operator takes back in between, the schema is that of the *)
(* recorded migrations, its tables hold one round's rows or none, and the  *)
(* pending migrations of a process that nobody overtook can be run.        *)
(***************************************************************************)
EXTENDS Deployment, SequenceTheorems, WellFoundedInduction, TLAPS

-----------------------------------------------------------------------------
(* The environment *)

LEMMA VariablesApart ==
    /\ UrlVars \cap DOMAIN NumberRule = {}
    /\ UrlVars \cap DOMAIN EnumRule = {}
    /\ "VALIDATOR_REGISTRY_ENABLE" \notin DOMAIN NumberRule \cup DOMAIN EnumRule \cup UrlVars
    /\ "STREAM_TIMEOUT" \notin DOMAIN NumberRule \cup DOMAIN EnumRule \cup UrlVars
    /\ DOMAIN NumberRule \cap DOMAIN EnumRule = {}
BY DEF UrlVars, NumberRule, EnumRule

\* What a transformation makes of the empty text is what an unset variable has.
LEMMA EmptyIsDefault ==
    ASSUME NEW v \in Variables, v # "STREAM_TIMEOUT"
    PROVE  Transform(v, Unset(v)) = Default(v)
<1>1. CASE v \in DOMAIN NumberRule
  <2>1. Unset(v) = "" BY <1>1, VariablesApart DEF Unset
  <2>2. Transform(v, "") = toNumber(v, "") BY <1>1, Zenon DEF Transform
  <2>3. Default(v) = NumberRule[v].default BY <1>1, Zenon DEF Default
  <2>4. toNumber(v, "") = NumberRule[v].default BY Zenon DEF toNumber
  <2>. QED BY <2>1, <2>2, <2>3, <2>4, Zenon
<1>2. CASE v \in DOMAIN EnumRule
  <2>1. Unset(v) = "" BY <1>2, VariablesApart DEF Unset
  <2>0. v \notin DOMAIN NumberRule BY <1>2, VariablesApart
  <2>2. Transform(v, "") = toEnum(v, "") BY <1>2, <2>0, Zenon DEF Transform
  <2>3. Default(v) = EnumRule[v][1] BY <1>2, <2>0, Zenon DEF Default
  <2>4. toEnum(v, "") = EnumRule[v][1] BY Zenon DEF toEnum
  <2>. QED BY <2>1, <2>2, <2>3, <2>4, Zenon
<1>3. CASE v \in UrlVars
  <2>1. Unset(v) = <<"">> BY <1>3, Zenon DEF Unset
  <2>0. v \notin DOMAIN NumberRule /\ v \notin DOMAIN EnumRule BY <1>3, VariablesApart
  <2>2. Transform(v, <<"">>) = toArrayOfUrls(<<"">>) BY <1>3, <2>0, Zenon DEF Transform
  <2>3. Default(v) = <<>> BY <1>3, <2>0, Zenon DEF Default
  <2>4. toArrayOfUrls(<<"">>) = <<>> BY Zenon DEF toArrayOfUrls
  <2>. QED BY <2>1, <2>2, <2>3, <2>4, Zenon
<1>4. CASE v \notin DOMAIN NumberRule \cup DOMAIN EnumRule \cup UrlVars
  <2>0. v \notin DOMAIN NumberRule /\ v \notin DOMAIN EnumRule /\ v \notin UrlVars BY <1>4
  <2>1. Unset(v) = "" BY <2>0, Zenon DEF Unset
  <2>2. CASE v = "VALIDATOR_REGISTRY_ENABLE"
    <3>1. Transform(v, "") = toBoolean("") BY <2>0, <2>2, Zenon DEF Transform
    <3>2. toBoolean("") = {TRUE} BY DEF toBoolean
    <3>3. Default(v) = {TRUE} BY <2>0, <2>2, Zenon DEF Default
    <3>. QED BY <2>1, <3>1, <3>2, <3>3, Zenon
  <2>3. CASE v # "VALIDATOR_REGISTRY_ENABLE"
    <3>1. Transform(v, "") = "" BY <2>0, <2>3, Zenon DEF Transform
    <3>2. Default(v) = "" BY <2>0, <2>3, Zenon DEF Default
    <3>. QED BY <2>1, <3>1, <3>2, Zenon
  <2>. QED BY <2>2, <2>3
<1>. QED BY <1>1, <1>2, <1>3, <1>4

LEMMA UnsetChangesNothing ==
    ASSUME NEW e, NEW v \in Variables \ (DOMAIN e \cup {"STREAM_TIMEOUT"})
    PROVE  validate([w \in DOMAIN e \cup {v} |-> IF w = v THEN Unset(v) ELSE e[w]])
             = validate(e)
<1>. DEFINE f == [w \in DOMAIN e \cup {v} |-> IF w = v THEN Unset(v) ELSE e[w]]
<1>1. ASSUME NEW w \in Variables
      PROVE  (IF w \in DOMAIN f THEN Transform(w, f[w]) ELSE Default(w))
               = (IF w \in DOMAIN e THEN Transform(w, e[w]) ELSE Default(w))
  <2>1. CASE w = v BY <2>1, EmptyIsDefault
  <2>2. CASE w # v BY <2>2
  <2>. QED BY <2>1, <2>2
<1>2. plainToInstance(f) = plainToInstance(e) BY <1>1 DEF plainToInstance
<1>. QED BY <1>2 DEF validate

\* The values a configuration is made of.
LEMMA NumbersAreIntegers ==
    ASSUME NEW p \in Processes, NEW e \in envs[p], NEW v \in DOMAIN NumberRule
    PROVE  plainToInstance(e)[v] \subseteq Int
<1>1. v \in Variables BY DEF Variables
<1>2. NumberRule[v].default \subseteq Int BY DEF NumberRule, Optional
<1>3. v \notin UrlVars BY VariablesApart
<1>4. v \in DOMAIN e => e[v] \in Texts BY <1>3, EnvsAssumption
<1>5. v \in DOMAIN e => toNumber(v, e[v]) \subseteq Int
  BY <1>2, <1>4, TextsAssumption DEF toNumber
<1>. QED BY <1>1, <1>2, <1>5 DEF plainToInstance, Transform, Default

LEMMA UrlsAreSequences ==
    ASSUME NEW p \in Processes, NEW e \in envs[p], NEW v \in UrlVars
    PROVE  plainToInstance(e)[v] \in Seq(Pieces)
<1>1. v \in Variables BY DEF Variables
<1>2. ASSUME NEW pieces \in Seq(Pieces) PROVE toArrayOfUrls(pieces) \in Seq(Pieces)
  <2>. DEFINE n == Len(pieces)
  <2>1. n \in Nat /\ DOMAIN pieces = 1..n /\ \A i \in 1..n : pieces[i] \in Pieces
    OBVIOUS
  <2>2. ASSUME NEW s \in Pieces PROVE WithoutSlash(s) \in Pieces BY DEF WithoutSlash, Pieces
  <2>3. [i \in 1..n |-> WithoutSlash(pieces[i])] \in [1..n -> Pieces] BY <2>1, <2>2, Zenon
  <2>4. [i \in 1..n |-> WithoutSlash(pieces[i])] \in Seq(Pieces) BY <2>1, <2>3
  <2>5. <<>> \in Seq(Pieces) OBVIOUS
  <2>. QED BY <2>1, <2>4, <2>5, Zenon DEF toArrayOfUrls
<1>3. v \in DOMAIN e => e[v] \in Seq(Pieces) BY EnvsAssumption
<1>4. v \notin DOMAIN NumberRule /\ v \notin DOMAIN EnumRule BY VariablesApart
<1>5. v \in DOMAIN e => Transform(v, e[v]) = toArrayOfUrls(e[v]) BY <1>4, Zenon DEF Transform
<1>6. Default(v) = <<>> BY <1>4, Zenon DEF Default
<1>7. <<>> \in Seq(Pieces) OBVIOUS
<1>8. (IF v \in DOMAIN e THEN Transform(v, e[v]) ELSE Default(v)) \in Seq(Pieces)
  BY <1>2, <1>3, <1>5, <1>6, <1>7, Zenon
<1>. QED BY <1>1, <1>8 DEF plainToInstance

LEMMA UrlsAreUsable ==
    ASSUME NEW urls \in Seq(Pieces), AreUrls(urls)
    PROVE  Given(urls)
<1>1. 1 \in DOMAIN urls BY DEF AreUrls
<1>. QED BY <1>1 DEF AreUrls, IsUrl, Given

LEMMA NumbersInRange ==
    ASSUME NEW v \in DOMAIN NumberRule, NEW value \in SUBSET Int, IsNumber(v, value)
    PROVE  /\ value # {}
           /\ v # "CHAIN_ID" => \A n \in value : n > 0
           /\ v \in {"PORT", "DB_PORT"} => \A n \in value : n < 65536
BY DEF IsNumber, InRange, NumberRule, Optional

LEMMA CheckedSuffices ==
    ASSUME NEW p \in Processes, NEW e \in envs[p], NEW c \in validate(e)
    PROVE  FactoriesWork(c)
<1>1. c = plainToInstance(e) /\ ~HasErrors(c) BY DEF validate
<1>2. \A v \in DOMAIN NumberRule : c[v] \in SUBSET Int /\ IsNumber(v, c[v])
  BY <1>1, NumbersAreIntegers DEF HasErrors
<1>3. \A v \in DOMAIN NumberRule : c[v] # {} /\ (v # "CHAIN_ID" => \A n \in c[v] : n > 0)
  BY <1>2, NumbersInRange
<1>4. "CHAIN_ID" \in DOMAIN NumberRule /\ "PORT" \in DOMAIN NumberRule /\ "DB_PORT" \in DOMAIN NumberRule
  BY DEF NumberRule
<1>5. \A n \in c.PORT \cup c.DB_PORT : n < 65536
  BY <1>2, <1>4, NumbersInRange
<1>6. c.STREAM_TIMEOUT # {} BY <1>1 DEF HasErrors
<1>7. \A n \in c.STREAM_TIMEOUT : n > 0 BY <1>1 DEF HasErrors
<1>8. Given(c.PROVIDERS_URLS)
  BY <1>1, UrlsAreSequences, UrlsAreUsable DEF HasErrors, UrlVars
<1>9. TRUE \in c.VALIDATOR_REGISTRY_ENABLE => Given(c.CL_API_URLS)
  BY <1>1, UrlsAreSequences, UrlsAreUsable DEF HasErrors, UrlVars
<1>10. LocatorAddress(c) # "" BY <1>1 DEF HasErrors, LocatorAddress
<1>11. c.CHAIN_ID # {} BY <1>3, <1>4
<1>12. \A v \in DOMAIN NumberRule \ {"CHAIN_ID"} : c[v] # {} /\ \A n \in c[v] : n > 0
  BY <1>3
<1>13. NumbersWork(c) BY <1>5, <1>6, <1>7, <1>11, <1>12 DEF NumbersWork
<1>14. NodesGiven(c) BY <1>8, <1>9, Zenon DEF NodesGiven
<1>. QED BY <1>10, <1>13, <1>14, Zenon DEF FactoriesWork
-----------------------------------------------------------------------------
(* The environment of a process that is loaded is one it was started with. *)

EnvOK == \A p \in Processes : phase[p] = "loaded" => env[p] \in envs[p]

Phases == {"off", "loaded", "created", "migrating", "migrated", "starting",
           "listening", "closing", "dying"}

Arrays == /\ phase \in [Processes -> Phases]
          /\ env = [p \in Processes |-> env[p]]
          /\ job = [p \in Processes |-> job[p]]
          /\ intervals = [p \in Processes |-> intervals[p]]
          /\ enabled = [p \in Processes |-> enabled[p]]

LEMMA EnvInit == Init => Arrays /\ EnvOK
BY DEF Init, Arrays, EnvOK, Phases

LEMMA EnvStep ==
    ASSUME Arrays, EnvOK, [Next]_vars
    PROVE  Arrays' /\ EnvOK'
<1>. USE DEF Arrays, EnvOK, Phases
<1>1. CASE UNCHANGED vars BY <1>1 DEF vars, process
<1>2. CASE Down BY <1>2 DEF Down, process
<1>3. ASSUME NEW p \in Processes, ProcessStep(p) PROVE Arrays' /\ EnvOK'
  <2>1. CASE Start(p)
    <3>1. PICK e \in Loads[p] : env' = [env EXCEPT ![p] = e] BY <2>1 DEF Start
    <3>2. e \in envs[p] BY <3>1 DEF Loads
    <3>. QED BY <2>1, <3>1, <3>2 DEF Start
  <2>2. CASE CreateApp(p) BY <2>2 DEF CreateApp, Stopped
  <2>3. CASE ReadPending(p) BY <2>3 DEF ReadPending
  <2>4. CASE RunPending(p) BY <2>4 DEF RunPending, Stopped
  <2>5. CASE InitJobs(p) BY <2>5 DEF InitJobs
  <2>6. CASE Listen(p) BY <2>6 DEF Listen
  <2>7. CASE FirstRoundEnds(p) BY <2>7 DEF FirstRoundEnds
  <2>8. CASE KeysRound(p) BY <2>8 DEF KeysRound, process
  <2>9. CASE Shutdown(p) BY <2>9 DEF Shutdown
  <2>10. CASE UncaughtException(p) BY <2>10 DEF UncaughtException
  <2>11. CASE Exit(p) BY <2>11 DEF Exit, Stopped
  <2>. QED BY <1>3, <2>1, <2>2, <2>3, <2>4, <2>5, <2>6, <2>7, <2>8, <2>9, <2>10, <2>11
         DEF ProcessStep
<1>. QED BY <1>1, <1>2, <1>3 DEF Next

\* validate is called with the environment of the process, and what it accepts
\* is enough for every factory, for any texts and any environments.
THEOREM ConfigSuffices == Spec => []ValidatedConfigSuffices
<1>1. Arrays /\ EnvOK => ValidatedConfigSuffices
  BY CheckedSuffices DEF EnvOK, ValidatedConfigSuffices
<1>. QED BY <1>1, EnvInit, EnvStep, PTL DEF Spec

\* Whatever a variable is, but for STREAM_TIMEOUT, setting it to the empty text
\* changes neither whether the environment is accepted nor what it is read as.
THEOREM EmptyTextsAreUnset == Spec => []EmptyIsUnset
<1>1. EmptyIsUnset
  <2>1. ASSUME NEW p \in Processes, NEW v \in Variables \ (DOMAIN env[p] \cup {"STREAM_TIMEOUT"})
        PROVE  validate([w \in DOMAIN env[p] \cup {v} |-> IF w = v THEN Unset(v) ELSE env[p][w]])
                 = validate(env[p])
    BY <2>1, UnsetChangesNothing
  <2>. QED BY <2>1 DEF EmptyIsUnset
<1>. QED BY <1>1, PTL

-----------------------------------------------------------------------------
(* The intervals *)

\* Before the service is told to end, or dies, the validators' job has its first
\* round only after the keys' job has its interval, and no job that has its
\* interval is to have it yet.
InOrderStarted(p) ==
    phase[p] \in {"closing", "dying"}
    \/ /\ intervals[p] # {} => "keys" \in intervals[p]
       /\ intervals[p] \subseteq Jobs
       /\ job[p] = "validators first" => "keys" \in intervals[p]
       /\ "keys" \in intervals[p] => job[p] # "keys first"
       /\ "validators" \in intervals[p] =>
            job[p] # "keys first" /\ job[p] # "validators first"
       /\ phase[p] \notin {"starting", "listening"} => intervals[p] = {}

IntervalsOK == \A p \in Processes : InOrderStarted(p)

LEMMA IntervalsInit == Init => IntervalsOK
BY DEF Init, IntervalsOK, InOrderStarted

LEMMA IntervalsStep ==
    ASSUME Arrays, IntervalsOK, [Next]_vars
    PROVE  IntervalsOK'
<1>. USE DEF Arrays, IntervalsOK, InOrderStarted
<1>1. CASE UNCHANGED vars BY <1>1 DEF vars, process
<1>2. CASE Down BY <1>2 DEF Down, process
<1>3. ASSUME NEW p \in Processes, ProcessStep(p) PROVE IntervalsOK'
  <2>1. CASE Start(p) BY <2>1 DEF Start
  <2>2. CASE CreateApp(p) BY <2>2 DEF CreateApp, Stopped
  <2>3. CASE ReadPending(p) BY <2>3 DEF ReadPending
  <2>4. CASE RunPending(p) BY <2>4 DEF RunPending, Stopped
  <2>5. CASE InitJobs(p) BY <2>5 DEF InitJobs
  <2>6. CASE Listen(p) BY <2>6 DEF Listen
  <2>7. CASE FirstRoundEnds(p)
    <3>1. phase' = phase BY <2>7 DEF FirstRoundEnds
    <3>2. CASE job[p] = "keys first"
      <4>1. intervals' = [intervals EXCEPT ![p] = @ \cup {"keys"}]
        BY <2>7, <3>2 DEF FirstRoundEnds
      <4>2. \A q \in Processes \ {p} : job'[q] = job[q] BY <2>7 DEF FirstRoundEnds
      <4>3. intervals'[p] = intervals[p] \cup {"keys"} BY <4>1
      <4>4. \A q \in Processes \ {p} : intervals'[q] = intervals[q] BY <4>1
      <4>5. job'[p] = "validators first" \/ job'[p] = "done"
        BY <2>7, <3>2 DEF FirstRoundEnds
      <4>6. phase[p] \in {"starting", "listening", "closing", "dying"}
        BY <2>7 DEF FirstRoundEnds, Running
      <4>. QED BY <3>1, <3>2, <4>2, <4>3, <4>4, <4>5, <4>6 DEF Jobs
    <3>3. CASE job[p] = "validators first"
      <4>1. intervals' = [intervals EXCEPT ![p] = @ \cup {"validators"}]
        BY <2>7, <3>3 DEF FirstRoundEnds
      <4>2. \A q \in Processes \ {p} : job'[q] = job[q] BY <2>7 DEF FirstRoundEnds
      <4>3. intervals'[p] = intervals[p] \cup {"validators"} BY <4>1
      <4>4. \A q \in Processes \ {p} : intervals'[q] = intervals[q] BY <4>1
      <4>5. job'[p] = "done" BY <2>7, <3>3 DEF FirstRoundEnds
      <4>6. phase[p] \in {"starting", "listening", "closing", "dying"}
        BY <2>7 DEF FirstRoundEnds, Running
      <4>. QED BY <3>1, <3>3, <4>2, <4>3, <4>4, <4>5, <4>6 DEF Jobs
    <3>. QED BY <2>7, <3>2, <3>3 DEF FirstRoundEnds
  <2>8. CASE KeysRound(p) BY <2>8 DEF KeysRound, process
  <2>9. CASE Shutdown(p) BY <2>9 DEF Shutdown
  <2>10. CASE UncaughtException(p) BY <2>10 DEF UncaughtException
  <2>11. CASE Exit(p) BY <2>11 DEF Exit, Stopped
  <2>. QED BY <1>3, <2>1, <2>2, <2>3, <2>4, <2>5, <2>6, <2>7, <2>8, <2>9, <2>10, <2>11
         DEF ProcessStep
<1>. QED BY <1>1, <1>2, <1>3 DEF Next

LEMMA ClosingClears ==
    ASSUME Arrays, IntervalsOK, [Next]_vars, NEW p \in Processes,
           phase[p] # "closing", phase'[p] = "closing"
    PROVE  intervals'[p] = {} /\ intervals[p] \cap ToCome(p)' = {}
<1>1. Shutdown(p)
  <2>. USE DEF Arrays
  <2>1. PICK q \in Processes : ProcessStep(q) BY DEF Next, vars, process, Down
  <2>. QED BY <2>1 DEF ProcessStep, Start, CreateApp, Stopped, ReadPending, RunPending, InitJobs,
              Listen, FirstRoundEnds, KeysRound, process, Shutdown, UncaughtException, Exit
<1>2. intervals'[p] = Uncleared(intervals[p]) BY <1>1 DEF Shutdown, Arrays
<1>3. /\ intervals[p] # {} => "keys" \in intervals[p]
      /\ intervals[p] \subseteq Jobs
      /\ intervals[p] \cap ToCome(p) = {}
  BY <1>1 DEF Shutdown, IntervalsOK, InOrderStarted, ToCome, Jobs
<1>4. ToCome(p)' = ToCome(p) BY <1>1 DEF Shutdown, ToCome
<1>5. intervals'[p] = {} BY <1>2, <1>3 DEF Uncleared
<1>. QED BY <1>3, <1>4, <1>5

\* While the service closes, only a first round that was under way adds an interval.
LEMMA ClosingAddsOnlyToCome ==
    ASSUME Arrays, [Next]_vars, NEW p \in Processes,
           phase[p] = "closing", phase'[p] = "closing"
    PROVE  /\ intervals'[p] \subseteq intervals[p] \cup ToCome(p)
           /\ ToCome(p)' \subseteq ToCome(p)
<1>. USE DEF Arrays
<1>1. CASE UNCHANGED <<intervals[p], job[p], enabled[p]>>
  BY <1>1 DEF ToCome
<1>2. CASE FirstRoundEnds(p)
  <2>1. enabled'[p] = enabled[p] BY <1>2 DEF FirstRoundEnds
  <2>2. CASE job[p] = "keys first"
    <3>1. /\ intervals'[p] = intervals[p] \cup {"keys"}
          /\ job'[p] = IF enabled[p] THEN "validators first" ELSE "done"
      BY <1>2, <2>2 DEF FirstRoundEnds
    <3>. QED BY <2>1, <2>2, <3>1 DEF ToCome, Jobs
  <2>3. CASE job[p] = "validators first"
    <3>1. intervals'[p] = intervals[p] \cup {"validators"} /\ job'[p] = "done"
      BY <1>2, <2>3 DEF FirstRoundEnds
    <3>. QED BY <2>1, <2>3, <3>1 DEF ToCome, Jobs
  <2>. QED BY <1>2, <2>2, <2>3 DEF FirstRoundEnds
<1>3. FirstRoundEnds(p) \/ UNCHANGED <<intervals[p], job[p], enabled[p]>>
  <2>1. CASE UNCHANGED process BY <2>1 DEF process
  <2>2. ASSUME NEW q \in Processes, ProcessStep(q), q # p
        PROVE  UNCHANGED <<intervals[p], job[p], enabled[p]>>
    <3>1. CASE FirstRoundEnds(q)
      <4>1. intervals' = [intervals EXCEPT ![q] = intervals'[q]]
        BY <2>2, <3>1 DEF FirstRoundEnds
      <4>2. job' = [job EXCEPT ![q] = job'[q]] BY <2>2, <3>1 DEF FirstRoundEnds
      <4>3. enabled' = enabled BY <3>1 DEF FirstRoundEnds
      <4>. QED BY <2>2, <4>1, <4>2, <4>3
    <3>2. CASE Shutdown(q)
      <4>1. /\ intervals' = [intervals EXCEPT ![q] = Uncleared(intervals[q])]
            /\ UNCHANGED <<job, enabled>>
        BY <3>2 DEF Shutdown
      <4>. QED BY <2>2, <4>1
    <3>3. CASE Stopped(q) BY <2>2, <3>3 DEF Stopped
    <3>4. CASE Start(q)
      <4>1. PICK on : enabled' = [enabled EXCEPT ![q] = on] BY <3>4 DEF Start
      <4>2. UNCHANGED <<job, intervals>> BY <3>4 DEF Start
      <4>. QED BY <2>2, <4>1, <4>2
    <3>5. CASE InitJobs(q)
      <4>1. job' = [job EXCEPT ![q] = "keys first"] /\ UNCHANGED <<enabled, intervals>>
        BY <3>5 DEF InitJobs
      <4>. QED BY <2>2, <4>1
    <3>6. \/ FirstRoundEnds(q) \/ Shutdown(q) \/ Stopped(q) \/ Start(q) \/ InitJobs(q)
          \/ UNCHANGED <<job, intervals, enabled>>
      BY <2>2, Zenon DEF ProcessStep, CreateApp, ReadPending, RunPending,
               Listen, KeysRound, process, UncaughtException, Exit
    <3>. QED BY <3>1, <3>2, <3>3, <3>4, <3>5, <3>6
  <2>3. ASSUME ProcessStep(p), ~FirstRoundEnds(p)
        PROVE  UNCHANGED <<intervals[p], job[p], enabled[p]>>
    <3>1. KeysRound(p)
      BY <2>3 DEF ProcessStep, Start, CreateApp, Stopped, ReadPending, RunPending, InitJobs,
               Listen, Shutdown, UncaughtException, Exit
    <3>. QED BY <3>1 DEF KeysRound, process
  <2>. QED BY <2>1, <2>2, <2>3 DEF Next, vars, Down
<1>. QED BY <1>1, <1>2, <1>3

\* JobsService.onModuleDestroy clears every interval there is, although it stops
\* at the first job that has none; what it leaves to come is what initialize has
\* not made yet.
THEOREM ClosingLeavesNoInterval == Spec => ClosingStopsJobs
<1> DEFINE Closes(p) ==
      phase'[p] = "closing" =>
          IF phase[p] # "closing"
          THEN intervals'[p] = {} /\ intervals[p] \cap ToCome(p)' = {}
          ELSE /\ intervals'[p] \subseteq intervals[p] \cup ToCome(p)
               /\ ToCome(p)' \subseteq ToCome(p)
<1>1. Arrays /\ IntervalsOK /\ [Next]_vars => [\A p \in Processes : Closes(p)]_vars
  BY ClosingClears, ClosingAddsOnlyToCome
<1>2. Arrays /\ EnvOK /\ IntervalsOK /\ [Next]_vars => (Arrays /\ EnvOK /\ IntervalsOK)'
  BY EnvStep, IntervalsStep
<1>3. Init => Arrays /\ EnvOK /\ IntervalsOK BY EnvInit, IntervalsInit
<1>. QED BY <1>1, <1>2, <1>3, PTL DEF Spec, ClosingStopsJobs

-----------------------------------------------------------------------------
(* The schema by the migrations that are recorded.  A process of an older   *)
(* release and an operator can record them in an order that is not that of   *)
(* their names (the sixth taken back while another process ran the seventh), *)
(* but what is recorded is always closed under what a migration rests on, and*)
(* the database is a function of that set and of the round stored in it.     *)

\* The second migration alters tables of the first, all later ones those of the second.
Closed(E) == /\ E \subseteq Versions
             /\ 2 \in E => 1 \in E
             /\ \A v \in E : v > 2 => 2 \in E

TablesOf(E) == IF 1 \notin E THEN {}
               ELSE IF 2 \notin E THEN {KEY, META, OPERATOR}
               ELSE {KEY, OPERATOR, EL_META, MODULES}

Added(v, E, columns) == IF v \in E THEN columns ELSE {}

ColumnsOf(E, t) ==
    IF t = KEY THEN
         {"index", "operator_index", "key", "deposit_signature", "used"}
         \cup Added(2, E, {"module_address"}) \cup Added(5, E, {"vetted"})
    ELSE IF t = META THEN {"block_number", "block_hash", "keys_op_index", "timestamp"}
    ELSE IF t = OPERATOR THEN
         {"index", "active", "name", "reward_address", "staking_limit",
          "stopped_validators", "total_signing_keys", "used_signing_keys"}
         \cup Added(2, E, {"module_address"})
         \cup Added(4, E, {"finalized_used_signing_keys"})
         \cup Added(7, E, {"depositable_validators_count"})
    ELSE IF t = EL_META THEN
         {"block_number", "block_hash", "timestamp"}
         \cup Added(4, E, {"last_changed_block_hash"})
    ELSE {"id", "module_id", "staking_module_address", "treasury_fee", "target_share",
          "status", "name", "last_deposit_at", "last_deposit_block",
          "exited_validators_count", "type", "active", "nonce"}
         \cup {IF 3 \in E THEN "module_fee" ELSE "staking_module_fee"}
         \cup Added(4, E, {"last_changed_block_hash"})
         \cup Added(6, E, {"withdrawal_credentials_type"})

KeyOf(E, t) ==
    IF t = KEY THEN {"index", "operator_index"} \cup Added(2, E, {"module_address"})
    ELSE IF t = META THEN {"block_number"}
    ELSE IF t = OPERATOR THEN {"index"} \cup Added(2, E, {"module_address"})
    ELSE IF t = EL_META THEN {"block_number", "block_hash"}
    ELSE {"id"}

Table(columns, key, rows) == [columns |-> columns, key |-> key, rows |-> rows]

\* A database by its tables' columns, keys and rows.
Layout(C, K, R) == [t \in DOMAIN C |-> Table(C[t], K[t], R[t])]

\* The database of these migrations with the rows of one round in all its tables.
SchemaColumns(E) == [t \in TablesOf(E) |-> ColumnsOf(E, t)]
SchemaKeys(E)    == [t \in TablesOf(E) |-> KeyOf(E, t)]
Uniform(E, rows) == [t \in TablesOf(E) |-> rows]

Db(E, rows) == Layout(SchemaColumns(E), SchemaKeys(E), Uniform(E, rows))

\* A function with one more entry, or another one, and without an entry.
With(f, t, x) == [u \in DOMAIN f \cup {t} |-> IF u = t THEN x ELSE f[u]]
Without(f, t) == [u \in DOMAIN f \ {t} |-> f[u]]

-----------------------------------------------------------------------------
(* Runs of statements and of migrations, step by step *)

\* Every nonempty set of naturals has a least element.
LEMMA LeastNatural ==
    ASSUME NEW T, T \subseteq Nat, T # {}
    PROVE  \E x \in T : \A y \in T : ~(y < x)
<1>. DEFINE R == OpToRel(<, Nat)
<1>1. IsWellFoundedOn(R, Nat) BY NatLessThanWellFounded
<1>2. \E x \in T : \A y \in T : ~(<<y, x>> \in R)
  <2>. HIDE DEF R
  <2>. QED BY <1>1, WFMin
<1>3. \A x, y \in Nat : y < x => <<y, x>> \in R BY DEF OpToRel
<1>. QED BY <1>2, <1>3

\* f is what is left of first after each of the statements.
Traces(f, first, s) == /\ f[0] = first
                       /\ \A i \in 1..Len(s) : f[i] = After(f[i - 1], s[i])

\* Execute is what is left after the last of the statements.
LEMMA Executed ==
    ASSUME NEW db, NEW S, NEW s \in Seq(S)
    PROVE  \E f : Traces(f, {db}, s) /\ Execute(db, s) = f[Len(s)]
<1>. DEFINE n == Len(s)
            Run(f, m) == f = [i \in 0..m |-> IF i = 0 THEN {db} ELSE After(f[i - 1], s[i])]
            Exists(m) == \E f : Run(f, m)
            None == {m \in 0..n : ~Exists(m)}
<1>1. n \in Nat OBVIOUS
<1>2. None = {}
  <2>1. SUFFICES ASSUME None # {} PROVE FALSE OBVIOUS
  <2>0. None \subseteq Nat BY <1>1
  <2>2. PICK m \in None : \A k \in None : ~(k < m)
    <3>. HIDE DEF None
    <3>. QED BY <2>0, <2>1, LeastNatural
  <2>3. CASE m = 0
    <3>1. Run([i \in 0..0 |-> {db}], 0) OBVIOUS
    <3>. QED BY <2>2, <2>3, <3>1
  <2>4. CASE m # 0
    <3>1. m - 1 \in 0..n /\ m \in 1..n BY <1>1, <2>4
    <3>2. m - 1 \notin None
      <4>. HIDE DEF None
      <4>. QED BY <2>2, <3>1
    <3>3. Exists(m - 1)
      <4>. HIDE DEF Exists
      <4>. QED BY <3>1, <3>2
    <3>4. PICK f : Run(f, m - 1) BY <3>3, Zenon
    <3>. DEFINE g == [i \in 0..m |-> IF i = m THEN After(f[m - 1], s[m]) ELSE f[i]]
    <3>5. ASSUME NEW i \in 0..m
          PROVE  g[i] = IF i = 0 THEN {db} ELSE After(g[i - 1], s[i])
      <4>. HIDE DEF None
      <4>1. CASE i = m
        <5>1. g[i - 1] = f[m - 1] BY <3>1, <4>1
        <5>. QED BY <2>4, <4>1, <5>1
      <4>2. CASE i # m
        <5>1. i \in 0..(m - 1) BY <3>1, <4>2
        <5>2. g[i] = f[i] BY <3>1, <4>2
        <5>3. f[i] = IF i = 0 THEN {db} ELSE After(f[i - 1], s[i]) BY <3>4, <5>1
        <5>4. i # 0 => g[i - 1] = f[i - 1] BY <3>1, <5>1
        <5>. QED BY <5>2, <5>3, <5>4
      <4>. QED BY <4>1, <4>2
    <3>6. Run(g, m) BY <3>5
    <3>. QED BY <2>2, <3>6
  <2>. QED BY <2>3, <2>4
<1>3. Exists(n)
  <2>. HIDE DEF Exists
  <2>. QED BY <1>1, <1>2
<1>. DEFINE result == CHOOSE f : Run(f, n)
<1>4. Run(result, n) BY <1>3, Zenon
<1>5. Execute(db, s) = result[n] BY Zenon DEF Execute
<1>. HIDE DEF result
<1>6. \A i \in 0..n : result[i] = IF i = 0 THEN {db} ELSE After(result[i - 1], s[i])
  BY <1>4
<1>7. Traces(result, {db}, s) BY <1>1, <1>6 DEF Traces
<1>. QED BY <1>5, <1>7

\* f is what the pending migrations leave of first, one version after the other.
Runs(f, first, P) ==
    /\ f[0] = {first}
    /\ \A v \in 1..7 : f[v] = IF v \notin P THEN f[v - 1]
                              ELSE UNION {Execute(d, findMigrations[v].up) : d \in f[v - 1]}

\* RunUp is what is left after the last of the migrations.
LEMMA RanUp ==
    ASSUME NEW db, NEW P
    PROVE  \E f : Runs(f, db, P) /\ RunUp(db, P) = f[7]
<1>. DEFINE Step(v, result) == IF v \notin P THEN result
                               ELSE UNION {Execute(d, findMigrations[v].up) : d \in result}
            Run(f, m) == f = [v \in 0..m |-> IF v = 0 THEN {db} ELSE Step(v, f[v - 1])]
            Exists(m) == \E f : Run(f, m)
            None == {m \in 0..7 : ~Exists(m)}
<1>1. Len(findMigrations) = 7 BY DEF findMigrations
<1>2. None = {}
  <2>. HIDE DEF Step
  <2>1. SUFFICES ASSUME None # {} PROVE FALSE OBVIOUS
  <2>0. None \subseteq Nat OBVIOUS
  <2>2. PICK m \in None : \A k \in None : ~(k < m)
    <3>. HIDE DEF None
    <3>. QED BY <2>0, <2>1, LeastNatural
  <2>3. CASE m = 0
    <3>1. Run([i \in 0..0 |-> {db}], 0) OBVIOUS
    <3>. QED BY <2>2, <2>3, <3>1
  <2>4. CASE m # 0
    <3>1. m - 1 \in 0..7 /\ m \in 1..7 BY <2>4
    <3>2. m - 1 \notin None
      <4>. HIDE DEF None
      <4>. QED BY <2>2, <3>1
    <3>3. Exists(m - 1)
      <4>. HIDE DEF Exists
      <4>. QED BY <3>1, <3>2
    <3>4. PICK f : Run(f, m - 1) BY <3>3, Zenon
    <3>. DEFINE g == [v \in 0..m |-> IF v = m THEN Step(m, f[m - 1]) ELSE f[v]]
    <3>5. ASSUME NEW i \in 0..m
          PROVE  g[i] = IF i = 0 THEN {db} ELSE Step(i, g[i - 1])
      <4>. HIDE DEF None
      <4>1. CASE i = m
        <5>1. g[i - 1] = f[m - 1] BY <3>1, <4>1
        <5>. QED BY <2>4, <4>1, <5>1
      <4>2. CASE i # m
        <5>1. i \in 0..(m - 1) BY <3>1, <4>2
        <5>2. g[i] = f[i] BY <3>1, <4>2
        <5>3. f[i] = IF i = 0 THEN {db} ELSE Step(i, f[i - 1]) BY <3>4, <5>1
        <5>4. i # 0 => g[i - 1] = f[i - 1] BY <3>1, <5>1
        <5>. QED BY <5>2, <5>3, <5>4
      <4>. QED BY <4>1, <4>2
    <3>6. Run(g, m) BY <3>5
    <3>. QED BY <2>2, <3>6
  <2>. QED BY <2>3, <2>4
<1>3. Exists(7)
  <2>. HIDE DEF Exists
  <2>. QED BY <1>2
<1>. DEFINE upTo == CHOOSE f : Run(f, 7)
<1>4. Run(upTo, 7) BY <1>3, Zenon
<1>5. RunUp(db, P) = upTo[7] BY <1>1, Zenon DEF RunUp
<1>. HIDE DEF upTo
<1>6. \A v \in 0..7 : upTo[v] = IF v = 0 THEN {db} ELSE Step(v, upTo[v - 1])
  <2>. HIDE DEF Step
  <2>. QED BY <1>4
<1>7. upTo[0] = {db} /\ \A v \in 1..7 : upTo[v] = Step(v, upTo[v - 1])
  <2>. HIDE DEF Step
  <2>. QED BY <1>6
<1>8. Runs(upTo, db, P) BY <1>7, Zenon DEF Runs
<1>. QED BY <1>5, <1>8, Zenon

-----------------------------------------------------------------------------
(* The statements, on a database given by its tables' columns, keys and rows *)

\* No statement is executed in no database.
LEMMA AfterNothing == \A s : After({}, s) = {}
BY DEF After

\* In one database a statement is executed or fails.
LEMMA AfterOne ==
    ASSUME NEW d, NEW s
    PROVE  After({d}, s) = IF Possible(d, s) THEN {Effect(d, s)} ELSE {}
BY DEF After

\* The fields of a table, and a table with another one.
LEMMA Fields ==
    ASSUME NEW c, NEW k, NEW r
    PROVE  /\ Table(c, k, r).columns = c /\ Table(c, k, r).key = k /\ Table(c, k, r).rows = r
           /\ \A x : /\ [Table(c, k, r) EXCEPT !.columns = x] = Table(x, k, r)
                     /\ [Table(c, k, r) EXCEPT !.key = x] = Table(c, x, r)
                     /\ [Table(c, k, r) EXCEPT !.rows = x] = Table(c, k, x)
BY DEF Table

\* The tables of a layout.
LEMMA LayoutEntries ==
    ASSUME NEW C, NEW K, NEW R
    PROVE  /\ DOMAIN Layout(C, K, R) = DOMAIN C
           /\ \A t \in DOMAIN C : Layout(C, K, R)[t] = Table(C[t], K[t], R[t])
BY DEF Layout

\* CREATE of a table that is not there.
LEMMA Creates ==
    ASSUME NEW C, NEW K, NEW R, DOMAIN K = DOMAIN C, DOMAIN R = DOMAIN C,
           NEW t, NEW c, NEW k, t \notin DOMAIN C
    PROVE  After({Layout(C, K, R)}, Create(t, c, k)) =
             {Layout(With(C, t, c), With(K, t, k), With(R, t, Empty))}
<1>. DEFINE d == Layout(C, K, R)
            s == Create(t, c, k)
<1>1. DOMAIN d = DOMAIN C /\ \A u \in DOMAIN C : d[u] = Table(C[u], K[u], R[u])
  BY LayoutEntries
<1>2. s.op = "create" /\ s.table = t /\ s.columns = c /\ s.key = k BY DEF Create
<1>. HIDE DEF d, s
<1>3. Possible(d, s) BY <1>1, <1>2, Zenon DEF Possible
<1>4. Effect(d, s) = [u \in DOMAIN d \cup {t} |-> IF u = t THEN Table(c, k, Empty) ELSE d[u]]
  BY <1>2, Zenon DEF Effect, Table
<1>5. [u \in DOMAIN d \cup {t} |-> IF u = t THEN Table(c, k, Empty) ELSE d[u]]
        = Layout(With(C, t, c), With(K, t, k), With(R, t, Empty))
  BY <1>1 DEF Layout, With
<1>. QED BY <1>3, <1>4, <1>5, AfterOne, Zenon DEF d, s

\* CREATE of a table that is there fails.
LEMMA Clashes ==
    ASSUME NEW C, NEW K, NEW R, NEW t, NEW c, NEW k, t \in DOMAIN C
    PROVE  After({Layout(C, K, R)}, Create(t, c, k)) = {}
<1>. DEFINE d == Layout(C, K, R)
            s == Create(t, c, k)
<1>1. DOMAIN d = DOMAIN C BY LayoutEntries
<1>2. s.op = "create" /\ s.table = t BY DEF Create
<1>. HIDE DEF d, s
<1>3. ~Possible(d, s) BY <1>1, <1>2, Zenon DEF Possible
<1>. QED BY <1>3, AfterOne, Zenon DEF d, s

\* DROP, if the table exists or not.
LEMMA DropDoes ==
    ASSUME NEW C, NEW K, NEW R, DOMAIN K = DOMAIN C, DOMAIN R = DOMAIN C, NEW t
    PROVE  After({Layout(C, K, R)}, Drop(t)) =
             {Layout(Without(C, t), Without(K, t), Without(R, t))}
<1>. DEFINE d == Layout(C, K, R)
            s == Drop(t)
<1>1. DOMAIN d = DOMAIN C /\ \A u \in DOMAIN C : d[u] = Table(C[u], K[u], R[u])
  BY LayoutEntries
<1>2. s.op = "drop" /\ s.table = t /\ s.op # "create" BY DEF Drop
<1>. HIDE DEF d, s
<1>3. Possible(d, s) BY <1>2, Zenon DEF Possible
<1>4. Effect(d, s) = [u \in DOMAIN d \ {t} |-> d[u]] BY <1>2, Zenon DEF Effect
<1>5. [u \in DOMAIN d \ {t} |-> d[u]]
        = Layout(Without(C, t), Without(K, t), Without(R, t))
  BY <1>1 DEF Layout, Without
<1>. QED BY <1>3, <1>4, <1>5, AfterOne, Zenon DEF d, s

\* TRUNCATE.
LEMMA TruncateDoes ==
    ASSUME NEW C, NEW K, NEW R, DOMAIN K = DOMAIN C, DOMAIN R = DOMAIN C, NEW t
    PROVE  After({Layout(C, K, R)}, Truncate(t)) =
             IF t \in DOMAIN C
             THEN {Layout(C, K, [R EXCEPT ![t] = Empty])}
             ELSE {}
<1>. DEFINE d == Layout(C, K, R)
            s == Truncate(t)
<1>1. DOMAIN d = DOMAIN C /\ \A u \in DOMAIN C : d[u] = Table(C[u], K[u], R[u])
  BY LayoutEntries
<1>2. s.op = "truncate" /\ s.table = t BY DEF Truncate
<1>3. /\ s.op # "create" /\ s.op # "drop"
  BY <1>2
<1>. HIDE DEF d, s
<1>4. Possible(d, s) <=> t \in DOMAIN d
  BY <1>2, <1>3, Zenon DEF Possible
<1>5. Effect(d, s) = [d EXCEPT ![t].rows = Empty]
  BY <1>2, <1>3, Zenon DEF Effect
<1>6. t \in DOMAIN C =>
        /\ d[t] = Table(C[t], K[t], R[t])
        /\ d[t].columns = C[t] /\ d[t].key = K[t] /\ d[t].rows = R[t]
  BY <1>1, Fields
<1>7. ASSUME t \in DOMAIN C
      PROVE  [d EXCEPT ![t].rows = Empty] = Layout(C, K, [R EXCEPT ![t] = Empty])
  <2>. DEFINE new == Empty
  <2>1. [Table(C[t], K[t], R[t]) EXCEPT !.rows = new] = Table(C[t], K[t], new)
    <3>. HIDE DEF new
    <3>. QED BY Fields
  <2>2. [d EXCEPT ![t].rows = Empty] = [d EXCEPT ![t] = Table(C[t], K[t], Empty)]
    BY <1>6, <1>7, <2>1, Zenon
  <2>3. [d EXCEPT ![t] = Table(C[t], K[t], Empty)] = Layout(C, K, [R EXCEPT ![t] = Empty])
    BY <1>1, <1>7 DEF Layout
  <2>. QED BY <2>2, <2>3
<1>. QED BY <1>1, <1>4, <1>5, <1>6, <1>7, AfterOne DEF d, s

\* ADD COLUMN of a column that is NOT NULL: no rows.
LEMMA AddColumnDoes ==
    ASSUME NEW C, NEW K, NEW R, DOMAIN K = DOMAIN C, DOMAIN R = DOMAIN C, NEW t, NEW x
    PROVE  After({Layout(C, K, R)}, AddColumn(t, x)) =
             IF t \in DOMAIN C /\ x \notin C[t] /\ R[t] = Empty
             THEN {Layout([C EXCEPT ![t] = C[t] \cup {x}], K, R)}
             ELSE {}
<1>. DEFINE d == Layout(C, K, R)
            s == AddColumn(t, x)
<1>1. DOMAIN d = DOMAIN C /\ \A u \in DOMAIN C : d[u] = Table(C[u], K[u], R[u])
  BY LayoutEntries
<1>2. s.op = "add column" /\ s.table = t /\ s.column = x BY DEF AddColumn
<1>3. /\ s.op # "create" /\ s.op # "drop" /\ s.op # "truncate"
  BY <1>2
<1>. HIDE DEF d, s
<1>4. Possible(d, s) <=> t \in DOMAIN d /\ x \notin d[t].columns /\ d[t].rows = Empty
  BY <1>2, <1>3, Zenon DEF Possible
<1>5. Effect(d, s) = [d EXCEPT ![t].columns = @ \cup {x}]
  BY <1>2, <1>3, Zenon DEF Effect
<1>6. t \in DOMAIN C =>
        /\ d[t] = Table(C[t], K[t], R[t])
        /\ d[t].columns = C[t] /\ d[t].key = K[t] /\ d[t].rows = R[t]
  BY <1>1, Fields
<1>7. ASSUME t \in DOMAIN C
      PROVE  [d EXCEPT ![t].columns = @ \cup {x}] = Layout([C EXCEPT ![t] = C[t] \cup {x}], K, R)
  <2>. DEFINE new == C[t] \cup {x}
  <2>1. [Table(C[t], K[t], R[t]) EXCEPT !.columns = new] = Table(new, K[t], R[t])
    <3>. HIDE DEF new
    <3>. QED BY Fields
  <2>2. [d EXCEPT ![t].columns = @ \cup {x}] = [d EXCEPT ![t] = Table(C[t] \cup {x}, K[t], R[t])]
    BY <1>6, <1>7, <2>1, Zenon
  <2>3. [d EXCEPT ![t] = Table(C[t] \cup {x}, K[t], R[t])]
          = Layout([C EXCEPT ![t] = C[t] \cup {x}], K, R)
    BY <1>1, <1>7 DEF Layout
  <2>. QED BY <2>2, <2>3
<1>. QED BY <1>1, <1>4, <1>5, <1>6, <1>7, AfterOne DEF d, s

\* DROP COLUMN.
LEMMA DropColumnDoes ==
    ASSUME NEW C, NEW K, NEW R, DOMAIN K = DOMAIN C, DOMAIN R = DOMAIN C, NEW t, NEW x
    PROVE  After({Layout(C, K, R)}, DropColumn(t, x)) =
             IF t \in DOMAIN C /\ x \in C[t]
             THEN {Layout([C EXCEPT ![t] = C[t] \ {x}], K, R)}
             ELSE {}
<1>. DEFINE d == Layout(C, K, R)
            s == DropColumn(t, x)
<1>1. DOMAIN d = DOMAIN C /\ \A u \in DOMAIN C : d[u] = Table(C[u], K[u], R[u])
  BY LayoutEntries
<1>2. s.op = "drop column" /\ s.table = t /\ s.column = x BY DEF DropColumn
<1>3. /\ s.op # "create" /\ s.op # "drop" /\ s.op # "truncate"
      /\ s.op # "add column"
  BY <1>2
<1>. HIDE DEF d, s
<1>4. Possible(d, s) <=> t \in DOMAIN d /\ x \in d[t].columns
  BY <1>2, <1>3, Zenon DEF Possible
<1>5. Effect(d, s) = [d EXCEPT ![t].columns = @ \ {x}]
  BY <1>2, <1>3, Zenon DEF Effect
<1>6. t \in DOMAIN C =>
        /\ d[t] = Table(C[t], K[t], R[t])
        /\ d[t].columns = C[t] /\ d[t].key = K[t] /\ d[t].rows = R[t]
  BY <1>1, Fields
<1>7. ASSUME t \in DOMAIN C
      PROVE  [d EXCEPT ![t].columns = @ \ {x}] = Layout([C EXCEPT ![t] = C[t] \ {x}], K, R)
  <2>. DEFINE new == C[t] \ {x}
  <2>1. [Table(C[t], K[t], R[t]) EXCEPT !.columns = new] = Table(new, K[t], R[t])
    <3>. HIDE DEF new
    <3>. QED BY Fields
  <2>2. [d EXCEPT ![t].columns = @ \ {x}] = [d EXCEPT ![t] = Table(C[t] \ {x}, K[t], R[t])]
    BY <1>6, <1>7, <2>1, Zenon
  <2>3. [d EXCEPT ![t] = Table(C[t] \ {x}, K[t], R[t])] = Layout([C EXCEPT ![t] = C[t] \ {x}], K, R)
    BY <1>1, <1>7 DEF Layout
  <2>. QED BY <2>2, <2>3
<1>. QED BY <1>1, <1>4, <1>5, <1>6, <1>7, AfterOne DEF d, s

\* RENAME COLUMN.
LEMMA RenameDoes ==
    ASSUME NEW C, NEW K, NEW R, DOMAIN K = DOMAIN C, DOMAIN R = DOMAIN C, NEW t,
           NEW x, NEW y
    PROVE  After({Layout(C, K, R)}, Rename(t, x, y)) =
             IF t \in DOMAIN C /\ x \in C[t] /\ y \notin C[t]
             THEN {Layout([C EXCEPT ![t] = (C[t] \ {x}) \cup {y}], K, R)}
             ELSE {}
<1>. DEFINE d == Layout(C, K, R)
            s == Rename(t, x, y)
<1>1. DOMAIN d = DOMAIN C /\ \A u \in DOMAIN C : d[u] = Table(C[u], K[u], R[u])
  BY LayoutEntries
<1>2. s.op = "rename column" /\ s.table = t /\ s.from = x /\ s.column = y BY DEF Rename
<1>3. /\ s.op # "create" /\ s.op # "drop" /\ s.op # "truncate"
      /\ s.op # "add column" /\ s.op # "drop column"
  BY <1>2
<1>. HIDE DEF d, s
<1>4. Possible(d, s) <=> t \in DOMAIN d /\ x \in d[t].columns /\ y \notin d[t].columns
  BY <1>2, <1>3, Zenon DEF Possible
<1>5. Effect(d, s) = [d EXCEPT ![t].columns = (@ \ {x}) \cup {y}]
  BY <1>2, <1>3, Zenon DEF Effect
<1>6. t \in DOMAIN C =>
        /\ d[t] = Table(C[t], K[t], R[t])
        /\ d[t].columns = C[t] /\ d[t].key = K[t] /\ d[t].rows = R[t]
  BY <1>1, Fields
<1>7. ASSUME t \in DOMAIN C
      PROVE  [d EXCEPT ![t].columns = (@ \ {x}) \cup {y}]
                = Layout([C EXCEPT ![t] = (C[t] \ {x}) \cup {y}], K, R)
  <2>. DEFINE new == (C[t] \ {x}) \cup {y}
  <2>1. [Table(C[t], K[t], R[t]) EXCEPT !.columns = new] = Table(new, K[t], R[t])
    <3>. HIDE DEF new
    <3>. QED BY Fields
  <2>2. [d EXCEPT ![t].columns = (@ \ {x}) \cup {y}]
          = [d EXCEPT ![t] = Table((C[t] \ {x}) \cup {y}, K[t], R[t])]
    BY <1>6, <1>7, <2>1, Zenon
  <2>3. [d EXCEPT ![t] = Table((C[t] \ {x}) \cup {y}, K[t], R[t])]
          = Layout([C EXCEPT ![t] = (C[t] \ {x}) \cup {y}], K, R)
    BY <1>1, <1>7 DEF Layout
  <2>. QED BY <2>2, <2>3
<1>. QED BY <1>1, <1>4, <1>5, <1>6, <1>7, AfterOne DEF d, s

\* A new primary key; rows may clash under a narrower one.
LEMMA PrimaryKeyDoes ==
    ASSUME NEW C, NEW K, NEW R, DOMAIN K = DOMAIN C, DOMAIN R = DOMAIN C, NEW t, NEW x
    PROVE  After({Layout(C, K, R)}, PrimaryKey(t, x)) =
             IF t \in DOMAIN C /\ x \subseteq C[t] /\ (R[t] # Empty => K[t] \subseteq x)
             THEN {Layout(C, [K EXCEPT ![t] = x], R)}
             ELSE {}
<1>. DEFINE d == Layout(C, K, R)
            s == PrimaryKey(t, x)
<1>1. DOMAIN d = DOMAIN C /\ \A u \in DOMAIN C : d[u] = Table(C[u], K[u], R[u])
  BY LayoutEntries
<1>2. s.op = "primary key" /\ s.table = t /\ s.key = x BY DEF PrimaryKey
<1>3. /\ s.op # "create" /\ s.op # "drop" /\ s.op # "truncate"
      /\ s.op # "add column" /\ s.op # "drop column" /\ s.op # "rename column"
  BY <1>2
<1>. HIDE DEF d, s
<1>4. Possible(d, s) <=> t \in DOMAIN d /\ x \subseteq d[t].columns
                        /\ (d[t].rows # Empty => d[t].key \subseteq x)
  BY <1>2, <1>3, Zenon DEF Possible
<1>5. Effect(d, s) = [d EXCEPT ![t].key = x]
  BY <1>2, <1>3, Zenon DEF Effect
<1>6. t \in DOMAIN C =>
        /\ d[t] = Table(C[t], K[t], R[t])
        /\ d[t].columns = C[t] /\ d[t].key = K[t] /\ d[t].rows = R[t]
  BY <1>1, Fields
<1>7. ASSUME t \in DOMAIN C
      PROVE  [d EXCEPT ![t].key = x] = Layout(C, [K EXCEPT ![t] = x], R)
  <2>. DEFINE new == x
  <2>1. [Table(C[t], K[t], R[t]) EXCEPT !.key = new] = Table(C[t], new, R[t])
    <3>. HIDE DEF new
    <3>. QED BY Fields
  <2>2. [d EXCEPT ![t].key = x] = [d EXCEPT ![t] = Table(C[t], x, R[t])]
    BY <1>6, <1>7, <2>1, Zenon
  <2>3. [d EXCEPT ![t] = Table(C[t], x, R[t])] = Layout(C, [K EXCEPT ![t] = x], R)
    BY <1>1, <1>7 DEF Layout
  <2>. QED BY <2>2, <2>3
<1>. QED BY <1>1, <1>4, <1>5, <1>6, <1>7, AfterOne DEF d, s

-----------------------------------------------------------------------------
(* The schema of the recorded migrations *)

\* The tables have different names.
LEMMA TablesApart ==
    /\ KEY # OPERATOR /\ KEY # META /\ KEY # EL_META /\ KEY # MODULES
    /\ OPERATOR # META /\ OPERATOR # EL_META /\ OPERATOR # MODULES
    /\ META # EL_META /\ META # MODULES /\ EL_META # MODULES
BY DEF KEY, OPERATOR, META, EL_META, MODULES

\* Columns, keys and rows of a schema are of its tables.
LEMMA SchemaDomains ==
    ASSUME NEW E, NEW r
    PROVE  /\ DOMAIN SchemaColumns(E) = TablesOf(E)
           /\ DOMAIN SchemaKeys(E) = TablesOf(E)
           /\ DOMAIN Uniform(E, r) = TablesOf(E)
           /\ \A t \in TablesOf(E) : Uniform(E, r)[t] = r
BY DEF SchemaColumns, SchemaKeys, Uniform

\* What the later migrations leave alone.
LEMMA SameTables ==
    ASSUME NEW E, NEW v \in {3, 4, 5, 6, 7}
    PROVE  /\ TablesOf(E \cup {v}) = TablesOf(E)
           /\ SchemaKeys(E \cup {v}) = SchemaKeys(E)
           /\ \A r : Uniform(E \cup {v}, r) = Uniform(E, r)
<1>1. TablesOf(E \cup {v}) = TablesOf(E) BY DEF TablesOf
<1>2. \A t : KeyOf(E \cup {v}, t) = KeyOf(E, t) BY DEF KeyOf, Added
<1>. QED BY <1>1, <1>2 DEF SchemaKeys, Uniform

\* The tables since the second migration.
LEMMA FourTables ==
    ASSUME NEW E, Closed(E), 2 \in E
    PROVE  TablesOf(E) = {KEY, OPERATOR, EL_META, MODULES}
BY DEF TablesOf, Closed

\* The migrations that add one column: 5, 6 and 7.
Widened(v)   == IF v = 5 THEN KEY ELSE IF v = 6 THEN MODULES ELSE OPERATOR
NewColumn(v) == IF v = 5 THEN "vetted"
                ELSE IF v = 6 THEN "withdrawal_credentials_type"
                ELSE "depositable_validators_count"

\* The schemas before and after a migration that adds one column.
LEMMA SchemaOneMore ==
    ASSUME NEW v \in {5, 6, 7}, NEW E, Closed(E), 2 \in E, v \notin E
    PROVE  LET C == SchemaColumns(E)
               D == SchemaColumns(E \cup {v})
               t == Widened(v)
               x == NewColumn(v)
           IN  /\ x \notin C[t] /\ D = [C EXCEPT ![t] = C[t] \cup {x}]
               /\ x \in D[t] /\ C = [D EXCEPT ![t] = D[t] \ {x}]
<1>. DEFINE F == E \cup {v}
            t == Widened(v)
            x == NewColumn(v)
<1>1. \A u \in TablesOf(E) \ {t} : ColumnsOf(F, u) = ColumnsOf(E, u)
  <2>1. CASE v = 5 BY <2>1, TablesApart, FourTables DEF ColumnsOf, Added, Widened
  <2>2. CASE v = 6 BY <2>2, TablesApart, FourTables DEF ColumnsOf, Added, Widened
  <2>3. CASE v = 7 BY <2>3, TablesApart, FourTables DEF ColumnsOf, Added, Widened
  <2>. QED BY <2>1, <2>2, <2>3
<1>2. x \notin ColumnsOf(E, t) /\ ColumnsOf(F, t) = ColumnsOf(E, t) \cup {x}
  <2>1. CASE v = 5 BY <2>1, TablesApart DEF ColumnsOf, Added, Widened, NewColumn
  <2>2. CASE v = 6 BY <2>2, TablesApart DEF ColumnsOf, Added, Widened, NewColumn
  <2>3. CASE v = 7 BY <2>3, TablesApart DEF ColumnsOf, Added, Widened, NewColumn
  <2>. QED BY <2>1, <2>2, <2>3
<1>3. ColumnsOf(E, t) = ColumnsOf(F, t) \ {x} BY <1>2
<1>4. TablesOf(F) = TablesOf(E) /\ t \in TablesOf(E)
  BY FourTables, TablesApart DEF TablesOf, Widened
<1>. QED BY <1>1, <1>2, <1>3, <1>4 DEF SchemaColumns

\* The schemas before and after the fourth migration, column by column.
LEMMA Schema4 ==
    ASSUME NEW E, Closed(E), 2 \in E, 4 \notin E
    PROVE  LET C0 == SchemaColumns(E)
               C1 == [C0 EXCEPT ![EL_META] = C0[EL_META] \cup {"last_changed_block_hash"}]
               C2 == [C1 EXCEPT ![OPERATOR] = C1[OPERATOR] \cup {"finalized_used_signing_keys"}]
               C3 == [C2 EXCEPT ![MODULES] = C2[MODULES] \cup {"last_changed_block_hash"}]
               D3 == SchemaColumns(E \cup {4})
               D2 == [D3 EXCEPT ![EL_META] = D3[EL_META] \ {"last_changed_block_hash"}]
               D1 == [D2 EXCEPT ![OPERATOR] = D2[OPERATOR] \ {"finalized_used_signing_keys"}]
               D0 == [D1 EXCEPT ![MODULES] = D1[MODULES] \ {"last_changed_block_hash"}]
           IN  /\ "last_changed_block_hash" \notin C0[EL_META]
               /\ "finalized_used_signing_keys" \notin C1[OPERATOR]
               /\ "last_changed_block_hash" \notin C2[MODULES]
               /\ C3 = D3
               /\ "last_changed_block_hash" \in D3[EL_META]
               /\ "finalized_used_signing_keys" \in D2[OPERATOR]
               /\ "last_changed_block_hash" \in D1[MODULES]
               /\ D0 = C0
<1>. DEFINE F == E \cup {4}
<1>1. ColumnsOf(F, KEY) = ColumnsOf(E, KEY) BY TablesApart DEF ColumnsOf, Added
<1>2. /\ "last_changed_block_hash" \notin ColumnsOf(E, EL_META)
      /\ ColumnsOf(F, EL_META) = ColumnsOf(E, EL_META) \cup {"last_changed_block_hash"}
  BY TablesApart DEF ColumnsOf, Added
<1>3. /\ "finalized_used_signing_keys" \notin ColumnsOf(E, OPERATOR)
      /\ ColumnsOf(F, OPERATOR) = ColumnsOf(E, OPERATOR) \cup {"finalized_used_signing_keys"}
  BY TablesApart DEF ColumnsOf, Added
<1>4. /\ "last_changed_block_hash" \notin ColumnsOf(E, MODULES)
      /\ ColumnsOf(F, MODULES) = ColumnsOf(E, MODULES) \cup {"last_changed_block_hash"}
  BY TablesApart DEF ColumnsOf, Added
<1>5. /\ ColumnsOf(E, EL_META) = ColumnsOf(F, EL_META) \ {"last_changed_block_hash"}
      /\ ColumnsOf(E, OPERATOR) = ColumnsOf(F, OPERATOR) \ {"finalized_used_signing_keys"}
      /\ ColumnsOf(E, MODULES) = ColumnsOf(F, MODULES) \ {"last_changed_block_hash"}
  BY <1>2, <1>3, <1>4
<1>6. TablesOf(F) = TablesOf(E) /\ TablesOf(E) = {KEY, OPERATOR, EL_META, MODULES}
  BY FourTables DEF TablesOf
<1>. HIDE DEF F
<1>. QED BY <1>1, <1>2, <1>3, <1>4, <1>5, <1>6, TablesApart DEF SchemaColumns, F

\* The four TRUNCATE statements.
LEMMA TruncateAllDoes ==
    ASSUME NEW E, Closed(E), NEW r, NEW f, Traces(f, {Db(E, r)}, TruncateAll)
    PROVE  f[4] = IF 2 \in E THEN {Db(E, Empty)} ELSE {}
<1>. DEFINE T  == TablesOf(E)
            C  == SchemaColumns(E)
            K  == SchemaKeys(E)
            R0 == Uniform(E, r)
            R1 == [R0 EXCEPT ![KEY] = Empty]
            R2 == [R1 EXCEPT ![OPERATOR] = Empty]
            R3 == [R2 EXCEPT ![EL_META] = Empty]
            R4 == [R3 EXCEPT ![MODULES] = Empty]
<1>1. /\ f[1] = After(f[0], Truncate(KEY)) /\ f[2] = After(f[1], Truncate(OPERATOR))
      /\ f[3] = After(f[2], Truncate(EL_META)) /\ f[4] = After(f[3], Truncate(MODULES))
  BY DEF TruncateAll, Traces
<1>2. f[0] = {Layout(C, K, R0)} BY DEF Db, Traces
<1>3. /\ DOMAIN C = T /\ DOMAIN K = T
      /\ DOMAIN R0 = T /\ DOMAIN R1 = T /\ DOMAIN R2 = T /\ DOMAIN R3 = T
  BY DEF SchemaColumns, SchemaKeys, Uniform
<1>4. 2 \in E => T = {KEY, OPERATOR, EL_META, MODULES} BY DEF TablesOf, Closed
<1>5. 2 \notin E => EL_META \notin T BY TablesApart DEF TablesOf
<1>6. 2 \in E => R4 = Uniform(E, Empty) BY <1>4 DEF Uniform
<1>7. 2 \in E => Layout(C, K, R4) = Db(E, Empty) BY <1>6 DEF Db
<1>. HIDE DEF T, C, K, R0, R1, R2, R3, R4
<1>8. After({Layout(C, K, R0)}, Truncate(KEY)) =
        IF KEY \in DOMAIN C THEN {Layout(C, K, R1)} ELSE {}
  BY <1>3, TruncateDoes, ZenonT(40) DEF R1
<1>9. After({Layout(C, K, R1)}, Truncate(OPERATOR)) =
        IF OPERATOR \in DOMAIN C THEN {Layout(C, K, R2)} ELSE {}
  BY <1>3, TruncateDoes, ZenonT(40) DEF R2
<1>10. After({Layout(C, K, R2)}, Truncate(EL_META)) =
         IF EL_META \in DOMAIN C THEN {Layout(C, K, R3)} ELSE {}
  BY <1>3, TruncateDoes, ZenonT(40) DEF R3
<1>11. After({Layout(C, K, R3)}, Truncate(MODULES)) =
         IF MODULES \in DOMAIN C THEN {Layout(C, K, R4)} ELSE {}
  BY <1>3, TruncateDoes, ZenonT(40) DEF R4
<1>12. CASE 2 \in E
  BY <1>1, <1>2, <1>3, <1>4, <1>7, <1>8, <1>9, <1>10, <1>11, <1>12
<1>13. CASE 2 \notin E
  <2>1. f[2] \in {{}, {Layout(C, K, R2)}} BY <1>1, <1>2, <1>8, <1>9, AfterNothing
  <2>2. f[3] = {} BY <1>1, <1>3, <1>5, <1>10, <1>13, <2>1, AfterNothing
  <2>. QED BY <1>1, <1>13, <2>2, AfterNothing
<1>. QED BY <1>12, <1>13

Emptied(E) == IF 2 \in E THEN {Db(E, Empty)} ELSE {}

\* The statements that come after TRUNCATE of all tables find them empty.
LEMMA AfterTruncateAll ==
    ASSUME NEW E, Closed(E), NEW r, NEW S, NEW s \in Seq(S)
    PROVE  \E f : /\ Traces(f, Emptied(E), s)
                  /\ Execute(Db(E, r), TruncateAll \o s) = f[Len(s)]
<1>. DEFINE all == TruncateAll \o s
            A == {Truncate(KEY), Truncate(OPERATOR), Truncate(EL_META), Truncate(MODULES)}
            B == A \cup S
<1>1. TruncateAll \in Seq(B) /\ Len(TruncateAll) = 4 BY DEF TruncateAll
<1>2. s \in Seq(B) OBVIOUS
<1>. HIDE DEF A, B
<1>3. /\ all \in Seq(B)
      /\ Len(all) = 4 + Len(s)
      /\ \A i \in 1..4 : all[i] = TruncateAll[i]
      /\ \A i \in 1..Len(s) : all[4 + i] = s[i]
  <2>1. /\ all \in Seq(B)
        /\ Len(all) = Len(TruncateAll) + Len(s)
        /\ \A i \in 1..(Len(TruncateAll) + Len(s)) :
             all[i] = IF i <= Len(TruncateAll) THEN TruncateAll[i] ELSE s[i - Len(TruncateAll)]
    BY <1>1, <1>2, ConcatProperties, Zenon
  <2>2. Len(s) \in Nat OBVIOUS
  <2>. HIDE DEF all
  <2>3. ASSUME NEW i \in 1..Len(s) PROVE all[4 + i] = s[i]
    <3>1. 4 + i \in 1..(4 + Len(s)) /\ ~(4 + i <= 4) /\ (4 + i) - 4 = i BY <2>2
    <3>. QED BY <1>1, <2>1, <3>1
  <2>. QED BY <1>1, <2>1, <2>2, <2>3
<1>. HIDE DEF all
<1>4. PICK g : Traces(g, {Db(E, r)}, all) /\ Execute(Db(E, r), all) = g[Len(all)]
  BY <1>3, Executed
<1>5. Traces(g, {Db(E, r)}, TruncateAll) BY <1>1, <1>3, <1>4 DEF Traces
<1>6. g[4] = IF 2 \in E THEN {Db(E, Empty)} ELSE {} BY <1>5, TruncateAllDoes
<1>. DEFINE f == [i \in 0..Len(s) |-> g[4 + i]]
<1>7. Len(s) \in Nat /\ f[0] = g[4] OBVIOUS
<1>8. ASSUME NEW i \in 1..Len(s) PROVE f[i] = After(f[i - 1], s[i])
  <2>1. 4 + i \in 1..Len(all) /\ i - 1 \in 0..Len(s) BY <1>3
  <2>2. g[4 + i] = After(g[(4 + i) - 1], all[4 + i]) BY <1>4, <2>1 DEF Traces
  <2>3. (4 + i) - 1 = 4 + (i - 1) OBVIOUS
  <2>. QED BY <1>3, <2>1, <2>2, <2>3
<1>9. Execute(Db(E, r), all) = f[Len(s)] BY <1>3, <1>4, <1>7
<1>10. Traces(f, Emptied(E), s) BY <1>6, <1>7, <1>8 DEF Traces, Emptied
<1>. QED BY <1>9, <1>10, Zenon DEF all

\* Migrations 5, 6 and 7 are alike.
LEMMA OneMoreIs ==
    ASSUME NEW v \in {5, 6, 7}
    PROVE  /\ findMigrations[v].up = TruncateAll \o <<AddColumn(Widened(v), NewColumn(v))>>
           /\ findMigrations[v].down = TruncateAll \o <<DropColumn(Widened(v), NewColumn(v))>>
<1>1. CASE v = 5
  <2>1. /\ findMigrations[v] = Migration20240904131054
        /\ Widened(v) = KEY /\ NewColumn(v) = "vetted"
    BY <1>1 DEF findMigrations, Widened, NewColumn
  <2>. QED BY <2>1 DEF Migration20240904131054
<1>2. CASE v = 6
  <2>1. /\ findMigrations[v] = Migration20260211225056
        /\ Widened(v) = MODULES /\ NewColumn(v) = "withdrawal_credentials_type"
    BY <1>2 DEF findMigrations, Widened, NewColumn
  <2>. QED BY <2>1 DEF Migration20260211225056
<1>3. CASE v = 7
  <2>1. /\ findMigrations[v] = Migration20260526160937
        /\ Widened(v) = OPERATOR /\ NewColumn(v) = "depositable_validators_count"
    BY <1>3 DEF findMigrations, Widened, NewColumn
  <2>. QED BY <2>1 DEF Migration20260526160937
<1>. QED BY <1>1, <1>2, <1>3

\* up of migrations 5, 6 and 7.
LEMMA UpOneMore ==
    ASSUME NEW v \in {5, 6, 7}, NEW E, Closed(E), NEW r
    PROVE  Execute(Db(E, r), findMigrations[v].up) =
             IF 2 \in E /\ v \notin E THEN {Db(E \cup {v}, Empty)} ELSE {}
<1>. DEFINE t == Widened(v)
            x == NewColumn(v)
            a == AddColumn(t, x)
            C == SchemaColumns(E)
            K == SchemaKeys(E)
            R == Uniform(E, Empty)
            s == <<a>>
<1>1. findMigrations[v].up = TruncateAll \o s BY OneMoreIs
<1>2. s \in Seq({a}) /\ Len(s) = 1 /\ s[1] = a OBVIOUS
<1>3. 2 \in E => t \in TablesOf(E) BY FourTables DEF Widened
<1>. HIDE DEF a, s
<1>4. PICK f : /\ Traces(f, Emptied(E), s)
               /\ Execute(Db(E, r), TruncateAll \o s) = f[Len(s)]
  BY <1>2, AfterTruncateAll
<1>5. Execute(Db(E, r), findMigrations[v].up) = After(f[0], a)
  BY <1>1, <1>2, <1>4 DEF Traces
<1>. HIDE DEF t, x
<1>6. After({Layout(C, K, R)}, a) =
        IF t \in DOMAIN C /\ x \notin C[t] /\ R[t] = Empty
        THEN {Layout([C EXCEPT ![t] = C[t] \cup {x}], K, R)}
        ELSE {}
  <2>1. DOMAIN K = DOMAIN C /\ DOMAIN R = DOMAIN C BY SchemaDomains
  <2>. HIDE DEF C, K, R
  <2>. QED BY <2>1, AddColumnDoes, ZenonT(40) DEF a
<1>7. CASE 2 \notin E BY <1>4, <1>5, <1>7, AfterNothing DEF Traces, Emptied
<1>8. CASE 2 \in E /\ v \in E
  <2>1. x \in ColumnsOf(E, t)
    BY <1>8, TablesApart DEF ColumnsOf, Added, t, x, Widened, NewColumn
  <2>2. x \in C[t] BY <1>3, <1>8, <2>1 DEF SchemaColumns
  <2>. QED BY <1>4, <1>5, <1>6, <1>8, <2>2 DEF Db, Traces, Emptied
<1>9. CASE 2 \in E /\ v \notin E
  <2>1. x \notin C[t] /\ SchemaColumns(E \cup {v}) = [C EXCEPT ![t] = C[t] \cup {x}]
    BY <1>9, SchemaOneMore DEF t, x
  <2>2. R[t] = Empty /\ t \in DOMAIN C BY <1>3, <1>9, SchemaDomains
  <2>3. SchemaKeys(E \cup {v}) = K /\ Uniform(E \cup {v}, Empty) = R
    <3>1. v \in {3, 4, 5, 6, 7} OBVIOUS
    <3>. QED BY <3>1, SameTables, Zenon
  <2>4. f[0] = {Layout(C, K, R)} BY <1>4, <1>9 DEF Db, Traces, Emptied
  <2>. HIDE DEF C, K, R
  <2>5. After(f[0], a) = {Layout([C EXCEPT ![t] = C[t] \cup {x}], K, R)}
    BY <1>6, <2>1, <2>2, <2>4
  <2>. QED BY <1>5, <1>9, <2>1, <2>3, <2>5 DEF Db
<1>. QED BY <1>7, <1>8, <1>9

\* A set of migrations that are in order stays so without one of the later ones.
LEMMA WithoutLater ==
    ASSUME NEW F, Closed(F), NEW v \in {3, 4, 5, 6, 7}, v \in F
    PROVE  Closed(F \ {v}) /\ 2 \in F /\ 2 \in F \ {v} /\ v \notin F \ {v} /\ (F \ {v}) \cup {v} = F
BY DEF Closed

\* down of migrations 5, 6 and 7.
LEMMA DownOneMore ==
    ASSUME NEW v \in {5, 6, 7}, NEW F, Closed(F), v \in F, NEW r
    PROVE  Execute(Db(F, r), findMigrations[v].down) = {Db(F \ {v}, Empty)}
<1>. DEFINE E == F \ {v}
            t == Widened(v)
            x == NewColumn(v)
            a == DropColumn(t, x)
            s == <<a>>
            D == SchemaColumns(F)
            K == SchemaKeys(F)
            R == Uniform(F, Empty)
<1>0. v \in {3, 4, 5, 6, 7} OBVIOUS
<1>1. Closed(E) /\ 2 \in E /\ 2 \in F /\ v \notin E /\ E \cup {v} = F
  BY <1>0 DEF Closed
<1>2. findMigrations[v].down = TruncateAll \o s BY OneMoreIs
<1>3. s \in Seq({a}) /\ Len(s) = 1 /\ s[1] = a OBVIOUS
<1>. HIDE DEF a, s, E
<1>4. PICK f : /\ Traces(f, Emptied(F), s)
               /\ Execute(Db(F, r), TruncateAll \o s) = f[Len(s)]
  BY <1>3, AfterTruncateAll
<1>5. Execute(Db(F, r), findMigrations[v].down) = After(f[0], a)
  BY <1>2, <1>3, <1>4 DEF Traces
<1>6. f[0] = {Layout(D, K, R)} BY <1>1, <1>4 DEF Traces, Emptied, Db
<1>7. t \in DOMAIN D
  <2>1. t \in TablesOf(F) BY <1>1, FourTables DEF Widened
  <2>. QED BY <2>1, SchemaDomains
<1>8. x \in D[t] /\ SchemaColumns(E) = [D EXCEPT ![t] = D[t] \ {x}]
  BY <1>1, SchemaOneMore
<1>9. SchemaKeys(E) = K /\ Uniform(E, Empty) = R BY <1>0, <1>1, SameTables, Zenon
<1>. HIDE DEF t, x
<1>10. After({Layout(D, K, R)}, a) =
        IF t \in DOMAIN D /\ x \in D[t]
        THEN {Layout([D EXCEPT ![t] = D[t] \ {x}], K, R)}
        ELSE {}
  <2>1. DOMAIN K = DOMAIN D /\ DOMAIN R = DOMAIN D BY SchemaDomains
  <2>. HIDE DEF D, K, R
  <2>. QED BY <2>1, DropColumnDoes, ZenonT(40) DEF a
<1>. HIDE DEF D, K, R
<1>. QED BY <1>5, <1>6, <1>7, <1>8, <1>9, <1>10 DEF Db, E

\* up of the fourth migration.
LEMMA Up4 ==
    ASSUME NEW E, Closed(E), NEW r
    PROVE  Execute(Db(E, r), findMigrations[4].up) =
             IF 2 \in E /\ 4 \notin E THEN {Db(E \cup {4}, Empty)} ELSE {}
<1>. DEFINE hash == "last_changed_block_hash"
            used == "finalized_used_signing_keys"
            s  == <<AddColumn(EL_META, hash), AddColumn(OPERATOR, used), AddColumn(MODULES, hash)>>
            C0 == SchemaColumns(E)
            C1 == [C0 EXCEPT ![EL_META] = C0[EL_META] \cup {hash}]
            C2 == [C1 EXCEPT ![OPERATOR] = C1[OPERATOR] \cup {used}]
            C3 == [C2 EXCEPT ![MODULES] = C2[MODULES] \cup {hash}]
            K  == SchemaKeys(E)
            R  == Uniform(E, Empty)
<1>1. findMigrations[4].up = TruncateAll \o s BY DEF findMigrations, Migration20231225124800
<1>2. /\ s \in Seq({s[1], s[2], s[3]}) /\ Len(s) = 3
      /\ s[1] = AddColumn(EL_META, hash) /\ s[2] = AddColumn(OPERATOR, used)
      /\ s[3] = AddColumn(MODULES, hash)
  OBVIOUS
<1>. HIDE DEF s
<1>3. PICK f : /\ Traces(f, Emptied(E), s)
               /\ Execute(Db(E, r), TruncateAll \o s) = f[Len(s)]
  BY <1>2, AfterTruncateAll
<1>4. /\ Execute(Db(E, r), findMigrations[4].up) = f[3]
      /\ f[1] = After(f[0], AddColumn(EL_META, hash))
      /\ f[2] = After(f[1], AddColumn(OPERATOR, used))
      /\ f[3] = After(f[2], AddColumn(MODULES, hash))
  BY <1>1, <1>2, <1>3 DEF Traces
<1>5. /\ DOMAIN C0 = TablesOf(E) /\ DOMAIN C1 = TablesOf(E) /\ DOMAIN C2 = TablesOf(E)
      /\ DOMAIN K = TablesOf(E) /\ DOMAIN R = TablesOf(E)
      /\ \A t \in TablesOf(E) : R[t] = Empty
  BY SchemaDomains
<1>6. CASE 2 \notin E BY <1>3, <1>4, <1>6, AfterNothing DEF Traces, Emptied
<1>7. CASE 2 \in E
  <2>1. {EL_META, OPERATOR, MODULES} \subseteq TablesOf(E) BY <1>7, FourTables
  <2>2. f[0] = {Layout(C0, K, R)} BY <1>3, <1>7 DEF Traces, Emptied, Db
  <2>3. CASE 4 \in E
    <3>1. hash \in C0[EL_META]
      BY <2>1, <2>3, TablesApart DEF SchemaColumns, ColumnsOf, Added
    <3>. HIDE DEF C0, K, R
    <3>2. After({Layout(C0, K, R)}, AddColumn(EL_META, hash)) = {}
      BY <1>5, <3>1, AddColumnDoes
    <3>. QED BY <1>4, <2>2, <2>3, <3>2, AfterNothing
  <2>4. CASE 4 \notin E
    <3>1. /\ hash \notin C0[EL_META] /\ used \notin C1[OPERATOR] /\ hash \notin C2[MODULES]
          /\ C3 = SchemaColumns(E \cup {4})
      BY <1>7, <2>4, Schema4
    <3>2. SchemaKeys(E \cup {4}) = K /\ Uniform(E \cup {4}, Empty) = R BY SameTables, Zenon
    <3>. HIDE DEF C0, C1, C2, C3, K, R, hash, used
    <3>3. After({Layout(C0, K, R)}, AddColumn(EL_META, hash)) =
            IF EL_META \in DOMAIN C0 /\ hash \notin C0[EL_META] /\ R[EL_META] = Empty
            THEN {Layout(C1, K, R)} ELSE {}
      BY <1>5, AddColumnDoes, ZenonT(40) DEF C1
    <3>4. After({Layout(C1, K, R)}, AddColumn(OPERATOR, used)) =
            IF OPERATOR \in DOMAIN C1 /\ used \notin C1[OPERATOR] /\ R[OPERATOR] = Empty
            THEN {Layout(C2, K, R)} ELSE {}
      BY <1>5, AddColumnDoes, ZenonT(40) DEF C2
    <3>5. After({Layout(C2, K, R)}, AddColumn(MODULES, hash)) =
            IF MODULES \in DOMAIN C2 /\ hash \notin C2[MODULES] /\ R[MODULES] = Empty
            THEN {Layout(C3, K, R)} ELSE {}
      BY <1>5, AddColumnDoes, ZenonT(40) DEF C3
    <3>6. f[3] = {Layout(C3, K, R)} BY <1>4, <1>5, <2>1, <2>2, <3>1, <3>3, <3>4, <3>5
    <3>7. Layout(C3, K, R) = Db(E \cup {4}, Empty) BY <3>1, <3>2 DEF Db
    <3>. QED BY <1>4, <1>7, <2>4, <3>6, <3>7
  <2>. QED BY <2>3, <2>4
<1>. QED BY <1>6, <1>7

\* down of the fourth migration.
LEMMA Down4 ==
    ASSUME NEW F, Closed(F), 4 \in F, NEW r
    PROVE  Execute(Db(F, r), findMigrations[4].down) = {Db(F \ {4}, Empty)}
<1>. DEFINE E == F \ {4}
            hash == "last_changed_block_hash"
            used == "finalized_used_signing_keys"
            s  == <<DropColumn(EL_META, hash), DropColumn(OPERATOR, used), DropColumn(MODULES, hash)>>
            D3 == SchemaColumns(F)
            D2 == [D3 EXCEPT ![EL_META] = D3[EL_META] \ {hash}]
            D1 == [D2 EXCEPT ![OPERATOR] = D2[OPERATOR] \ {used}]
            D0 == [D1 EXCEPT ![MODULES] = D1[MODULES] \ {hash}]
            K  == SchemaKeys(F)
            R  == Uniform(F, Empty)
<1>1. Closed(E) /\ 2 \in E /\ 4 \notin E /\ E \cup {4} = F BY WithoutLater
<1>2. findMigrations[4].down = TruncateAll \o s BY DEF findMigrations, Migration20231225124800
<1>3. /\ s \in Seq({s[1], s[2], s[3]}) /\ Len(s) = 3
      /\ s[1] = DropColumn(EL_META, hash) /\ s[2] = DropColumn(OPERATOR, used)
      /\ s[3] = DropColumn(MODULES, hash)
  OBVIOUS
<1>. HIDE DEF s, E
<1>4. PICK f : /\ Traces(f, Emptied(F), s)
               /\ Execute(Db(F, r), TruncateAll \o s) = f[Len(s)]
  BY <1>3, AfterTruncateAll
<1>5. /\ Execute(Db(F, r), findMigrations[4].down) = f[3]
      /\ f[1] = After(f[0], DropColumn(EL_META, hash))
      /\ f[2] = After(f[1], DropColumn(OPERATOR, used))
      /\ f[3] = After(f[2], DropColumn(MODULES, hash))
  BY <1>2, <1>3, <1>4 DEF Traces
<1>6. /\ DOMAIN D3 = TablesOf(F) /\ DOMAIN D2 = TablesOf(F) /\ DOMAIN D1 = TablesOf(F)
      /\ DOMAIN K = TablesOf(F) /\ DOMAIN R = TablesOf(F)
      /\ {EL_META, OPERATOR, MODULES} \subseteq TablesOf(F)
  BY <1>1, SchemaDomains, FourTables
<1>7. f[0] = {Layout(D3, K, R)} BY <1>1, <1>4 DEF Traces, Emptied, Db
<1>8. /\ hash \in D3[EL_META] /\ used \in D2[OPERATOR] /\ hash \in D1[MODULES]
      /\ D0 = SchemaColumns(E)
  BY <1>1, Schema4
<1>9. SchemaKeys(E) = K /\ Uniform(E, Empty) = R BY <1>1, SameTables, Zenon
<1>. HIDE DEF D0, D1, D2, D3, K, R, hash, used
<1>10. After({Layout(D3, K, R)}, DropColumn(EL_META, hash)) =
         IF EL_META \in DOMAIN D3 /\ hash \in D3[EL_META] THEN {Layout(D2, K, R)} ELSE {}
  BY <1>6, DropColumnDoes, ZenonT(40) DEF D2
<1>11. After({Layout(D2, K, R)}, DropColumn(OPERATOR, used)) =
         IF OPERATOR \in DOMAIN D2 /\ used \in D2[OPERATOR] THEN {Layout(D1, K, R)} ELSE {}
  BY <1>6, DropColumnDoes, ZenonT(40) DEF D1
<1>12. After({Layout(D1, K, R)}, DropColumn(MODULES, hash)) =
         IF MODULES \in DOMAIN D1 /\ hash \in D1[MODULES] THEN {Layout(D0, K, R)} ELSE {}
  BY <1>6, DropColumnDoes, ZenonT(40) DEF D0
<1>13. f[3] = {Layout(D0, K, R)} BY <1>5, <1>6, <1>7, <1>8, <1>10, <1>11, <1>12
<1>14. Layout(D0, K, R) = Db(E, Empty) BY <1>8, <1>9 DEF Db
<1>. QED BY <1>5, <1>13, <1>14 DEF E

\* The schemas before and after the third migration.
LEMMA Schema3 ==
    ASSUME NEW E, Closed(E), 2 \in E, 3 \notin E
    PROVE  LET C == SchemaColumns(E)
               D == SchemaColumns(E \cup {3})
           IN  /\ "staking_module_fee" \in C[MODULES] /\ "module_fee" \notin C[MODULES]
               /\ D = [C EXCEPT ![MODULES] = (C[MODULES] \ {"staking_module_fee"}) \cup {"module_fee"}]
               /\ "module_fee" \in D[MODULES] /\ "staking_module_fee" \notin D[MODULES]
               /\ C = [D EXCEPT ![MODULES] = (D[MODULES] \ {"module_fee"}) \cup {"staking_module_fee"}]
<1>. DEFINE F == E \cup {3}
<1>1. \A t \in TablesOf(E) \ {MODULES} : ColumnsOf(F, t) = ColumnsOf(E, t)
  BY TablesApart, FourTables DEF ColumnsOf, Added
<1>2. /\ "staking_module_fee" \in ColumnsOf(E, MODULES) /\ "module_fee" \notin ColumnsOf(E, MODULES)
      /\ ColumnsOf(F, MODULES) = (ColumnsOf(E, MODULES) \ {"staking_module_fee"}) \cup {"module_fee"}
  BY TablesApart DEF ColumnsOf, Added
<1>3. /\ "module_fee" \in ColumnsOf(F, MODULES) /\ "staking_module_fee" \notin ColumnsOf(F, MODULES)
      /\ ColumnsOf(E, MODULES) = (ColumnsOf(F, MODULES) \ {"module_fee"}) \cup {"staking_module_fee"}
  BY <1>2
<1>4. TablesOf(F) = TablesOf(E) /\ MODULES \in TablesOf(E)
  BY FourTables, TablesApart DEF TablesOf
<1>. QED BY <1>1, <1>2, <1>3, <1>4 DEF SchemaColumns

\* A migration of one statement.
LEMMA OneStatement ==
    ASSUME NEW db, NEW a
    PROVE  Execute(db, <<a>>) = After({db}, a)
<1>. DEFINE s == <<a>>
<1>1. s \in Seq({a}) /\ Len(s) = 1 /\ s[1] = a OBVIOUS
<1>. HIDE DEF s
<1>2. PICK f : Traces(f, {db}, s) /\ Execute(db, s) = f[Len(s)] BY <1>1, Executed
<1>. QED BY <1>1, <1>2 DEF Traces, s

\* up of the third migration, which leaves the rows.
LEMMA Up3 ==
    ASSUME NEW E, Closed(E), NEW r
    PROVE  Execute(Db(E, r), findMigrations[3].up) =
             IF 2 \in E /\ 3 \notin E THEN {Db(E \cup {3}, r)} ELSE {}
<1>. DEFINE a == Rename(MODULES, "staking_module_fee", "module_fee")
            C == SchemaColumns(E)
            D == [C EXCEPT ![MODULES] = (C[MODULES] \ {"staking_module_fee"}) \cup {"module_fee"}]
            K == SchemaKeys(E)
            R == Uniform(E, r)
<1>1. findMigrations[3].up = <<a>> BY DEF findMigrations, Migration20230920142658
<1>2. Execute(Db(E, r), findMigrations[3].up) = After({Layout(C, K, R)}, a)
  BY <1>1, OneStatement, Zenon DEF Db
<1>3. After({Layout(C, K, R)}, a) =
        IF MODULES \in DOMAIN C /\ "staking_module_fee" \in C[MODULES] /\ "module_fee" \notin C[MODULES]
        THEN {Layout(D, K, R)} ELSE {}
  <2>1. DOMAIN K = DOMAIN C /\ DOMAIN R = DOMAIN C BY SchemaDomains
  <2>. HIDE DEF C, K, R
  <2>. QED BY <2>1, RenameDoes, ZenonT(40) DEF a
<1>4. DOMAIN C = TablesOf(E) BY SchemaDomains
<1>5. CASE 2 \notin E
  <2>1. MODULES \notin DOMAIN C BY <1>4, <1>5, TablesApart DEF TablesOf
  <2>. QED BY <1>2, <1>3, <1>5, <2>1
<1>6. CASE 2 \in E /\ 3 \in E
  <2>1. "staking_module_fee" \notin C[MODULES]
    BY <1>6, FourTables, TablesApart DEF SchemaColumns, ColumnsOf, Added
  <2>. QED BY <1>2, <1>3, <1>6, <2>1
<1>7. CASE 2 \in E /\ 3 \notin E
  <2>1. MODULES \in DOMAIN C BY <1>4, <1>7, FourTables
  <2>2. /\ "staking_module_fee" \in C[MODULES] /\ "module_fee" \notin C[MODULES]
        /\ SchemaColumns(E \cup {3}) = D
    BY <1>7, Schema3
  <2>3. SchemaKeys(E \cup {3}) = K /\ Uniform(E \cup {3}, r) = R BY SameTables, Zenon
  <2>. HIDE DEF C, D, K, R
  <2>4. Layout(D, K, R) = Db(E \cup {3}, r) BY <2>2, <2>3 DEF Db
  <2>. QED BY <1>2, <1>3, <1>7, <2>1, <2>2, <2>4
<1>. QED BY <1>5, <1>6, <1>7

\* down of the third migration.
LEMMA Down3 ==
    ASSUME NEW F, Closed(F), 3 \in F, NEW r
    PROVE  Execute(Db(F, r), findMigrations[3].down) = {Db(F \ {3}, r)}
<1>. DEFINE E == F \ {3}
            a == Rename(MODULES, "module_fee", "staking_module_fee")
            D == SchemaColumns(F)
            C == [D EXCEPT ![MODULES] = (D[MODULES] \ {"module_fee"}) \cup {"staking_module_fee"}]
            K == SchemaKeys(F)
            R == Uniform(F, r)
<1>1. Closed(E) /\ 2 \in E /\ 2 \in F /\ 3 \notin E /\ E \cup {3} = F BY WithoutLater
<1>. HIDE DEF E
<1>2. findMigrations[3].down = <<a>> BY DEF findMigrations, Migration20230920142658
<1>3. Execute(Db(F, r), findMigrations[3].down) = After({Layout(D, K, R)}, a)
  BY <1>2, OneStatement, Zenon DEF Db
<1>4. After({Layout(D, K, R)}, a) =
        IF MODULES \in DOMAIN D /\ "module_fee" \in D[MODULES] /\ "staking_module_fee" \notin D[MODULES]
        THEN {Layout(C, K, R)} ELSE {}
  <2>1. DOMAIN K = DOMAIN D /\ DOMAIN R = DOMAIN D BY SchemaDomains
  <2>. HIDE DEF D, K, R
  <2>. QED BY <2>1, RenameDoes, ZenonT(40) DEF a
<1>5. MODULES \in DOMAIN D BY <1>1, FourTables, SchemaDomains
<1>6. /\ "module_fee" \in D[MODULES] /\ "staking_module_fee" \notin D[MODULES]
      /\ SchemaColumns(E) = C
  BY <1>1, Schema3
<1>7. SchemaKeys(E) = K /\ Uniform(E, r) = R BY <1>1, SameTables, Zenon
<1>. HIDE DEF C, D, K, R
<1>8. Layout(C, K, R) = Db(E, r) BY <1>6, <1>7 DEF Db
<1>. QED BY <1>3, <1>4, <1>5, <1>6, <1>8 DEF E

-----------------------------------------------------------------------------
(* The first two migrations, which create and drop tables *)

\* The entries of With and Without.
LEMMA WithEntries ==
    ASSUME NEW f, NEW t, NEW x
    PROVE  /\ DOMAIN With(f, t, x) = DOMAIN f \cup {t}
           /\ With(f, t, x)[t] = x
           /\ \A u \in DOMAIN f : u # t => With(f, t, x)[u] = f[u]
           /\ DOMAIN Without(f, t) = DOMAIN f \ {t}
           /\ \A u \in DOMAIN f : u # t => Without(f, t)[u] = f[u]
BY DEF With, Without

\* EXCEPT of an entry that is there.
LEMMA ExceptIsWith ==
    ASSUME NEW C, NEW t \in DOMAIN C, NEW x
    PROVE  [C EXCEPT ![t] = x] = With(C, t, x)
BY DEF With

\* The same statements in these terms.
LEMMA Empties ==
    ASSUME NEW C, NEW K, NEW R, DOMAIN K = DOMAIN C, DOMAIN R = DOMAIN C, NEW t, t \in DOMAIN C
    PROVE  After({Layout(C, K, R)}, Truncate(t)) = {Layout(C, K, With(R, t, Empty))}
<1>1. After({Layout(C, K, R)}, Truncate(t)) =
             IF t \in DOMAIN C THEN {Layout(C, K, [R EXCEPT ![t] = Empty])} ELSE {}
  BY TruncateDoes, Zenon
<1>2. [R EXCEPT ![t] = Empty] = With(R, t, Empty) BY ExceptIsWith
<1>. QED BY <1>1, <1>2, Zenon

\* TRUNCATE of a table that is not there fails.
LEMMA Missing ==
    ASSUME NEW C, NEW K, NEW R, DOMAIN K = DOMAIN C, DOMAIN R = DOMAIN C, NEW t, t \notin DOMAIN C
    PROVE  After({Layout(C, K, R)}, Truncate(t)) = {}
<1>1. After({Layout(C, K, R)}, Truncate(t)) =
             IF t \in DOMAIN C THEN {Layout(C, K, [R EXCEPT ![t] = Empty])} ELSE {}
  BY TruncateDoes, Zenon
<1>. QED BY <1>1, Zenon

\* ADD COLUMN to an empty table.
LEMMA Widens ==
    ASSUME NEW C, NEW K, NEW R, DOMAIN K = DOMAIN C, DOMAIN R = DOMAIN C, NEW t, NEW x,
           t \in DOMAIN C, x \notin C[t], R[t] = Empty
    PROVE  After({Layout(C, K, R)}, AddColumn(t, x)) =
             {Layout(With(C, t, C[t] \cup {x}), K, R)}
<1>1. After({Layout(C, K, R)}, AddColumn(t, x)) =
             IF t \in DOMAIN C /\ x \notin C[t] /\ R[t] = Empty
             THEN {Layout([C EXCEPT ![t] = C[t] \cup {x}], K, R)}
             ELSE {}
  BY AddColumnDoes, Zenon
<1>2. [C EXCEPT ![t] = C[t] \cup {x}] = With(C, t, C[t] \cup {x})
  BY ExceptIsWith, Zenon
<1>. QED BY <1>1, <1>2, Zenon

\* DROP COLUMN of a column that is there.
LEMMA Narrows ==
    ASSUME NEW C, NEW K, NEW R, DOMAIN K = DOMAIN C, DOMAIN R = DOMAIN C, NEW t, NEW x,
           t \in DOMAIN C, x \in C[t]
    PROVE  After({Layout(C, K, R)}, DropColumn(t, x)) =
             {Layout(With(C, t, C[t] \ {x}), K, R)}
<1>1. After({Layout(C, K, R)}, DropColumn(t, x)) =
             IF t \in DOMAIN C /\ x \in C[t]
             THEN {Layout([C EXCEPT ![t] = C[t] \ {x}], K, R)}
             ELSE {}
  BY DropColumnDoes, Zenon
<1>2. [C EXCEPT ![t] = C[t] \ {x}] = With(C, t, C[t] \ {x})
  BY ExceptIsWith, Zenon
<1>. QED BY <1>1, <1>2, Zenon

\* A new primary key of an empty table.
LEMMA Rekeys ==
    ASSUME NEW C, NEW K, NEW R, DOMAIN K = DOMAIN C, DOMAIN R = DOMAIN C, NEW t, NEW k,
           t \in DOMAIN C, k \subseteq C[t], R[t] = Empty
    PROVE  After({Layout(C, K, R)}, PrimaryKey(t, k)) = {Layout(C, With(K, t, k), R)}
<1>1. After({Layout(C, K, R)}, PrimaryKey(t, k)) =
             IF t \in DOMAIN C /\ k \subseteq C[t] /\ (R[t] # Empty => K[t] \subseteq k)
             THEN {Layout(C, [K EXCEPT ![t] = k], R)}
             ELSE {}
  BY PrimaryKeyDoes, Zenon
<1>2. [K EXCEPT ![t] = k] = With(K, t, k)
  BY ExceptIsWith, Zenon
<1>. QED BY <1>1, <1>2, Zenon

\* One statement of a trace.
LEMMA Stepwise ==
    ASSUME NEW f, NEW first, NEW s, Traces(f, first, s), NEW i \in 1..Len(s)
    PROVE  f[i] = After(f[i - 1], s[i])
BY DEF Traces

\* A trace of three statements.
LEMMA ThreeSteps ==
    ASSUME NEW f, NEW first, NEW s, Traces(f, first, s), Len(s) = 3
    PROVE  /\ f[1] = After(f[0], s[1]) /\ f[2] = After(f[1], s[2]) /\ f[3] = After(f[2], s[3])
<1>1. f[1] = After(f[1 - 1], s[1]) /\ f[2] = After(f[2 - 1], s[2]) /\ f[3] = After(f[3 - 1], s[3])
  BY DEF Traces
<1>2. 1 - 1 = 0 /\ 2 - 1 = 1 /\ 3 - 1 = 2 OBVIOUS
<1>. QED BY <1>1, <1>2

\* up of the first migration: it can only be run in an empty database.
LEMMA Up1 ==
    ASSUME NEW E, Closed(E), NEW r
    PROVE  Execute(Db(E, r), findMigrations[1].up) =
             IF 1 \notin E THEN {Db(E \cup {1}, Empty)} ELSE {}
<1>. DEFINE ck == {"index", "operator_index", "key", "deposit_signature", "used"}
            kk == {"index", "operator_index"}
            cm == {"block_number", "block_hash", "keys_op_index", "timestamp"}
            km == {"block_number"}
            co == {"index", "active", "name", "reward_address", "staking_limit",
                   "stopped_validators", "total_signing_keys", "used_signing_keys"}
            ko == {"index"}
            s == <<Create(KEY, ck, kk), Create(META, cm, km), Create(OPERATOR, co, ko)>>
            C0 == SchemaColumns(E)
            K0 == SchemaKeys(E)
            R0 == Uniform(E, r)
            C1 == With(C0, KEY, ck)
            K1 == With(K0, KEY, kk)
            R1 == With(R0, KEY, Empty)
            C2 == With(C1, META, cm)
            K2 == With(K1, META, km)
            R2 == With(R1, META, Empty)
            C3 == With(C2, OPERATOR, co)
            K3 == With(K2, OPERATOR, ko)
            R3 == With(R2, OPERATOR, Empty)
<1>1. findMigrations[1].up = s BY DEF findMigrations, Migration20220225153937
<1>2. /\ ColumnsOf({1}, KEY) = ck /\ ColumnsOf({1}, META) = cm /\ ColumnsOf({1}, OPERATOR) = co
      /\ KeyOf({1}, KEY) = kk /\ KeyOf({1}, META) = km /\ KeyOf({1}, OPERATOR) = ko
  BY TablesApart DEF ColumnsOf, KeyOf, Added
<1>. HIDE DEF ck, kk, cm, km, co, ko
<1>3. /\ s \in Seq({s[1], s[2], s[3]}) /\ Len(s) = 3
      /\ s[1] = Create(KEY, ck, kk) /\ s[2] = Create(META, cm, km)
      /\ s[3] = Create(OPERATOR, co, ko)
  OBVIOUS
<1>. HIDE DEF s
<1>4. PICK f : Traces(f, {Db(E, r)}, s) /\ Execute(Db(E, r), s) = f[Len(s)]
  BY <1>3, Executed
<1>5. f[0] = {Layout(C0, K0, R0)} BY <1>4 DEF Traces, Db
<1>6. /\ DOMAIN C0 = TablesOf(E) /\ DOMAIN K0 = TablesOf(E) /\ DOMAIN R0 = TablesOf(E)
  BY SchemaDomains
<1>. HIDE DEF C0, K0, R0, C1, K1, R1, C2, K2, R2, C3, K3, R3
<1>7. /\ f[1] = After(f[0], Create(KEY, ck, kk))
      /\ f[2] = After(f[1], Create(META, cm, km))
      /\ f[3] = After(f[2], Create(OPERATOR, co, ko))
  <2>1. Len(s) = 3 BY <1>3
  <2>2. /\ f[1] = After(f[0], s[1]) /\ f[2] = After(f[1], s[2]) /\ f[3] = After(f[2], s[3])
    BY <1>4, <2>1, ThreeSteps, Zenon
  <2>. QED BY <1>3, <2>2, Zenon
<1>8. Execute(Db(E, r), findMigrations[1].up) = f[3] BY <1>1, <1>3, <1>4
<1>9. CASE 1 \in E
  <2>1. KEY \in DOMAIN C0 BY <1>6, <1>9 DEF TablesOf
  <2>2. After({Layout(C0, K0, R0)}, Create(KEY, ck, kk)) = {} BY <1>6, <2>1, Clashes
  <2>. QED BY <1>5, <1>7, <1>8, <1>9, <2>2, AfterNothing
<1>10. CASE 1 \notin E
  <2>1. E = {} BY <1>10 DEF Closed, Versions, findMigrations
  <2>2. DOMAIN C0 = {} /\ DOMAIN K0 = {} /\ DOMAIN R0 = {} BY <1>6, <2>1 DEF TablesOf
  <2>3. /\ DOMAIN C1 = {KEY} /\ DOMAIN K1 = {KEY} /\ DOMAIN R1 = {KEY}
        /\ C1[KEY] = ck /\ K1[KEY] = kk /\ R1[KEY] = Empty
    BY <2>2 DEF C1, K1, R1, With
  <2>4. After({Layout(C0, K0, R0)}, Create(KEY, ck, kk)) = {Layout(C1, K1, R1)}
    BY <2>2, Creates DEF C1, K1, R1
  <2>5. /\ DOMAIN C2 = {KEY, META} /\ DOMAIN K2 = {KEY, META} /\ DOMAIN R2 = {KEY, META}
        /\ C2[KEY] = ck /\ K2[KEY] = kk /\ R2[KEY] = Empty
        /\ C2[META] = cm /\ K2[META] = km /\ R2[META] = Empty
    BY <2>3, TablesApart DEF C2, K2, R2, With
  <2>6. After({Layout(C1, K1, R1)}, Create(META, cm, km)) = {Layout(C2, K2, R2)}
    BY <2>3, Creates, TablesApart DEF C2, K2, R2
  <2>7. /\ DOMAIN C3 = {KEY, META, OPERATOR} /\ DOMAIN K3 = {KEY, META, OPERATOR}
        /\ DOMAIN R3 = {KEY, META, OPERATOR}
        /\ C3[KEY] = ck /\ K3[KEY] = kk /\ R3[KEY] = Empty
        /\ C3[META] = cm /\ K3[META] = km /\ R3[META] = Empty
        /\ C3[OPERATOR] = co /\ K3[OPERATOR] = ko /\ R3[OPERATOR] = Empty
    BY <2>5, TablesApart DEF C3, K3, R3, With
  <2>8. After({Layout(C2, K2, R2)}, Create(OPERATOR, co, ko)) = {Layout(C3, K3, R3)}
    BY <2>5, Creates, TablesApart DEF C3, K3, R3
  <2>9. TablesOf({1}) = {KEY, META, OPERATOR} BY DEF TablesOf
  <2>10. C3 = SchemaColumns({1}) /\ K3 = SchemaKeys({1}) /\ R3 = Uniform({1}, Empty)
    BY <1>2, <2>7, <2>9 DEF SchemaColumns, SchemaKeys, Uniform, With, C3, K3, R3
  <2>11. Layout(C3, K3, R3) = Db({1}, Empty) BY <2>10 DEF Db
  <2>12. f[1] = {Layout(C1, K1, R1)} BY <1>5, <1>7, <2>4, Zenon
  <2>13. f[2] = {Layout(C2, K2, R2)} BY <1>7, <2>6, <2>12, Zenon
  <2>14. f[3] = {Layout(C3, K3, R3)} BY <1>7, <2>8, <2>13, Zenon
  <2>. QED BY <1>8, <1>10, <2>1, <2>11, <2>14
<1>. QED BY <1>9, <1>10

\* down of the first migration.
LEMMA Down1 ==
    ASSUME NEW r
    PROVE  Execute(Db({1}, r), findMigrations[1].down) = {Db({}, Empty)}
<1>. DEFINE s == <<Drop(KEY), Drop(META), Drop(OPERATOR)>>
            C0 == SchemaColumns({1})
            K0 == SchemaKeys({1})
            R0 == Uniform({1}, r)
            C1 == Without(C0, KEY)
            K1 == Without(K0, KEY)
            R1 == Without(R0, KEY)
            C2 == Without(C1, META)
            K2 == Without(K1, META)
            R2 == Without(R1, META)
            C3 == Without(C2, OPERATOR)
            K3 == Without(K2, OPERATOR)
            R3 == Without(R2, OPERATOR)
<1>1. findMigrations[1].down = s BY DEF findMigrations, Migration20220225153937
<1>2. /\ s \in Seq({s[1], s[2], s[3]}) /\ Len(s) = 3
      /\ s[1] = Drop(KEY) /\ s[2] = Drop(META) /\ s[3] = Drop(OPERATOR)
  OBVIOUS
<1>. HIDE DEF s
<1>3. PICK f : Traces(f, {Db({1}, r)}, s) /\ Execute(Db({1}, r), s) = f[Len(s)]
  BY <1>2, Executed
<1>4. f[0] = {Layout(C0, K0, R0)} BY <1>3 DEF Traces, Db
<1>5. TablesOf({1}) = {KEY, META, OPERATOR} /\ TablesOf({}) = {} BY DEF TablesOf
<1>6. DOMAIN C0 = TablesOf({1}) /\ DOMAIN K0 = TablesOf({1}) /\ DOMAIN R0 = TablesOf({1})
  BY SchemaDomains
<1>. HIDE DEF C0, K0, R0, C1, K1, R1, C2, K2, R2, C3, K3, R3
<1>7. /\ f[1] = After(f[0], Drop(KEY)) /\ f[2] = After(f[1], Drop(META))
      /\ f[3] = After(f[2], Drop(OPERATOR))
  <2>1. Len(s) = 3 BY <1>2
  <2>2. /\ f[1] = After(f[0], s[1]) /\ f[2] = After(f[1], s[2]) /\ f[3] = After(f[2], s[3])
    BY <1>3, <2>1, ThreeSteps, Zenon
  <2>. QED BY <1>2, <2>2, Zenon
<1>8. Execute(Db({1}, r), findMigrations[1].down) = f[3] BY <1>1, <1>2, <1>3
<1>9. After({Layout(C0, K0, R0)}, Drop(KEY)) = {Layout(C1, K1, R1)}
  BY <1>6, DropDoes DEF C1, K1, R1
<1>10. /\ DOMAIN C1 = TablesOf({1}) \ {KEY} /\ DOMAIN K1 = DOMAIN C1 /\ DOMAIN R1 = DOMAIN C1
  BY <1>6 DEF C1, K1, R1, Without
<1>11. After({Layout(C1, K1, R1)}, Drop(META)) = {Layout(C2, K2, R2)}
  BY <1>10, DropDoes DEF C2, K2, R2
<1>12. /\ DOMAIN C2 = DOMAIN C1 \ {META} /\ DOMAIN K2 = DOMAIN C2 /\ DOMAIN R2 = DOMAIN C2
  BY <1>10 DEF C2, K2, R2, Without
<1>13. After({Layout(C2, K2, R2)}, Drop(OPERATOR)) = {Layout(C3, K3, R3)}
  BY <1>12, DropDoes DEF C3, K3, R3
<1>14. DOMAIN C3 = {} /\ DOMAIN K3 = {} /\ DOMAIN R3 = {}
  BY <1>5, <1>10, <1>12 DEF C3, K3, R3, Without
<1>15. C3 = SchemaColumns({}) /\ K3 = SchemaKeys({}) /\ R3 = Uniform({}, Empty)
  BY <1>5, <1>14 DEF SchemaColumns, SchemaKeys, Uniform, Without, C3, K3, R3
<1>16. Layout(C3, K3, R3) = Db({}, Empty) BY <1>15 DEF Db
<1>. QED BY <1>4, <1>7, <1>8, <1>9, <1>11, <1>13, <1>16

\* up of the second migration in the schema of the first, statement by statement.
LEMMA Up2From1 ==
    ASSUME NEW r
    PROVE  Execute(Db({1}, r), findMigrations[2].up) = {Db({1, 2}, Empty)}
<1>. DEFINE ck == {"index", "operator_index", "key", "deposit_signature", "used"}
            co == {"index", "active", "name", "reward_address", "staking_limit",
                   "stopped_validators", "total_signing_keys", "used_signing_keys"}
            cm == {"block_number", "block_hash", "keys_op_index", "timestamp"}
            ce == {"block_number", "block_hash", "timestamp"}
            cs == {"id", "module_id", "staking_module_address", "staking_module_fee",
                   "treasury_fee", "target_share", "status", "name", "last_deposit_at",
                   "last_deposit_block", "exited_validators_count", "type", "active", "nonce"}
            kk == {"index", "operator_index"}
            kn == {"index", "operator_index", "module_address"}
            ko == {"index"}
            kp == {"index", "module_address"}
            km == {"block_number"}
            ke == {"block_number", "block_hash"}
            ks == {"id"}
            m == "module_address"
            wk == ck \cup {m}
            wo == co \cup {m}
            s == << Truncate(KEY),
                    Truncate(OPERATOR),
                    Truncate(META),
                    Create(EL_META, ce, ke),
                    Create(MODULES, cs, ks),
                    Drop(META),
                    AddColumn(KEY, m),
                    PrimaryKey(KEY, kn),
                    AddColumn(OPERATOR, m),
                    PrimaryKey(OPERATOR, kp) >>
            C0 == SchemaColumns({1})
            K0 == SchemaKeys({1})
            R0 == Uniform({1}, r)
            R1 == With(R0, KEY, Empty)
            R2 == With(R1, OPERATOR, Empty)
            R3 == With(R2, META, Empty)
            C1 == With(C0, EL_META, ce)
            K1 == With(K0, EL_META, ke)
            R4 == With(R3, EL_META, Empty)
            C2 == With(C1, MODULES, cs)
            K2 == With(K1, MODULES, ks)
            R5 == With(R4, MODULES, Empty)
            C3 == Without(C2, META)
            K3 == Without(K2, META)
            R6 == Without(R5, META)
            C4 == With(C3, KEY, ck \cup {m})
            K4 == With(K3, KEY, kn)
            C5 == With(C4, OPERATOR, co \cup {m})
            K5 == With(K4, OPERATOR, kp)
<1>1. findMigrations[2].up = s BY DEF findMigrations, Migration20230903183749
<1>2. /\ ColumnsOf({1}, KEY) = ck /\ ColumnsOf({1}, META) = cm /\ ColumnsOf({1}, OPERATOR) = co
      /\ KeyOf({1}, KEY) = kk /\ KeyOf({1}, META) = km /\ KeyOf({1}, OPERATOR) = ko
  BY TablesApart DEF ColumnsOf, KeyOf, Added
<1>3. /\ ColumnsOf({1, 2}, KEY) = wk /\ ColumnsOf({1, 2}, OPERATOR) = wo
      /\ ColumnsOf({1, 2}, EL_META) = ce /\ ColumnsOf({1, 2}, MODULES) = cs
      /\ KeyOf({1, 2}, KEY) = kn /\ KeyOf({1, 2}, OPERATOR) = kp
      /\ KeyOf({1, 2}, EL_META) = ke /\ KeyOf({1, 2}, MODULES) = ks
  BY TablesApart DEF ColumnsOf, KeyOf, Added
<1>4. /\ m \notin ck /\ m \notin co /\ m \in wk /\ m \in wo
      /\ wk = ck \cup {m} /\ wo = co \cup {m} /\ wk \ {m} = ck /\ wo \ {m} = co
      /\ kk \subseteq ck /\ kn \subseteq wk /\ ko \subseteq co /\ kp \subseteq wo
  OBVIOUS
<1>5. TablesOf({1}) = {KEY, META, OPERATOR} /\ TablesOf({1, 2}) = {KEY, OPERATOR, EL_META, MODULES}
  BY DEF TablesOf
<1>. HIDE DEF ck, co, cm, ce, cs, kk, kn, ko, kp, km, ke, ks, m, wk, wo
<1>6. /\ s \in Seq({s[1], s[2], s[3], s[4], s[5], s[6], s[7], s[8], s[9], s[10]}) /\ Len(s) = 10
      /\ s[1] = Truncate(KEY)
      /\ s[2] = Truncate(OPERATOR)
      /\ s[3] = Truncate(META)
      /\ s[4] = Create(EL_META, ce, ke)
      /\ s[5] = Create(MODULES, cs, ks)
      /\ s[6] = Drop(META)
      /\ s[7] = AddColumn(KEY, m)
      /\ s[8] = PrimaryKey(KEY, kn)
      /\ s[9] = AddColumn(OPERATOR, m)
      /\ s[10] = PrimaryKey(OPERATOR, kp)
  OBVIOUS
<1>. HIDE DEF s
<1>7. PICK f : Traces(f, {Db({1}, r)}, s) /\ Execute(Db({1}, r), s) = f[Len(s)]
  BY <1>6, Executed
<1>8. f[0] = {Layout(C0, K0, R0)} BY <1>7 DEF Traces, Db
<1>9. Execute(Db({1}, r), findMigrations[2].up) = f[10] BY <1>1, <1>6, <1>7
<1>10. DOMAIN C0 = {KEY, META, OPERATOR} /\ DOMAIN K0 = {KEY, META, OPERATOR}
       /\ DOMAIN R0 = {KEY, META, OPERATOR}
       /\ C0[KEY] = ck /\ C0[META] = cm /\ C0[OPERATOR] = co
       /\ K0[KEY] = kk /\ K0[META] = km /\ K0[OPERATOR] = ko
       /\ R0[KEY] = r /\ R0[META] = r /\ R0[OPERATOR] = r
  BY <1>2, <1>3, <1>5, TablesApart DEF SchemaColumns, SchemaKeys, Uniform
<1>. HIDE DEF C0, K0, R0, R1, R2, R3, C1, K1, R4, C2, K2, R5, C3, K3, R6, C4, K4, C5, K5
<1>11. f[1] = {Layout(C0, K0, R1)}
  <2>1. After({Layout(C0, K0, R0)}, Truncate(KEY)) = {Layout(C0, K0, R1)}
    BY <1>10, <1>4, Empties, TablesApart DEF R1
  <2>2. f[1] = After(f[0], s[1])
    <3>1. 1 \in 1..Len(s) /\ 1 - 1 = 0 BY <1>6
    <3>. QED BY <1>7, <3>1, Stepwise
  <2>. QED BY <1>6, <1>8, <2>1, <2>2, Zenon
<1>12. /\ DOMAIN R1 = {KEY, META, OPERATOR}
       /\ R1[KEY] = Empty /\ R1[META] = r /\ R1[OPERATOR] = r
  BY <1>10, <1>4, TablesApart DEF With, Without, R1
<1>13. f[2] = {Layout(C0, K0, R2)}
  <2>1. After({Layout(C0, K0, R1)}, Truncate(OPERATOR)) = {Layout(C0, K0, R2)}
    BY <1>10, <1>12, <1>4, Empties, TablesApart DEF R2
  <2>2. f[2] = After(f[1], s[2])
    <3>1. 2 \in 1..Len(s) /\ 2 - 1 = 1 BY <1>6
    <3>. QED BY <1>7, <3>1, Stepwise
  <2>. QED BY <1>6, <1>11, <2>1, <2>2, Zenon
<1>14. /\ DOMAIN R2 = {KEY, META, OPERATOR}
       /\ R2[KEY] = Empty /\ R2[META] = r /\ R2[OPERATOR] = Empty
  BY <1>12, <1>4, TablesApart DEF With, Without, R2
<1>15. f[3] = {Layout(C0, K0, R3)}
  <2>1. After({Layout(C0, K0, R2)}, Truncate(META)) = {Layout(C0, K0, R3)}
    BY <1>10, <1>14, <1>4, Empties, TablesApart DEF R3
  <2>2. f[3] = After(f[2], s[3])
    <3>1. 3 \in 1..Len(s) /\ 3 - 1 = 2 BY <1>6
    <3>. QED BY <1>7, <3>1, Stepwise
  <2>. QED BY <1>6, <1>13, <2>1, <2>2, Zenon
<1>16. /\ DOMAIN R3 = {KEY, META, OPERATOR}
       /\ R3[KEY] = Empty /\ R3[META] = Empty /\ R3[OPERATOR] = Empty
  BY <1>14, <1>4, TablesApart DEF With, Without, R3
<1>17. f[4] = {Layout(C1, K1, R4)}
  <2>1. After({Layout(C0, K0, R3)}, Create(EL_META, ce, ke)) = {Layout(C1, K1, R4)}
    BY <1>10, <1>16, <1>4, Creates, TablesApart DEF C1, K1, R4
  <2>2. f[4] = After(f[3], s[4])
    <3>1. 4 \in 1..Len(s) /\ 4 - 1 = 3 BY <1>6
    <3>. QED BY <1>7, <3>1, Stepwise
  <2>. QED BY <1>6, <1>15, <2>1, <2>2, Zenon
<1>18. /\ DOMAIN C1 = {KEY, META, OPERATOR, EL_META}
       /\ C1[KEY] = ck /\ C1[META] = cm /\ C1[OPERATOR] = co /\ C1[EL_META] = ce
       /\ DOMAIN K1 = {KEY, META, OPERATOR, EL_META}
       /\ K1[KEY] = kk /\ K1[META] = km /\ K1[OPERATOR] = ko /\ K1[EL_META] = ke
       /\ DOMAIN R4 = {KEY, META, OPERATOR, EL_META}
       /\ R4[KEY] = Empty /\ R4[META] = Empty /\ R4[OPERATOR] = Empty /\ R4[EL_META] = Empty
  BY <1>10, <1>16, <1>4, TablesApart DEF With, Without, C1, K1, R4
<1>19. f[5] = {Layout(C2, K2, R5)}
  <2>1. After({Layout(C1, K1, R4)}, Create(MODULES, cs, ks)) = {Layout(C2, K2, R5)}
    BY <1>18, <1>4, Creates, TablesApart DEF C2, K2, R5
  <2>2. f[5] = After(f[4], s[5])
    <3>1. 5 \in 1..Len(s) /\ 5 - 1 = 4 BY <1>6
    <3>. QED BY <1>7, <3>1, Stepwise
  <2>. QED BY <1>6, <1>17, <2>1, <2>2, Zenon
<1>20. /\ DOMAIN C2 = {KEY, META, OPERATOR, EL_META, MODULES}
       /\ C2[KEY] = ck /\ C2[META] = cm /\ C2[OPERATOR] = co /\ C2[EL_META] = ce /\ C2[MODULES] = cs
       /\ DOMAIN K2 = {KEY, META, OPERATOR, EL_META, MODULES}
       /\ K2[KEY] = kk /\ K2[META] = km /\ K2[OPERATOR] = ko /\ K2[EL_META] = ke /\ K2[MODULES] = ks
       /\ DOMAIN R5 = {KEY, META, OPERATOR, EL_META, MODULES}
       /\ R5[KEY] = Empty /\ R5[META] = Empty /\ R5[OPERATOR] = Empty
       /\ R5[EL_META] = Empty /\ R5[MODULES] = Empty
  BY <1>18, <1>4, TablesApart DEF With, Without, C2, K2, R5
<1>21. f[6] = {Layout(C3, K3, R6)}
  <2>1. After({Layout(C2, K2, R5)}, Drop(META)) = {Layout(C3, K3, R6)}
    BY <1>20, <1>4, DropDoes, TablesApart DEF C3, K3, R6
  <2>2. f[6] = After(f[5], s[6])
    <3>1. 6 \in 1..Len(s) /\ 6 - 1 = 5 BY <1>6
    <3>. QED BY <1>7, <3>1, Stepwise
  <2>. QED BY <1>6, <1>19, <2>1, <2>2, Zenon
<1>22. /\ DOMAIN C3 = {KEY, OPERATOR, EL_META, MODULES}
       /\ C3[KEY] = ck /\ C3[OPERATOR] = co /\ C3[EL_META] = ce /\ C3[MODULES] = cs
       /\ DOMAIN K3 = {KEY, OPERATOR, EL_META, MODULES}
       /\ K3[KEY] = kk /\ K3[OPERATOR] = ko /\ K3[EL_META] = ke /\ K3[MODULES] = ks
       /\ DOMAIN R6 = {KEY, OPERATOR, EL_META, MODULES}
       /\ R6[KEY] = Empty /\ R6[OPERATOR] = Empty /\ R6[EL_META] = Empty /\ R6[MODULES] = Empty
  BY <1>20, <1>4, TablesApart DEF With, Without, C3, K3, R6
<1>23. f[7] = {Layout(C4, K3, R6)}
  <2>1. After({Layout(C3, K3, R6)}, AddColumn(KEY, m)) = {Layout(C4, K3, R6)}
    BY <1>22, <1>4, Widens, TablesApart DEF C4
  <2>2. f[7] = After(f[6], s[7])
    <3>1. 7 \in 1..Len(s) /\ 7 - 1 = 6 BY <1>6
    <3>. QED BY <1>7, <3>1, Stepwise
  <2>. QED BY <1>6, <1>21, <2>1, <2>2, Zenon
<1>24. /\ DOMAIN C4 = {KEY, OPERATOR, EL_META, MODULES}
       /\ C4[KEY] = wk /\ C4[OPERATOR] = co /\ C4[EL_META] = ce /\ C4[MODULES] = cs
  BY <1>22, <1>4, TablesApart DEF With, Without, C4
<1>25. f[8] = {Layout(C4, K4, R6)}
  <2>1. After({Layout(C4, K3, R6)}, PrimaryKey(KEY, kn)) = {Layout(C4, K4, R6)}
    BY <1>22, <1>24, <1>4, Rekeys, TablesApart DEF K4
  <2>2. f[8] = After(f[7], s[8])
    <3>1. 8 \in 1..Len(s) /\ 8 - 1 = 7 BY <1>6
    <3>. QED BY <1>7, <3>1, Stepwise
  <2>. QED BY <1>6, <1>23, <2>1, <2>2, Zenon
<1>26. /\ DOMAIN K4 = {KEY, OPERATOR, EL_META, MODULES}
       /\ K4[KEY] = kn /\ K4[OPERATOR] = ko /\ K4[EL_META] = ke /\ K4[MODULES] = ks
  BY <1>22, <1>4, TablesApart DEF With, Without, K4
<1>27. f[9] = {Layout(C5, K4, R6)}
  <2>1. After({Layout(C4, K4, R6)}, AddColumn(OPERATOR, m)) = {Layout(C5, K4, R6)}
    BY <1>22, <1>24, <1>26, <1>4, Widens, TablesApart DEF C5
  <2>2. f[9] = After(f[8], s[9])
    <3>1. 9 \in 1..Len(s) /\ 9 - 1 = 8 BY <1>6
    <3>. QED BY <1>7, <3>1, Stepwise
  <2>. QED BY <1>6, <1>25, <2>1, <2>2, Zenon
<1>28. /\ DOMAIN C5 = {KEY, OPERATOR, EL_META, MODULES}
       /\ C5[KEY] = wk /\ C5[OPERATOR] = wo /\ C5[EL_META] = ce /\ C5[MODULES] = cs
  BY <1>24, <1>4, TablesApart DEF With, Without, C5
<1>29. f[10] = {Layout(C5, K5, R6)}
  <2>1. After({Layout(C5, K4, R6)}, PrimaryKey(OPERATOR, kp)) = {Layout(C5, K5, R6)}
    BY <1>22, <1>26, <1>28, <1>4, Rekeys, TablesApart DEF K5
  <2>2. f[10] = After(f[9], s[10])
    <3>1. 10 \in 1..Len(s) /\ 10 - 1 = 9 BY <1>6
    <3>. QED BY <1>7, <3>1, Stepwise
  <2>. QED BY <1>6, <1>27, <2>1, <2>2, Zenon
<1>30. /\ DOMAIN K5 = {KEY, OPERATOR, EL_META, MODULES}
       /\ K5[KEY] = kn /\ K5[OPERATOR] = kp /\ K5[EL_META] = ke /\ K5[MODULES] = ks
  BY <1>26, <1>4, TablesApart DEF With, Without, K5
<1>31. C5 = SchemaColumns({1, 2}) /\ K5 = SchemaKeys({1, 2}) /\ R6 = Uniform({1, 2}, Empty)
  <2>1. C5 = SchemaColumns({1, 2})
    BY <1>28, <1>2, <1>3, <1>5, TablesApart DEF SchemaColumns, With, Without, C5
  <2>2. K5 = SchemaKeys({1, 2})
    BY <1>30, <1>2, <1>3, <1>5, TablesApart DEF SchemaKeys, With, Without, K5
  <2>3. R6 = Uniform({1, 2}, Empty)
    BY <1>22, <1>2, <1>3, <1>5, TablesApart DEF Uniform, With, Without, R6
  <2>. QED BY <2>1, <2>2, <2>3
<1>32. Layout(C5, K5, R6) = Db({1, 2}, Empty) BY <1>31 DEF Db
<1>. QED BY <1>9, <1>29, <1>32

\* down of the second migration in the schema of the first two.
LEMMA Down2 ==
    ASSUME NEW r
    PROVE  Execute(Db({1, 2}, r), findMigrations[2].down) = {Db({1}, Empty)}
<1>. DEFINE ck == {"index", "operator_index", "key", "deposit_signature", "used"}
            co == {"index", "active", "name", "reward_address", "staking_limit",
                   "stopped_validators", "total_signing_keys", "used_signing_keys"}
            cm == {"block_number", "block_hash", "keys_op_index", "timestamp"}
            ce == {"block_number", "block_hash", "timestamp"}
            cs == {"id", "module_id", "staking_module_address", "staking_module_fee",
                   "treasury_fee", "target_share", "status", "name", "last_deposit_at",
                   "last_deposit_block", "exited_validators_count", "type", "active", "nonce"}
            kk == {"index", "operator_index"}
            kn == {"index", "operator_index", "module_address"}
            ko == {"index"}
            kp == {"index", "module_address"}
            km == {"block_number"}
            ke == {"block_number", "block_hash"}
            ks == {"id"}
            m == "module_address"
            wk == ck \cup {m}
            wo == co \cup {m}
            s == << Truncate(KEY),
                    Truncate(OPERATOR),
                    Create(META, cm, km),
                    Drop(EL_META),
                    Drop(MODULES),
                    DropColumn(KEY, m),
                    PrimaryKey(KEY, kk),
                    DropColumn(OPERATOR, m),
                    PrimaryKey(OPERATOR, ko) >>
            C0 == SchemaColumns({1, 2})
            K0 == SchemaKeys({1, 2})
            R0 == Uniform({1, 2}, r)
            R1 == With(R0, KEY, Empty)
            R2 == With(R1, OPERATOR, Empty)
            C1 == With(C0, META, cm)
            K1 == With(K0, META, km)
            R3 == With(R2, META, Empty)
            C2 == Without(C1, EL_META)
            K2 == Without(K1, EL_META)
            R4 == Without(R3, EL_META)
            C3 == Without(C2, MODULES)
            K3 == Without(K2, MODULES)
            R5 == Without(R4, MODULES)
            C4 == With(C3, KEY, wk \ {m})
            K4 == With(K3, KEY, kk)
            C5 == With(C4, OPERATOR, wo \ {m})
            K5 == With(K4, OPERATOR, ko)
<1>1. findMigrations[2].down = s BY DEF findMigrations, Migration20230903183749
<1>2. /\ ColumnsOf({1}, KEY) = ck /\ ColumnsOf({1}, META) = cm /\ ColumnsOf({1}, OPERATOR) = co
      /\ KeyOf({1}, KEY) = kk /\ KeyOf({1}, META) = km /\ KeyOf({1}, OPERATOR) = ko
  BY TablesApart DEF ColumnsOf, KeyOf, Added
<1>3. /\ ColumnsOf({1, 2}, KEY) = wk /\ ColumnsOf({1, 2}, OPERATOR) = wo
      /\ ColumnsOf({1, 2}, EL_META) = ce /\ ColumnsOf({1, 2}, MODULES) = cs
      /\ KeyOf({1, 2}, KEY) = kn /\ KeyOf({1, 2}, OPERATOR) = kp
      /\ KeyOf({1, 2}, EL_META) = ke /\ KeyOf({1, 2}, MODULES) = ks
  BY TablesApart DEF ColumnsOf, KeyOf, Added
<1>4. /\ m \notin ck /\ m \notin co /\ m \in wk /\ m \in wo
      /\ wk = ck \cup {m} /\ wo = co \cup {m} /\ wk \ {m} = ck /\ wo \ {m} = co
      /\ kk \subseteq ck /\ kn \subseteq wk /\ ko \subseteq co /\ kp \subseteq wo
  OBVIOUS
<1>5. TablesOf({1}) = {KEY, META, OPERATOR} /\ TablesOf({1, 2}) = {KEY, OPERATOR, EL_META, MODULES}
  BY DEF TablesOf
<1>. HIDE DEF ck, co, cm, ce, cs, kk, kn, ko, kp, km, ke, ks, m, wk, wo
<1>6. /\ s \in Seq({s[1], s[2], s[3], s[4], s[5], s[6], s[7], s[8], s[9]}) /\ Len(s) = 9
      /\ s[1] = Truncate(KEY)
      /\ s[2] = Truncate(OPERATOR)
      /\ s[3] = Create(META, cm, km)
      /\ s[4] = Drop(EL_META)
      /\ s[5] = Drop(MODULES)
      /\ s[6] = DropColumn(KEY, m)
      /\ s[7] = PrimaryKey(KEY, kk)
      /\ s[8] = DropColumn(OPERATOR, m)
      /\ s[9] = PrimaryKey(OPERATOR, ko)
  OBVIOUS
<1>. HIDE DEF s
<1>7. PICK f : Traces(f, {Db({1, 2}, r)}, s) /\ Execute(Db({1, 2}, r), s) = f[Len(s)]
  BY <1>6, Executed
<1>8. f[0] = {Layout(C0, K0, R0)} BY <1>7 DEF Traces, Db
<1>9. Execute(Db({1, 2}, r), findMigrations[2].down) = f[9] BY <1>1, <1>6, <1>7
<1>10. DOMAIN C0 = {KEY, OPERATOR, EL_META, MODULES} /\ DOMAIN K0 = {KEY, OPERATOR, EL_META, MODULES}
       /\ DOMAIN R0 = {KEY, OPERATOR, EL_META, MODULES}
       /\ C0[KEY] = wk /\ C0[OPERATOR] = wo /\ C0[EL_META] = ce /\ C0[MODULES] = cs
       /\ K0[KEY] = kn /\ K0[OPERATOR] = kp /\ K0[EL_META] = ke /\ K0[MODULES] = ks
       /\ R0[KEY] = r /\ R0[OPERATOR] = r /\ R0[EL_META] = r /\ R0[MODULES] = r
  BY <1>2, <1>3, <1>5, TablesApart DEF SchemaColumns, SchemaKeys, Uniform
<1>. HIDE DEF C0, K0, R0, R1, R2, C1, K1, R3, C2, K2, R4, C3, K3, R5, C4, K4, C5, K5
<1>11. f[1] = {Layout(C0, K0, R1)}
  <2>1. After({Layout(C0, K0, R0)}, Truncate(KEY)) = {Layout(C0, K0, R1)}
    BY <1>10, <1>4, Empties, TablesApart DEF R1
  <2>2. f[1] = After(f[0], s[1])
    <3>1. 1 \in 1..Len(s) /\ 1 - 1 = 0 BY <1>6
    <3>. QED BY <1>7, <3>1, Stepwise
  <2>. QED BY <1>6, <1>8, <2>1, <2>2, Zenon
<1>12. /\ DOMAIN R1 = {KEY, OPERATOR, EL_META, MODULES}
       /\ R1[KEY] = Empty /\ R1[OPERATOR] = r /\ R1[EL_META] = r /\ R1[MODULES] = r
  BY <1>10, <1>4, TablesApart DEF With, Without, R1
<1>13. f[2] = {Layout(C0, K0, R2)}
  <2>1. After({Layout(C0, K0, R1)}, Truncate(OPERATOR)) = {Layout(C0, K0, R2)}
    BY <1>10, <1>12, <1>4, Empties, TablesApart DEF R2
  <2>2. f[2] = After(f[1], s[2])
    <3>1. 2 \in 1..Len(s) /\ 2 - 1 = 1 BY <1>6
    <3>. QED BY <1>7, <3>1, Stepwise
  <2>. QED BY <1>6, <1>11, <2>1, <2>2, Zenon
<1>14. /\ DOMAIN R2 = {KEY, OPERATOR, EL_META, MODULES}
       /\ R2[KEY] = Empty /\ R2[OPERATOR] = Empty /\ R2[EL_META] = r /\ R2[MODULES] = r
  BY <1>12, <1>4, TablesApart DEF With, Without, R2
<1>15. f[3] = {Layout(C1, K1, R3)}
  <2>1. After({Layout(C0, K0, R2)}, Create(META, cm, km)) = {Layout(C1, K1, R3)}
    BY <1>10, <1>14, <1>4, Creates, TablesApart DEF C1, K1, R3
  <2>2. f[3] = After(f[2], s[3])
    <3>1. 3 \in 1..Len(s) /\ 3 - 1 = 2 BY <1>6
    <3>. QED BY <1>7, <3>1, Stepwise
  <2>. QED BY <1>6, <1>13, <2>1, <2>2, Zenon
<1>16. /\ DOMAIN C1 = {KEY, OPERATOR, EL_META, MODULES, META}
       /\ C1[KEY] = wk /\ C1[OPERATOR] = wo /\ C1[EL_META] = ce /\ C1[MODULES] = cs /\ C1[META] = cm
       /\ DOMAIN K1 = {KEY, OPERATOR, EL_META, MODULES, META}
       /\ K1[KEY] = kn /\ K1[OPERATOR] = kp /\ K1[EL_META] = ke /\ K1[MODULES] = ks /\ K1[META] = km
       /\ DOMAIN R3 = {KEY, OPERATOR, EL_META, MODULES, META}
       /\ R3[KEY] = Empty /\ R3[OPERATOR] = Empty /\ R3[EL_META] = r
       /\ R3[MODULES] = r /\ R3[META] = Empty
  BY <1>10, <1>14, <1>4, TablesApart DEF With, Without, C1, K1, R3
<1>17. f[4] = {Layout(C2, K2, R4)}
  <2>1. After({Layout(C1, K1, R3)}, Drop(EL_META)) = {Layout(C2, K2, R4)}
    BY <1>16, <1>4, DropDoes, TablesApart DEF C2, K2, R4
  <2>2. f[4] = After(f[3], s[4])
    <3>1. 4 \in 1..Len(s) /\ 4 - 1 = 3 BY <1>6
    <3>. QED BY <1>7, <3>1, Stepwise
  <2>. QED BY <1>6, <1>15, <2>1, <2>2, Zenon
<1>18. /\ DOMAIN C2 = {KEY, OPERATOR, MODULES, META}
       /\ C2[KEY] = wk /\ C2[OPERATOR] = wo /\ C2[MODULES] = cs /\ C2[META] = cm
       /\ DOMAIN K2 = {KEY, OPERATOR, MODULES, META}
       /\ K2[KEY] = kn /\ K2[OPERATOR] = kp /\ K2[MODULES] = ks /\ K2[META] = km
       /\ DOMAIN R4 = {KEY, OPERATOR, MODULES, META}
       /\ R4[KEY] = Empty /\ R4[OPERATOR] = Empty /\ R4[MODULES] = r /\ R4[META] = Empty
  BY <1>16, <1>4, TablesApart DEF With, Without, C2, K2, R4
<1>19. f[5] = {Layout(C3, K3, R5)}
  <2>1. After({Layout(C2, K2, R4)}, Drop(MODULES)) = {Layout(C3, K3, R5)}
    BY <1>18, <1>4, DropDoes, TablesApart DEF C3, K3, R5
  <2>2. f[5] = After(f[4], s[5])
    <3>1. 5 \in 1..Len(s) /\ 5 - 1 = 4 BY <1>6
    <3>. QED BY <1>7, <3>1, Stepwise
  <2>. QED BY <1>6, <1>17, <2>1, <2>2, Zenon
<1>20. /\ DOMAIN C3 = {KEY, OPERATOR, META}
       /\ C3[KEY] = wk /\ C3[OPERATOR] = wo /\ C3[META] = cm
       /\ DOMAIN K3 = {KEY, OPERATOR, META}
       /\ K3[KEY] = kn /\ K3[OPERATOR] = kp /\ K3[META] = km
       /\ DOMAIN R5 = {KEY, OPERATOR, META}
       /\ R5[KEY] = Empty /\ R5[OPERATOR] = Empty /\ R5[META] = Empty
  BY <1>18, <1>4, TablesApart DEF With, Without, C3, K3, R5
<1>21. f[6] = {Layout(C4, K3, R5)}
  <2>1. After({Layout(C3, K3, R5)}, DropColumn(KEY, m)) = {Layout(C4, K3, R5)}
    BY <1>20, <1>4, Narrows, TablesApart DEF C4
  <2>2. f[6] = After(f[5], s[6])
    <3>1. 6 \in 1..Len(s) /\ 6 - 1 = 5 BY <1>6
    <3>. QED BY <1>7, <3>1, Stepwise
  <2>. QED BY <1>6, <1>19, <2>1, <2>2, Zenon
<1>22. /\ DOMAIN C4 = {KEY, OPERATOR, META}
       /\ C4[KEY] = ck /\ C4[OPERATOR] = wo /\ C4[META] = cm
  BY <1>20, <1>4, TablesApart DEF With, Without, C4
<1>23. f[7] = {Layout(C4, K4, R5)}
  <2>1. After({Layout(C4, K3, R5)}, PrimaryKey(KEY, kk)) = {Layout(C4, K4, R5)}
    BY <1>20, <1>22, <1>4, Rekeys, TablesApart DEF K4
  <2>2. f[7] = After(f[6], s[7])
    <3>1. 7 \in 1..Len(s) /\ 7 - 1 = 6 BY <1>6
    <3>. QED BY <1>7, <3>1, Stepwise
  <2>. QED BY <1>6, <1>21, <2>1, <2>2, Zenon
<1>24. /\ DOMAIN K4 = {KEY, OPERATOR, META}
       /\ K4[KEY] = kk /\ K4[OPERATOR] = kp /\ K4[META] = km
  BY <1>20, <1>4, TablesApart DEF With, Without, K4
<1>25. f[8] = {Layout(C5, K4, R5)}
  <2>1. After({Layout(C4, K4, R5)}, DropColumn(OPERATOR, m)) = {Layout(C5, K4, R5)}
    BY <1>20, <1>22, <1>24, <1>4, Narrows, TablesApart DEF C5
  <2>2. f[8] = After(f[7], s[8])
    <3>1. 8 \in 1..Len(s) /\ 8 - 1 = 7 BY <1>6
    <3>. QED BY <1>7, <3>1, Stepwise
  <2>. QED BY <1>6, <1>23, <2>1, <2>2, Zenon
<1>26. /\ DOMAIN C5 = {KEY, OPERATOR, META}
       /\ C5[KEY] = ck /\ C5[OPERATOR] = co /\ C5[META] = cm
  BY <1>22, <1>4, TablesApart DEF With, Without, C5
<1>27. f[9] = {Layout(C5, K5, R5)}
  <2>1. After({Layout(C5, K4, R5)}, PrimaryKey(OPERATOR, ko)) = {Layout(C5, K5, R5)}
    BY <1>20, <1>24, <1>26, <1>4, Rekeys, TablesApart DEF K5
  <2>2. f[9] = After(f[8], s[9])
    <3>1. 9 \in 1..Len(s) /\ 9 - 1 = 8 BY <1>6
    <3>. QED BY <1>7, <3>1, Stepwise
  <2>. QED BY <1>6, <1>25, <2>1, <2>2, Zenon
<1>28. /\ DOMAIN K5 = {KEY, OPERATOR, META}
       /\ K5[KEY] = kk /\ K5[OPERATOR] = ko /\ K5[META] = km
  BY <1>24, <1>4, TablesApart DEF With, Without, K5
<1>29. C5 = SchemaColumns({1}) /\ K5 = SchemaKeys({1}) /\ R5 = Uniform({1}, Empty)
  <2>1. C5 = SchemaColumns({1})
    BY <1>26, <1>2, <1>3, <1>5, TablesApart DEF SchemaColumns, With, Without, C5
  <2>2. K5 = SchemaKeys({1})
    BY <1>28, <1>2, <1>3, <1>5, TablesApart DEF SchemaKeys, With, Without, K5
  <2>3. R5 = Uniform({1}, Empty)
    BY <1>20, <1>2, <1>3, <1>5, TablesApart DEF Uniform, With, Without, R5
  <2>. QED BY <2>1, <2>2, <2>3
<1>30. Layout(C5, K5, R5) = Db({1}, Empty) BY <1>29 DEF Db
<1>. QED BY <1>9, <1>27, <1>30

\* There are seven migrations.
LEMMA SevenMigrations == Versions = 1..7 /\ Len(findMigrations) = 7
BY DEF Versions, findMigrations

\* A trace that has failed stays so.
LEMMA NothingLeft ==
    ASSUME NEW f, NEW first, NEW s, Traces(f, first, s), Len(s) \in Nat,
           NEW i \in 0..Len(s), f[i] = {}
    PROVE  f[Len(s)] = {}
<1>. DEFINE T == {j \in i..Len(s) : f[j] # {}}
<1>1. SUFFICES ASSUME T # {} PROVE FALSE OBVIOUS
<1>2. T \subseteq Nat OBVIOUS
<1>3. PICK j \in T : \A k \in T : ~(k < j)
  <2>. HIDE DEF T
  <2>. QED BY <1>1, <1>2, LeastNatural
<1>4. j \in 1..Len(s) /\ j - 1 \in i..Len(s) /\ j - 1 < j OBVIOUS
<1>5. f[j - 1] = {} BY <1>3, <1>4
<1>6. f[j] = After(f[j - 1], s[j]) BY <1>4, Stepwise
<1>. QED BY <1>3, <1>5, <1>6, AfterNothing

\* up of the second migration in any schema: its first or its third TRUNCATE fails
\* in all others.
LEMMA Up2 ==
    ASSUME NEW E, Closed(E), NEW r
    PROVE  Execute(Db(E, r), findMigrations[2].up) =
             IF 1 \in E /\ 2 \notin E THEN {Db(E \cup {2}, Empty)} ELSE {}
<1>1. CASE 1 \in E /\ 2 \notin E
  <2>1. \A v \in E : v \in 1..7 /\ v # 2 /\ ~(v > 2) BY <1>1, SevenMigrations DEF Closed
  <2>3. \A v \in E : v = 1 BY <2>1
  <2>4. E = {1} BY <1>1, <2>3
  <2>5. E \cup {2} = {1, 2} BY <2>4
  <2>. QED BY <1>1, <2>4, <2>5, Up2From1
<1>2. CASE ~(1 \in E /\ 2 \notin E)
  <2>. DEFINE s == findMigrations[2].up
              C == SchemaColumns(E)
              K == SchemaKeys(E)
              R0 == Uniform(E, r)
              R1 == With(R0, KEY, Empty)
              R2 == With(R1, OPERATOR, Empty)
  <2>1. \E S : s \in Seq(S)
    <3>. DEFINE ce == {"block_number", "block_hash", "timestamp"}
                ke == {"block_number", "block_hash"}
                cs == {"id", "module_id", "staking_module_address", "staking_module_fee",
                       "treasury_fee", "target_share", "status", "name", "last_deposit_at",
                       "last_deposit_block", "exited_validators_count", "type", "active", "nonce"}
                a1 == Truncate(KEY)
                a2 == Truncate(OPERATOR)
                a3 == Truncate(META)
                a4 == Create(EL_META, ce, ke)
                a5 == Create(MODULES, cs, {"id"})
                a6 == Drop(META)
                a7 == AddColumn(KEY, "module_address")
                a8 == PrimaryKey(KEY, {"index", "operator_index", "module_address"})
                a9 == AddColumn(OPERATOR, "module_address")
                a10 == PrimaryKey(OPERATOR, {"index", "module_address"})
    <3>1. s = <<a1, a2, a3, a4, a5, a6, a7, a8, a9, a10>>
      BY DEF findMigrations, Migration20230903183749
    <3>. HIDE DEF s, a1, a2, a3, a4, a5, a6, a7, a8, a9, a10
    <3>2. s \in Seq({a1, a2, a3, a4, a5, a6, a7, a8, a9, a10}) BY <3>1
    <3>. QED BY <3>2
  <2>2. Len(s) = 10 /\ s[1] = Truncate(KEY) /\ s[2] = Truncate(OPERATOR) /\ s[3] = Truncate(META)
    BY DEF findMigrations, Migration20230903183749
  <2>. HIDE DEF s
  <2>3. PICK f : Traces(f, {Db(E, r)}, s) /\ Execute(Db(E, r), s) = f[Len(s)]
    BY <2>1, Executed
  <2>4. f[0] = {Layout(C, K, R0)} BY <2>3 DEF Traces, Db
  <2>5. DOMAIN C = TablesOf(E) /\ DOMAIN K = TablesOf(E) /\ DOMAIN R0 = TablesOf(E)
    BY SchemaDomains
  <2>. HIDE DEF C, K, R0, R1, R2
  <2>6. /\ f[1] = After(f[0], Truncate(KEY)) /\ f[2] = After(f[1], Truncate(OPERATOR))
        /\ f[3] = After(f[2], Truncate(META))
    <3>1. /\ 1 \in 1..Len(s) /\ 2 \in 1..Len(s) /\ 3 \in 1..Len(s)
          /\ 1 - 1 = 0 /\ 2 - 1 = 1 /\ 3 - 1 = 2
      BY <2>2
    <3>2. f[1] = After(f[0], s[1]) BY <2>3, <3>1, Stepwise
    <3>3. f[2] = After(f[1], s[2]) BY <2>3, <3>1, Stepwise
    <3>4. f[3] = After(f[2], s[3]) BY <2>3, <3>1, Stepwise
    <3>. QED BY <2>2, <3>2, <3>3, <3>4, Zenon
  <2>7. f[1] = {} \/ f[3] = {}
    <3>1. CASE 1 \notin E
      <4>1. KEY \notin DOMAIN C BY <2>5, <3>1 DEF TablesOf
      <4>2. After({Layout(C, K, R0)}, Truncate(KEY)) = {} BY <2>5, <4>1, Missing
      <4>. QED BY <2>4, <2>6, <4>2
    <3>2. CASE 1 \in E
      <4>1. 2 \in E BY <1>2, <3>2
      <4>2. /\ DOMAIN C = {KEY, OPERATOR, EL_META, MODULES} /\ DOMAIN K = DOMAIN C
            /\ DOMAIN R0 = DOMAIN C
        BY <2>5, <4>1, FourTables
      <4>3. DOMAIN R1 = DOMAIN C BY <4>2 DEF R1, With
      <4>4. DOMAIN R2 = DOMAIN C BY <4>2, <4>3 DEF R2, With
      <4>5. After({Layout(C, K, R0)}, Truncate(KEY)) = {Layout(C, K, R1)}
        BY <4>2, Empties DEF R1
      <4>6. After({Layout(C, K, R1)}, Truncate(OPERATOR)) = {Layout(C, K, R2)}
        BY <4>2, <4>3, Empties DEF R2
      <4>7. After({Layout(C, K, R2)}, Truncate(META)) = {}
        BY <4>2, <4>4, Missing, TablesApart
      <4>. QED BY <2>4, <2>6, <4>5, <4>6, <4>7, Zenon
    <3>. QED BY <3>1, <3>2
  <2>8. Len(s) \in Nat /\ 1 \in 0..Len(s) /\ 3 \in 0..Len(s) BY <2>2
  <2>9. f[Len(s)] = {} BY <2>3, <2>7, <2>8, NothingLeft
  <2>. QED BY <1>2, <2>3, <2>9 DEF s
<1>. QED BY <1>1, <1>2

-----------------------------------------------------------------------------
(* All migrations, up and down *)

\* What a migration does to the schema of closed versions: it can be run when it
\* is not recorded and those it rests on are.
LEMMA UpStep ==
    ASSUME NEW E, Closed(E), NEW r, NEW v \in 1..7
    PROVE  \E q \in {Empty, r} :
             Execute(Db(E, r), findMigrations[v].up) =
               IF v \notin E /\ Closed(E \cup {v}) THEN {Db(E \cup {v}, q)} ELSE {}
<1>0. v \in {1, 2, 3, 4, 5, 6, 7} OBVIOUS
<1>1. /\ v = 1 => Closed(E \cup {v})
      /\ v = 2 => (Closed(E \cup {v}) <=> 1 \in E)
      /\ v > 2 => (Closed(E \cup {v}) <=> 2 \in E)
  BY SevenMigrations DEF Closed
<1>2. CASE v = 1 BY <1>1, <1>2, Up1
<1>3. CASE v = 2 BY <1>1, <1>3, Up2
<1>4. CASE v = 3 BY <1>1, <1>4, Up3
<1>5. CASE v = 4 BY <1>1, <1>5, Up4
<1>6. CASE v \in {5, 6, 7}
  <2>1. Closed(E \cup {v}) <=> 2 \in E BY <1>1, <1>6
  <2>2. Execute(Db(E, r), findMigrations[v].up) =
          IF 2 \in E /\ v \notin E THEN {Db(E \cup {v}, Empty)} ELSE {}
    BY <1>6, UpOneMore
  <2>. QED BY <2>1, <2>2
<1>. QED BY <1>0, <1>2, <1>3, <1>4, <1>5, <1>6

\* The last of the migrations can always be taken back.
LEMMA DownStep ==
    ASSUME NEW E, Closed(E), NEW r, NEW v \in E, \A w \in E : w <= v
    PROVE  /\ Closed(E \ {v})
           /\ \E q \in {Empty, r} : RunDown(Db(E, r), v) = {Db(E \ {v}, q)}
<1>0. v \in {1, 2, 3, 4, 5, 6, 7} /\ E \subseteq 1..7 BY SevenMigrations DEF Closed
<1>1. Closed(E \ {v})
  BY <1>0 DEF Closed
<1>2. CASE v = 1
  <2>1. \A w \in E : w = 1 BY <1>0, <1>2
  <2>2. E = {1} BY <1>2, <2>1
  <2>3. E \ {v} = {} BY <1>2, <2>2
  <2>. QED BY <1>1, <1>2, <2>2, <2>3, Down1 DEF RunDown
<1>3. CASE v = 2
  <2>1. \A w \in E : w = 1 \/ w = 2 BY <1>0, <1>3
  <2>2. 1 \in E BY <1>3 DEF Closed
  <2>3. E = {1, 2} BY <1>3, <2>1, <2>2
  <2>4. E \ {v} = {1} BY <1>3, <2>3
  <2>. QED BY <1>1, <1>3, <2>3, <2>4, Down2 DEF RunDown
<1>4. CASE v = 3 BY <1>1, <1>4, Down3 DEF RunDown
<1>5. CASE v = 4 BY <1>1, <1>5, Down4 DEF RunDown
<1>6. CASE v \in {5, 6, 7} BY <1>1, <1>6, DownOneMore DEF RunDown
<1>. QED BY <1>0, <1>2, <1>3, <1>4, <1>5, <1>6

\* The versions recorded after the pending ones up to v.
UpTo(E, P, v) == E \cup (P \cap (1..v))

\* Whatever was pending: if the migrations succeed, the result is the database
\* of what is recorded then.
Reached(f, E, P, r, v) ==
    \A d \in f[v] : Closed(UpTo(E, P, v)) /\ \E q \in {Empty, r} : d = Db(UpTo(E, P, v), q)

\* One version of RunUp keeps Reached.
LEMMA ReachesStep ==
    ASSUME NEW E, NEW P, NEW r, NEW f, Runs(f, Db(E, r), P), NEW v \in 1..7,
           Reached(f, E, P, r, v - 1)
    PROVE  Reached(f, E, P, r, v)
<1>. DEFINE A == UpTo(E, P, v - 1)
            B == UpTo(E, P, v)
<1>1. v \notin P => B = A BY DEF UpTo
<1>2. v \in P => B = A \cup {v} BY DEF UpTo
<1>. HIDE DEF A, B
<1>3. SUFFICES ASSUME NEW d \in f[v]
               PROVE  Closed(B) /\ \E q \in {Empty, r} : d = Db(B, q)
  BY DEF Reached, B
<1>4. CASE v \notin P
  <2>1. d \in f[v - 1] BY <1>4 DEF Runs
  <2>. QED BY <1>1, <1>4, <2>1 DEF Reached, A
<1>5. CASE v \in P
  <2>1. f[v] = UNION {Execute(c, findMigrations[v].up) : c \in f[v - 1]} BY <1>5 DEF Runs
  <2>2. PICK c \in f[v - 1] : d \in Execute(c, findMigrations[v].up) BY <2>1
  <2>3. PICK q \in {Empty, r} : Closed(A) /\ c = Db(A, q) BY <2>2 DEF Reached, A
  <2>4. PICK q1 \in {Empty, q} :
          Execute(Db(A, q), findMigrations[v].up) =
            IF v \notin A /\ Closed(A \cup {v}) THEN {Db(A \cup {v}, q1)} ELSE {}
    BY <2>3, UpStep
  <2>5. Closed(B) /\ d = Db(B, q1) BY <1>2, <1>5, <2>2, <2>3, <2>4
  <2>6. q1 \in {Empty, r} BY <2>3, <2>4
  <2>. QED BY <2>5, <2>6
<1>. QED BY <1>4, <1>5

\* The pending migrations that can be run leave a database.
LEMMA SurvivesStep ==
    ASSUME NEW E, NEW P, NEW r, NEW f, Runs(f, Db(E, r), P), NEW v \in 1..7,
           Reached(f, E, P, r, v - 1), f[v - 1] # {},
           v \in P => v \notin E /\ Closed(UpTo(E, P, v))
    PROVE  f[v] # {}
<1>. DEFINE A == UpTo(E, P, v - 1)
            B == UpTo(E, P, v)
<1>1. v \in P => B = A \cup {v} /\ v \notin A BY DEF UpTo
<1>. HIDE DEF A, B
<1>2. CASE v \notin P BY <1>2 DEF Runs
<1>3. CASE v \in P
  <2>1. f[v] = UNION {Execute(c, findMigrations[v].up) : c \in f[v - 1]} BY <1>3 DEF Runs
  <2>2. PICK c : c \in f[v - 1] OBVIOUS
  <2>3. PICK q \in {Empty, r} : Closed(A) /\ c = Db(A, q) BY <2>2 DEF Reached, A
  <2>4. PICK q1 \in {Empty, q} :
          Execute(Db(A, q), findMigrations[v].up) =
            IF v \notin A /\ Closed(A \cup {v}) THEN {Db(A \cup {v}, q1)} ELSE {}
    BY <2>3, UpStep
  <2>5. Closed(A \cup {v}) /\ v \notin A BY <1>1, <1>3 DEF B
  <2>6. Db(A \cup {v}, q1) \in Execute(c, findMigrations[v].up) BY <2>3, <2>4, <2>5
  <2>. QED BY <2>1, <2>2, <2>6
<1>. QED BY <1>2, <1>3

\* Nothing is recorded before the first version, everything after the last.
LEMMA FirstAndLast ==
    ASSUME NEW E, NEW P, P \subseteq 1..7
    PROVE  UpTo(E, P, 0) = E /\ UpTo(E, P, 7) = E \cup P
<1>1. 1..0 = {} OBVIOUS
<1>2. P \cap (1..0) = {} BY <1>1
<1>3. P \cap (1..7) = P OBVIOUS
<1>. QED BY <1>2, <1>3 DEF UpTo

\* All versions of RunUp keep Reached.
LEMMA ReachesAll ==
    ASSUME NEW E, Closed(E), NEW r, NEW P, P \subseteq 1..7, NEW f, Runs(f, Db(E, r), P)
    PROVE  /\ Reached(f, E, P, r, 0) /\ Reached(f, E, P, r, 1) /\ Reached(f, E, P, r, 2)
           /\ Reached(f, E, P, r, 3) /\ Reached(f, E, P, r, 4) /\ Reached(f, E, P, r, 5)
           /\ Reached(f, E, P, r, 6) /\ Reached(f, E, P, r, 7)
<1>1. Reached(f, E, P, r, 0) BY FirstAndLast DEF Reached, Runs
<1>2. \A v \in 1..7 : Reached(f, E, P, r, v - 1) => Reached(f, E, P, r, v) BY ReachesStep
<1>3. Reached(f, E, P, r, 1) BY <1>1, <1>2
<1>4. Reached(f, E, P, r, 2) BY <1>3, <1>2
<1>5. Reached(f, E, P, r, 3) BY <1>4, <1>2
<1>6. Reached(f, E, P, r, 4) BY <1>5, <1>2
<1>7. Reached(f, E, P, r, 5) BY <1>6, <1>2
<1>8. Reached(f, E, P, r, 6) BY <1>7, <1>2
<1>9. Reached(f, E, P, r, 7) BY <1>8, <1>2
<1>. QED BY <1>1, <1>3, <1>4, <1>5, <1>6, <1>7, <1>8, <1>9

IsDb(d, F, r) == Closed(F) /\ \E q \in {Empty, r} : d = Db(F, q)

\* What RunUp leaves is the database of what is recorded then.
LEMMA RunUpReaches ==
    ASSUME NEW E, Closed(E), NEW r, NEW P, P \subseteq 1..7, NEW d, d \in RunUp(Db(E, r), P)
    PROVE  IsDb(d, E \cup P, r)
<1>1. PICK f : Runs(f, Db(E, r), P) /\ RunUp(Db(E, r), P) = f[7] BY RanUp, Zenon
<1>2. Reached(f, E, P, r, 7) BY <1>1, ReachesAll
<1>3. UpTo(E, P, 7) = E \cup P BY FirstAndLast
<1>. QED BY <1>1, <1>2, <1>3, Zenon DEF Reached, IsDb

\* RunUp of migrations that rest on what is recorded before each of them.
LEMMA RunUpSucceeds ==
    ASSUME NEW E, Closed(E), NEW r, NEW P, P \subseteq 1..7,
           \A v \in P : v \notin E /\ Closed(UpTo(E, P, v))
    PROVE  RunUp(Db(E, r), P) # {}
<1>1. PICK f : Runs(f, Db(E, r), P) /\ RunUp(Db(E, r), P) = f[7] BY RanUp, Zenon
<1>2. /\ Reached(f, E, P, r, 0) /\ Reached(f, E, P, r, 1) /\ Reached(f, E, P, r, 2)
      /\ Reached(f, E, P, r, 3) /\ Reached(f, E, P, r, 4) /\ Reached(f, E, P, r, 5)
      /\ Reached(f, E, P, r, 6)
  BY <1>1, ReachesAll
<1>3. f[0] # {} BY <1>1 DEF Runs
<1>4. \A v \in 1..7 : Reached(f, E, P, r, v - 1) /\ f[v - 1] # {} => f[v] # {}
  BY <1>1, SurvivesStep
<1>5. f[1] # {} BY <1>2, <1>3, <1>4
<1>6. f[2] # {} BY <1>2, <1>4, <1>5
<1>7. f[3] # {} BY <1>2, <1>4, <1>6
<1>8. f[4] # {} BY <1>2, <1>4, <1>7
<1>9. f[5] # {} BY <1>2, <1>4, <1>8
<1>10. f[6] # {} BY <1>2, <1>4, <1>9
<1>11. f[7] # {} BY <1>2, <1>4, <1>10
<1>. QED BY <1>1, <1>11

\* The database before all migrations.
LEMMA EmptySchema == NoTables = Db({}, Empty) /\ Closed({})
<1>1. TablesOf({}) = {} BY DEF TablesOf
<1>2. DOMAIN SchemaColumns({}) = {} BY <1>1, SchemaDomains
<1>3. NoTables = Db({}, Empty) BY <1>2 DEF NoTables, Db, Layout
<1>. QED BY <1>3 DEF Closed

\* What a set of migrations builds from nothing.
LEMMA BuiltIs ==
    ASSUME NEW E, E \subseteq 1..7
    PROVE  /\ \A d \in Built[E] : Closed(E) /\ d = Db(E, Empty)
           /\ Closed(E) => Built[E] = {Db(E, Empty)}
<1>1. Built[E] = RunUp(NoTables, E) BY SevenMigrations DEF Built
<1>2. Closed({}) /\ Built[E] = RunUp(Db({}, Empty), E) BY <1>1, EmptySchema
<1>3. {} \cup E = E /\ \A v : UpTo({}, E, v) = E \cap (1..v) BY DEF UpTo
<1>4. \A d \in Built[E] : Closed(E) /\ d = Db(E, Empty)
  <2>1. SUFFICES ASSUME NEW d \in RunUp(Db({}, Empty), E)
                 PROVE  Closed(E) /\ d = Db(E, Empty)
    BY <1>2
  <2>2. IsDb(d, {} \cup E, Empty) BY <1>2, <2>1, RunUpReaches
  <2>. QED BY <1>3, <2>2 DEF IsDb
<1>5. ASSUME Closed(E) PROVE Built[E] = {Db(E, Empty)}
  <2>1. ASSUME NEW v \in E PROVE v \notin {} /\ Closed(UpTo({}, E, v))
    <3>1. E \cap (1..v) \subseteq E OBVIOUS
    <3>2. \A w \in E \cap (1..v) : w <= v /\ w \in 1..7 OBVIOUS
    <3>3. \A w \in E \cap (1..v) : w > 2 => 2 \in E \cap (1..v)
      BY <1>5, <3>2 DEF Closed
    <3>4. 2 \in E \cap (1..v) => 1 \in E \cap (1..v) BY <1>5, <3>2 DEF Closed
    <3>5. Closed(E \cap (1..v)) BY SevenMigrations, <3>1, <3>3, <3>4 DEF Closed
    <3>. QED BY <1>3, <3>5
  <2>2. Built[E] # {} BY <1>2, <2>1, RunUpSucceeds, Zenon
  <2>. QED BY <1>4, <2>2
<1>. QED BY <1>4, <1>5

\* What no release has run yet can be run.
LEMMA PendingRuns ==
    ASSUME NEW E, Closed(E), NEW r, NEW k \in 1..7
    PROVE  RunUp(Db(E, r), (1..k) \ E) # {}
<1>. DEFINE P == (1..k) \ E
<1>1. P \subseteq 1..7 OBVIOUS
<1>2. ASSUME NEW v \in P PROVE v \notin E /\ Closed(UpTo(E, P, v))
  <2>1. UpTo(E, P, v) = E \cup (1..v) BY DEF UpTo
  <2>2. v \in 1..7 OBVIOUS
  <2>3. E \cup (1..v) \subseteq 1..7 BY <2>2, SevenMigrations DEF Closed
  <2>4. 1 \in E \cup (1..v) BY <2>2
  <2>5. \A w \in E \cup (1..v) : w > 2 => 2 \in E \cup (1..v) BY <2>2 DEF Closed
  <2>6. Closed(E \cup (1..v)) BY <2>3, <2>4, <2>5, SevenMigrations DEF Closed
  <2>. QED BY <2>1, <2>6
<1>. HIDE DEF P
<1>3. RunUp(Db(E, r), P) # {} BY <1>1, <1>2, RunUpSucceeds, Zenon
<1>. QED BY <1>3 DEF P

-----------------------------------------------------------------------------
(* The database and the processes *)

\* The tables of the database of a set of migrations.
LEMMA DbEntries ==
    ASSUME NEW E, NEW r
    PROVE  /\ DOMAIN Db(E, r) = TablesOf(E)
           /\ \A t \in TablesOf(E) : /\ Db(E, r)[t] = Table(ColumnsOf(E, t), KeyOf(E, t), r)
                                     /\ Db(E, r)[t].columns = ColumnsOf(E, t)
                                     /\ Db(E, r)[t].key = KeyOf(E, t)
                                     /\ Db(E, r)[t].rows = r
<1>. DEFINE C == SchemaColumns(E)
            K == SchemaKeys(E)
            R == Uniform(E, r)
<1>1. DOMAIN C = TablesOf(E) BY SchemaDomains
<1>2. \A t \in TablesOf(E) : C[t] = ColumnsOf(E, t) /\ K[t] = KeyOf(E, t) /\ R[t] = r
  BY DEF SchemaColumns, SchemaKeys, Uniform
<1>. HIDE DEF C, K, R
<1>3. DOMAIN Layout(C, K, R) = TablesOf(E) BY <1>1, LayoutEntries
<1>4. \A t \in TablesOf(E) : Layout(C, K, R)[t] = Table(ColumnsOf(E, t), KeyOf(E, t), r)
  BY <1>1, <1>2, LayoutEntries
<1>5. Layout(C, K, R) = Db(E, r) BY DEF Db, C, K, R
<1>. QED BY <1>3, <1>4, <1>5, Fields

\* The rows of a round in all tables.
LEMMA StoredIs ==
    ASSUME NEW E, NEW r, NEW n
    PROVE  [t \in DOMAIN Db(E, r) |-> [Db(E, r)[t] EXCEPT !.rows = n]] = Db(E, n)
<1>. DEFINE C == SchemaColumns(E)
            K == SchemaKeys(E)
<1>1. \A t \in TablesOf(E) : [Db(E, r)[t] EXCEPT !.rows = n] = Table(ColumnsOf(E, t), KeyOf(E, t), n)
  BY DbEntries, Fields
<1>2. Db(E, n) = [t \in TablesOf(E) |-> Table(ColumnsOf(E, t), KeyOf(E, t), n)]
  <2>1. \A t \in TablesOf(E) : C[t] = ColumnsOf(E, t) /\ K[t] = KeyOf(E, t) /\ Uniform(E, n)[t] = n
    BY DEF SchemaColumns, SchemaKeys, Uniform
  <2>2. DOMAIN C = TablesOf(E) BY SchemaDomains
  <2>. HIDE DEF C, K
  <2>3. Layout(C, K, Uniform(E, n)) = [t \in TablesOf(E) |-> Table(ColumnsOf(E, t), KeyOf(E, t), n)]
    BY <2>1, <2>2 DEF Layout
  <2>. QED BY <2>3 DEF Db, C, K
<1>3. DOMAIN Db(E, r) = TablesOf(E) BY DbEntries
<1>. QED BY <1>1, <1>2, <1>3

\* Keys are made of columns.
LEMMA KeysOfColumns ==
    ASSUME NEW E, NEW t \in TablesOf(E)
    PROVE  KeyOf(E, t) \subseteq ColumnsOf(E, t)
<1>1. t \in {KEY, OPERATOR, META, EL_META, MODULES} BY DEF TablesOf
<1>. QED BY <1>1, TablesApart DEF KeyOf, ColumnsOf, Added

\* The recorded migrations are closed under what they rest on, and the database
\* is theirs, with the rows of one round or none.
DatabaseOK ==
    /\ Closed(executed)
    /\ snapshots \in 1..MaxSnapshots /\ downs \in 0..MaxDowns
    /\ \E rows \in 0..snapshots : tables = Db(executed, rows)

JobStates == {"none", "keys first", "validators first", "done"}

\* What TypeOK says of the processes.
ProcessesOK ==
    /\ phase \in [Processes -> Phases]
    /\ enabled \in [Processes -> BOOLEAN]
    /\ env = [p \in Processes |-> env[p]]
    /\ pending = [p \in Processes |-> pending[p]]
    /\ job \in [Processes -> JobStates]
    /\ intervals \in [Processes -> SUBSET Jobs]
    /\ \A p \in Processes :
         /\ env[p] # NoEnv <=> phase[p] = "loaded"
         /\ pending[p] \subseteq Known(p) /\ (pending[p] # {} => phase[p] = "migrating")
         /\ job[p] # "none" => Running(p)

\* The database a release left.
LEMMA DatabaseInit == Init => DatabaseOK
<1>. SUFFICES ASSUME Init PROVE DatabaseOK OBVIOUS
<1>1. PICK v \in 0..7 :
        /\ executed = 1..v
        /\ \E db \in Built[1..v] : tables \in {db, [t \in DOMAIN db |-> [db[t] EXCEPT !.rows = 1]]}
  BY SevenMigrations DEF Init
<1>2. Closed(1..v) BY SevenMigrations DEF Closed
<1>3. Built[1..v] = {Db(1..v, Empty)}
  <2>1. 1..v \subseteq 1..7 OBVIOUS
  <2>. QED BY <1>2, <2>1, BuiltIs
<1>4. tables \in {Db(1..v, Empty), Db(1..v, 1)} BY <1>1, <1>3, StoredIs
<1>5. snapshots = 1 /\ downs = 0 BY DEF Init
<1>6. snapshots \in 1..MaxSnapshots /\ downs \in 0..MaxDowns BY <1>5, DeploymentAssumption
<1>7. Empty \in 0..1 /\ 1 \in 0..1 BY DEF Empty
<1>. QED BY <1>1, <1>2, <1>4, <1>5, <1>6, <1>7 DEF DatabaseOK

\* All processes are off.
LEMMA ProcessesInit == Init => ProcessesOK
BY DEF Init, ProcessesOK, Phases, JobStates, Jobs, Running

\* The environment of nothing is refused: CHAIN_ID has no default.
LEMMA NothingIsRefused == validate(NoEnv) = {}
<1>. DEFINE c == plainToInstance(NoEnv)
<1>1. "CHAIN_ID" \in Variables /\ "CHAIN_ID" \in DOMAIN NumberRule BY DEF Variables, NumberRule
<1>2. "CHAIN_ID" \notin DOMAIN NoEnv BY DEF NoEnv
<1>3. c["CHAIN_ID"] = Default("CHAIN_ID") BY <1>1, <1>2 DEF plainToInstance
<1>4. Default("CHAIN_ID") = {}
  <2>1. Default("CHAIN_ID") = NumberRule["CHAIN_ID"].default BY <1>1, Zenon DEF Default
  <2>. QED BY <2>1 DEF NumberRule
<1>5. ~IsNumber("CHAIN_ID", c["CHAIN_ID"]) BY <1>3, <1>4 DEF IsNumber
<1>6. HasErrors(c) BY <1>1, <1>5, Zenon DEF HasErrors
<1>. QED BY <1>6 DEF validate

\* A process that ends keeps what TypeOK says.
LEMMA StoppedOK ==
    ASSUME ProcessesOK, NEW p \in Processes, Stopped(p)
    PROVE  ProcessesOK'
BY DEF ProcessesOK, Phases, JobStates, Stopped, Running

\* No step of a process or of the operator breaks what TypeOK says of processes.
LEMMA ProcessesStep ==
    ASSUME ProcessesOK, [Next]_vars
    PROVE  ProcessesOK'
<1>. USE DEF ProcessesOK, Phases, JobStates
<1>1. CASE UNCHANGED vars BY <1>1 DEF vars, process, Running
<1>2. CASE Down BY <1>2 DEF Down, process, Running
<1>3. ASSUME NEW p \in Processes, ProcessStep(p) PROVE ProcessesOK'
  <2>1. CASE Start(p)
    <3>1. PICK e \in Loads[p] :
            /\ env' = [env EXCEPT ![p] = e]
            /\ enabled' = [enabled EXCEPT ![p] =
                             \E c \in validate(e) : TRUE \in c.VALIDATOR_REGISTRY_ENABLE]
      BY <2>1 DEF Start
    <3>2. e # NoEnv BY <3>1, NothingIsRefused DEF Loads
    <3>3. enabled' \in [Processes -> BOOLEAN] BY <3>1
    <3>. QED BY <2>1, <3>1, <3>2, <3>3 DEF Start, Running
  <2>2. CASE CreateApp(p)
    <3>1. CASE Stopped(p) BY <3>1, StoppedOK
    <3>2. CASE ~Stopped(p)
      <4>1. /\ phase[p] = "loaded" /\ phase' = [phase EXCEPT ![p] = "created"]
            /\ env' = [env EXCEPT ![p] = NoEnv]
            /\ UNCHANGED <<enabled, pending, job, intervals>>
        BY <2>2, <3>2, Zenon DEF CreateApp
      <4>. QED BY <4>1 DEF Running
    <3>. QED BY <3>1, <3>2
  <2>3. CASE ReadPending(p)
    <3>1. Pending(p) \subseteq Known(p) BY DEF Pending
    <3>. QED BY <2>3, <3>1 DEF ReadPending, Running
  <2>4. CASE RunPending(p)
    <3>1. CASE Stopped(p) BY <3>1, StoppedOK
    <3>2. CASE ~Stopped(p)
      <4>1. /\ phase[p] = "migrating" /\ phase' = [phase EXCEPT ![p] = "migrated"]
            /\ pending' = [pending EXCEPT ![p] = {}]
            /\ UNCHANGED <<env, enabled, job, intervals>>
        BY <2>4, <3>2, Zenon DEF RunPending
      <4>. QED BY <4>1 DEF Running
    <3>. QED BY <3>1, <3>2
  <2>5. CASE InitJobs(p) BY <2>5 DEF InitJobs, Running
  <2>6. CASE Listen(p) BY <2>6 DEF Listen, Running
  <2>7. CASE FirstRoundEnds(p)
    <3>1. /\ Running(p) /\ UNCHANGED <<phase, env, enabled, pending>>
          /\ \E j \in Jobs : intervals' = [intervals EXCEPT ![p] = @ \cup {j}]
          /\ \E s \in JobStates : job' = [job EXCEPT ![p] = s]
      BY <2>7 DEF FirstRoundEnds, Jobs
    <3>2. job' \in [Processes -> JobStates] /\ \A q \in Processes \ {p} : job'[q] = job[q]
      BY <3>1
    <3>3. intervals' \in [Processes -> SUBSET Jobs]
      <4>1. PICK j \in Jobs : intervals' = [intervals EXCEPT ![p] = @ \cup {j}] BY <3>1
      <4>2. intervals[p] \cup {j} \in SUBSET Jobs OBVIOUS
      <4>. QED BY <4>1, <4>2, Zenon
    <3>4. \A q \in Processes : Running(q)' <=> Running(q) BY <3>1 DEF Running
    <3>. QED BY <3>1, <3>2, <3>3, <3>4
  <2>8. CASE KeysRound(p) BY <2>8 DEF KeysRound, process, Running
  <2>9. CASE Shutdown(p) BY <2>9 DEF Shutdown, Running, Uncleared
  <2>10. CASE UncaughtException(p) BY <2>10 DEF UncaughtException, Running
  <2>11. CASE Exit(p) BY <2>11 DEF Exit, Stopped, Running
  <2>. QED BY <1>3, <2>1, <2>2, <2>3, <2>4, <2>5, <2>6, <2>7, <2>8, <2>9, <2>10, <2>11
         DEF ProcessStep
<1>. QED BY <1>1, <1>2, <1>3 DEF Next

\* Only Down, RunPending and KeysRound change the database; each leaves one of the
\* kind.
LEMMA DatabaseStep ==
    ASSUME ProcessesOK, DatabaseOK, [Next]_vars
    PROVE  DatabaseOK'
<1>1. PICK rows \in 0..snapshots : tables = Db(executed, rows) BY DEF DatabaseOK
<1>2. CASE UNCHANGED database BY <1>2 DEF DatabaseOK, database
<1>3. CASE Down
  <2>1. PICK last \in executed :
          /\ \A v \in executed : v <= last
          /\ tables' \in RunDown(tables, last)
          /\ executed' = executed \ {last}
    BY <1>3 DEF Down
  <2>2. /\ Closed(executed \ {last})
        /\ \E q \in {Empty, rows} : RunDown(tables, last) = {Db(executed \ {last}, q)}
    BY <1>1, <2>1, DownStep DEF DatabaseOK
  <2>3. PICK q \in {Empty, rows} : tables' = Db(executed', q) BY <2>1, <2>2
  <2>4. q \in 0..snapshots BY <1>1, <2>3 DEF Empty, DatabaseOK
  <2>5. snapshots' = snapshots /\ downs' \in 0..MaxDowns
    BY <1>3, DeploymentAssumption DEF Down, DatabaseOK
  <2>. QED BY <2>1, <2>2, <2>3, <2>4, <2>5 DEF DatabaseOK
<1>4. ASSUME NEW p \in Processes, RunPending(p), ~UNCHANGED database PROVE DatabaseOK'
  <2>1. /\ tables' \in RunUp(tables, pending[p])
        /\ executed' = executed \cup pending[p]
        /\ snapshots' = snapshots /\ downs' = downs
    BY <1>4 DEF RunPending
  <2>2. pending[p] \subseteq 1..7
    BY DeploymentAssumption, SevenMigrations DEF ProcessesOK, Known
  <2>3. IsDb(tables', executed \cup pending[p], rows)
    BY <1>1, <2>1, <2>2, RunUpReaches DEF DatabaseOK
  <2>4. PICK q \in {Empty, rows} : tables' = Db(executed', q) BY <2>1, <2>3 DEF IsDb
  <2>5. q \in 0..snapshots BY <1>1, <2>4 DEF Empty, DatabaseOK
  <2>. QED BY <2>1, <2>3, <2>4, <2>5 DEF DatabaseOK, IsDb
<1>5. ASSUME NEW p \in Processes, KeysRound(p) PROVE DatabaseOK'
  <2>1. /\ snapshots' = snapshots + 1 /\ snapshots < MaxSnapshots
        /\ tables' = [t \in DOMAIN tables |-> [tables[t] EXCEPT !.rows = snapshots']]
        /\ executed' = executed /\ downs' = downs
    BY <1>5 DEF KeysRound, Stored
  <2>2. tables' = Db(executed, snapshots') BY <1>1, <2>1, StoredIs
  <2>3. snapshots' \in 1..MaxSnapshots /\ snapshots' \in 0..snapshots'
    BY <2>1, DeploymentAssumption DEF DatabaseOK
  <2>. QED BY <2>1, <2>2, <2>3 DEF DatabaseOK
<1>6. ASSUME NEW p \in Processes, ProcessStep(p), ~RunPending(p), ~KeysRound(p)
      PROVE  UNCHANGED database
  BY <1>6 DEF ProcessStep, Start, CreateApp, ReadPending, InitJobs, Listen, FirstRoundEnds,
              Shutdown, UncaughtException, Exit
<1>. QED BY <1>2, <1>3, <1>4, <1>5, <1>6 DEF Next, vars

\* The inductive invariant.
LEMMA DeploymentInvariant == Spec => [](DatabaseOK /\ ProcessesOK)
<1>1. Init => DatabaseOK /\ ProcessesOK BY DatabaseInit, ProcessesInit
<1>2. DatabaseOK /\ ProcessesOK /\ [Next]_vars => (DatabaseOK /\ ProcessesOK)'
  BY DatabaseStep, ProcessesStep
<1>. QED BY <1>1, <1>2, PTL DEF Spec

-----------------------------------------------------------------------------
(* The database's theorems *)

\* What the processes remember fits where they are, and the tables hold keys
\* made of their columns and rows of rounds that have ended, for any number of
\* processes, of any releases (Deployment, all actions).
THEOREM TypeCorrect == Spec => []TypeOK
<1>1. DatabaseOK /\ ProcessesOK => TypeOK
  <2>. SUFFICES ASSUME DatabaseOK, ProcessesOK PROVE TypeOK OBVIOUS
  <2>1. /\ executed \subseteq Versions
        /\ snapshots \in 1..MaxSnapshots /\ downs \in 0..MaxDowns
    BY DEF DatabaseOK, Closed
  <2>2. \A t \in DOMAIN tables : /\ tables[t].key \subseteq tables[t].columns
                                 /\ tables[t].rows \in 0..snapshots
    BY DbEntries, KeysOfColumns DEF DatabaseOK
  <2>. QED BY <2>1, <2>2 DEF ProcessesOK, TypeOK, Phases, JobStates
<1>. QED BY <1>1, DeploymentInvariant, PTL

\* With all migrations recorded the tables are those of the entities.
LEMMA LastSchema ==
    ASSUME NEW r
    PROVE  /\ DOMAIN Db(1..7, r) = DOMAIN Entities
           /\ \A t \in DOMAIN Entities : /\ Db(1..7, r)[t].columns = Entities[t].columns
                                         /\ Db(1..7, r)[t].key = Entities[t].key
<1>. DEFINE A == 1..7
<1>1. /\ 1 \in A /\ 2 \in A /\ 3 \in A /\ 4 \in A /\ 5 \in A /\ 6 \in A /\ 7 \in A
  OBVIOUS
<1>. HIDE DEF A
<1>2. TablesOf(A) = {KEY, OPERATOR, EL_META, MODULES} BY <1>1 DEF TablesOf
<1>3. DOMAIN Entities = {KEY, OPERATOR, EL_META, MODULES}
  BY DEF Entities, KEY, OPERATOR, EL_META, MODULES
<1>4. ColumnsOf(A, KEY) = Entities[KEY].columns /\ KeyOf(A, KEY) = Entities[KEY].key
  <2>1. /\ Entities[KEY].columns = {"index", "operator_index", "key", "deposit_signature",
                                    "used", "module_address", "vetted"}
        /\ Entities[KEY].key = {"index", "operator_index", "module_address"}
    BY DEF Entities, KEY
  <2>. QED BY <1>1, <2>1, TablesApart DEF ColumnsOf, KeyOf, Added
<1>5. ColumnsOf(A, OPERATOR) = Entities[OPERATOR].columns /\ KeyOf(A, OPERATOR) = Entities[OPERATOR].key
  <2>1. /\ Entities[OPERATOR].columns =
             {"index", "active", "name", "reward_address", "staking_limit",
              "stopped_validators", "total_signing_keys", "used_signing_keys",
              "module_address", "finalized_used_signing_keys", "depositable_validators_count"}
        /\ Entities[OPERATOR].key = {"index", "module_address"}
    BY DEF Entities, OPERATOR
  <2>. QED BY <1>1, <2>1, TablesApart DEF ColumnsOf, KeyOf, Added
<1>6. ColumnsOf(A, EL_META) = Entities[EL_META].columns /\ KeyOf(A, EL_META) = Entities[EL_META].key
  <2>1. /\ Entities[EL_META].columns =
             {"block_number", "block_hash", "timestamp", "last_changed_block_hash"}
        /\ Entities[EL_META].key = {"block_number", "block_hash"}
    BY DEF Entities, EL_META
  <2>. QED BY <1>1, <2>1, TablesApart DEF ColumnsOf, KeyOf, Added
<1>7. ColumnsOf(A, MODULES) = Entities[MODULES].columns /\ KeyOf(A, MODULES) = Entities[MODULES].key
  <2>1. /\ Entities[MODULES].columns =
             {"id", "module_id", "staking_module_address", "module_fee", "treasury_fee",
              "target_share", "status", "name", "last_deposit_at", "last_deposit_block",
              "exited_validators_count", "type", "active", "nonce",
              "last_changed_block_hash", "withdrawal_credentials_type"}
        /\ Entities[MODULES].key = {"id"}
    BY DEF Entities, MODULES
  <2>. QED BY <1>1, <2>1, TablesApart DEF ColumnsOf, KeyOf, Added
<1>8. /\ DOMAIN Db(A, r) = TablesOf(A)
      /\ \A t \in TablesOf(A) : /\ Db(A, r)[t].columns = ColumnsOf(A, t)
                                /\ Db(A, r)[t].key = KeyOf(A, t)
  BY DbEntries
<1>9. \A t \in {KEY, OPERATOR, EL_META, MODULES} :
        /\ Db(A, r)[t].columns = Entities[t].columns
        /\ Db(A, r)[t].key = Entities[t].key
  BY <1>2, <1>4, <1>5, <1>6, <1>7, <1>8
<1>. QED BY <1>2, <1>3, <1>8, <1>9 DEF A

\* In whatever order processes of different releases and an operator have run
\* the migrations and taken them back, and whatever the tables held, the schema
\* is the one the recorded migrations build from nothing, and with all of them
\* that of the entities (the seven migrations' up and down, mikro_orm_migrations).
THEOREM SchemaFollowsTheRecord == Spec => []SchemaIsOfVersion
<1>1. DatabaseOK => SchemaIsOfVersion
  <2>. SUFFICES ASSUME DatabaseOK PROVE SchemaIsOfVersion OBVIOUS
  <2>1. PICK rows : tables = Db(executed, rows) BY DEF DatabaseOK
  <2>2. Closed(executed) /\ executed \subseteq 1..7 BY SevenMigrations DEF DatabaseOK, Closed
  <2>3. Built[executed] = {Db(executed, Empty)} BY <2>2, BuiltIs
  <2>4. /\ DOMAIN Db(executed, Empty) = DOMAIN tables
        /\ \A t \in DOMAIN Db(executed, Empty) :
             /\ Db(executed, Empty)[t].columns = tables[t].columns
             /\ Db(executed, Empty)[t].key = tables[t].key
    BY <2>1, DbEntries
  <2>5. \E db \in Built[executed] :
          /\ DOMAIN db = DOMAIN tables
          /\ \A t \in DOMAIN db : db[t].columns = tables[t].columns /\ db[t].key = tables[t].key
    BY <2>3, <2>4
  <2>6. executed = Versions =>
          /\ DOMAIN tables = DOMAIN Entities
          /\ \A t \in DOMAIN Entities : /\ tables[t].columns = Entities[t].columns
                                        /\ tables[t].key = Entities[t].key
    BY <2>1, SevenMigrations, LastSchema
  <2>. QED BY <2>5, <2>6 DEF SchemaIsOfVersion
<1>. QED BY <1>1, DeploymentInvariant, PTL

\* Whatever migrations run between two rounds, up or down, by whom and from which
\* schema: the tables hold the rows of one round, or none (their TRUNCATEs).
THEOREM SnapshotStaysWhole == Spec => []WholeOrEmpty
<1>1. DatabaseOK => WholeOrEmpty BY DbEntries DEF DatabaseOK, WholeOrEmpty
<1>. QED BY <1>1, DeploymentInvariant, PTL

\* A process whose pending migrations nobody else has run in between starts,
\* whatever was recorded, taken back and stored before (Migrator.up, RunPending).
THEOREM MigratesUnlessOvertaken == Spec => []FailsOnlyByRace
<1>1. DatabaseOK => FailsOnlyByRace
  <2>. SUFFICES ASSUME DatabaseOK, NEW p \in Processes, phase[p] = "migrating",
                       pending[p] = Pending(p)
                PROVE  RunUp(tables, pending[p]) # {}
    BY DEF FailsOnlyByRace
  <2>1. PICK rows : tables = Db(executed, rows) BY DEF DatabaseOK
  <2>2. release[p] \in 1..7 BY DeploymentAssumption, SevenMigrations
  <2>3. RunUp(Db(executed, rows), (1..release[p]) \ executed) # {}
    BY <2>2, PendingRuns DEF DatabaseOK
  <2>. QED BY <2>1, <2>3 DEF Pending, Known
<1>. QED BY <1>1, DeploymentInvariant, PTL
=============================================================================
