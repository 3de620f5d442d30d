------------------------------ MODULE Watchdog ------------------------------
(****************************************************************************)
(* The clockwork of an updating job: setInterval, the OneAtTime decorator,  *)
(* wrapJob and the deadline timer that exits the process when "nothing      *)
(* happens".  One module for the two jobs of the service:                   *)
(* KeysUpdateService (src/jobs/keys-update) and ValidatorsUpdateService     *)
(* (src/jobs/validators-update), whose only difference that matters here is *)
(* what a round that found nothing new reports: the first nothing, the      *)
(* second what its db already holds.  Which job it is, is chosen once.      *)
(*                                                                          *)
(* Time goes in ticks of a fraction of the timeout.  Ages and counters stop *)
(* counting where nothing depends on them any more (Old, and the caps of    *)
(* the history variables).                                                  *)
(****************************************************************************)
EXTENDS Integers

CONSTANTS
    Timeout,        \* UPDATE_KEYS_TIMEOUT_MS, UPDATE_VALIDATORS_TIMEOUT_MS
    Interval        \* UPDATE_KEYS_INTERVAL_MS, UPDATE_VALIDATORS_INTERVAL_MS

ASSUME WatchdogAssumption ==
    /\ Timeout \in Nat \ {0}
    /\ Interval \in Nat \ {0}

Jobs      == {"keys", "validators"}
Undefined == -1
Old       == Timeout                \* an age of Timeout or more
Ages      == {Undefined} \cup 0..Old

VARIABLES
    job,            \* which of the two jobs this is
    up,             \* the process runs
    timer,          \* ticks until the timer behind updateDeadlineTimer fires
    orphans,        \* the same for armed timers no handle refers to any more
    interval,       \* ticks until setInterval calls again, once it is set
    isExecuting,    \* OneAtTime's flag
    rounds,         \* calls of the decorated method that are running
    lastTimestamp,  \* age of lastTimestampSec, in memory
    stored,         \* age of the block the db is at
    sinceUpdate,    \* history: ticks since a commit, or since the start
    sinceRound,     \* history: ticks since a round went through, or the start
    sinceOutdated,  \* history: ticks since one that was not found up to date
    sinceStale      \* history: ticks since `stored' was old or undefined

process == <<job, up, timer, orphans, interval, isExecuting, rounds, lastTimestamp>>
history == <<sinceUpdate, sinceRound, sinceOutdated, sinceStale>>
vars    == <<process, stored, history>>

MaxSilence == 2 * Timeout + 1       \* cap of sinceUpdate
Never      == Timeout + 1           \* cap of the other histories
MaxRounds  == 2                     \* cap of rounds, one more than allowed

Least(a, b) == IF a < b THEN a ELSE b

IsStale(age) == age = Undefined \/ age = Old

Init ==
    /\ job \in Jobs
    /\ up = FALSE
    /\ timer = Timeout
    /\ orphans = {}
    /\ interval = Undefined
    /\ isExecuting = FALSE
    /\ rounds = 0
    /\ lastTimestamp = Undefined
    /\ stored \in Ages
    /\ sinceUpdate = 0
    /\ sinceRound = 0
    /\ sinceOutdated = Never
    /\ sinceStale = IF IsStale(stored) THEN 0 ELSE Never

-----------------------------------------------------------------------------
(* The process. *)

(* Mutant of Start: the deadline timer is armed after the first round only. *)
StartUnguarded ==
    /\ ~up
    /\ up' = TRUE
    /\ timer' = Undefined
    /\ isExecuting' = TRUE
    /\ rounds' = 1
    /\ sinceUpdate' = 0
    /\ sinceRound' = 0
    /\ UNCHANGED <<job, orphans, interval, lastTimestamp, stored, sinceOutdated,
                   sinceStale>>

(* initialize: arm the timer, then the first round, which it awaits. *)
Start ==
    /\ ~up
    /\ up' = TRUE
    /\ timer' = Timeout
    /\ isExecuting' = TRUE
    /\ rounds' = 1
    /\ sinceUpdate' = 0
    /\ sinceRound' = 0
    /\ UNCHANGED <<job, orphans, interval, lastTimestamp, stored, sinceOutdated,
                   sinceStale>>

(* The process is gone, with everything it had in memory. *)
Stop ==
    /\ up' = FALSE
    /\ timer' = Timeout
    /\ orphans' = {}
    /\ interval' = Undefined
    /\ isExecuting' = FALSE
    /\ rounds' = 0
    /\ lastTimestamp' = Undefined
    /\ sinceOutdated' = Never
    /\ UNCHANGED <<job, stored, sinceUpdate, sinceRound, sinceStale>>

(* A timer fires, the current one or a forgotten one: process.exit(1). *)
Exit ==
    /\ up
    /\ timer = 0 \/ 0 \in orphans
    /\ Stop

(* Killed for any other reason, the other job's exit included. *)
Crash ==
    /\ up
    /\ Stop

-----------------------------------------------------------------------------
(* Rounds. *)

(* setInterval calls the method; OneAtTime turns it away while one runs. *)
IntervalFires ==
    /\ up
    /\ interval = 0
    /\ interval' = Interval
    /\ isExecuting' = TRUE
    /\ rounds' = IF isExecuting THEN rounds ELSE Least(rounds + 1, MaxRounds)
    /\ UNCHANGED <<job, up, timer, orphans, lastTimestamp, stored, history>>

(* A call returns: `finally' releases the flag, and after the first one     *)
(* initialize goes on to set the interval.                                  *)
LeaveRound ==
    /\ up
    /\ rounds > 0
    /\ rounds' = rounds - 1
    /\ isExecuting' = FALSE
    /\ interval' = IF interval = Undefined THEN Interval ELSE interval
    /\ UNCHANGED <<job, up>>

IsUpdated(age) == age # Undefined /\ age < Timeout

(* Mutants of CheckTimeout: the old timer is never cleared; always cleared. *)
CheckTimeoutNoClear(age) ==
    /\ orphans' = orphans \cup {timer}
    /\ timer' = Timeout
    /\ sinceRound' = 0
    /\ sinceOutdated' = IF IsUpdated(age) THEN sinceOutdated ELSE 0

CheckTimeoutAlwaysClear(age) ==
    /\ orphans' = orphans
    /\ timer' = Timeout
    /\ sinceRound' = 0
    /\ sinceOutdated' = IF IsUpdated(age) THEN sinceOutdated ELSE 0

(* checkKeysUpdateTimeout, checkValidatorsUpdateTimeout: the old timer is   *)
(* cleared only if the data is not outdated, the handle is overwritten      *)
(* always.                                                                  *)
CheckTimeout(age) ==
    /\ orphans' = IF IsUpdated(age) THEN orphans ELSE orphans \cup {timer}
    /\ timer' = Timeout
    /\ sinceRound' = 0
    /\ sinceOutdated' = IF IsUpdated(age) THEN sinceOutdated ELSE 0

(* The db is brought to a block that is `age' old.  The jobs compare block  *)
(* numbers and slots, not times: after a reorganisation a higher block may  *)
(* be the older one.                                                        *)
CommitBlock(age) ==
    /\ stored' = age
    /\ sinceUpdate' = 0
    /\ sinceStale' = IF IsStale(age) THEN 0 ELSE sinceStale

(* The round committed a block and reports it. *)
RoundUpdates ==
    /\ LeaveRound
    /\ \E age \in 0..Old :
         /\ CommitBlock(age)
         /\ lastTimestamp' = age
         /\ CheckTimeout(age)

(* Mutant of RoundIsIdle: nothing is reported although the db has a block.  *)
RoundIsIdleSilently ==
    /\ LeaveRound
    /\ stored # Undefined
    /\ lastTimestamp' = lastTimestamp
    /\ CheckTimeout(lastTimestamp)
    /\ UNCHANGED <<stored, sinceUpdate, sinceStale>>

(* The db is at the node's block already, or the node is behind it. *)
RoundIsIdle ==
    /\ LeaveRound
    /\ stored # Undefined
    /\ lastTimestamp' = IF job = "validators" THEN stored ELSE lastTimestamp
    /\ CheckTimeout(lastTimestamp')
    /\ UNCHANGED <<stored, sinceUpdate, sinceStale>>

(* A call throws before the commit: wrapJob logs it, no timer is touched. *)
RoundFails ==
    /\ LeaveRound
    /\ UNCHANGED <<timer, orphans, lastTimestamp, stored, history>>

(* The keys job throws after the commit, in updateMetrics. *)
MetricsFail ==
    /\ job = "keys"
    /\ LeaveRound
    /\ \E age \in 0..Old : CommitBlock(age)
    /\ UNCHANGED <<timer, orphans, lastTimestamp, sinceRound, sinceOutdated>>

-----------------------------------------------------------------------------
(* Time. *)

Older(age)   == IF age = Undefined THEN Undefined ELSE Least(age + 1, Old)
Later(ticks) == IF ticks = Undefined THEN Undefined ELSE ticks - 1

(* A tick does not pass over a timer or an interval that is due. *)
Tick ==
    /\ up => timer # 0 /\ 0 \notin orphans /\ interval # 0
    /\ timer' = IF up THEN Later(timer) ELSE timer
    /\ orphans' = {Later(t) : t \in orphans}
    /\ interval' = Later(interval)
    /\ lastTimestamp' = Older(lastTimestamp)
    /\ stored' = Older(stored)
    /\ sinceUpdate' = IF up THEN Least(sinceUpdate + 1, MaxSilence) ELSE sinceUpdate
    /\ sinceRound' = IF up THEN Least(sinceRound + 1, Never) ELSE sinceRound
    /\ sinceOutdated' = Least(sinceOutdated + 1, Never)
    /\ sinceStale' = IF IsStale(stored') THEN 0 ELSE Least(sinceStale + 1, Never)
    /\ UNCHANGED <<job, up, isExecuting, rounds>>

Next ==
    \/ Start
    \/ Exit
    \/ Crash
    \/ IntervalFires
    \/ RoundUpdates
    \/ RoundIsIdle
    \/ RoundFails
    \/ MetricsFail
    \/ Tick

Spec == Init /\ [][Next]_vars

(* Time passes, timers and intervals that are due fire, and the process is  *)
(* started again.  Nothing says that a round ever ends.                     *)
FairSpec ==
    /\ Spec
    /\ WF_vars(Tick)
    /\ WF_vars(Start)
    /\ WF_vars(Exit)
    /\ WF_vars(IntervalFires)

-----------------------------------------------------------------------------
(* Properties. *)

TypeOK ==
    /\ job \in Jobs
    /\ up \in BOOLEAN
    /\ timer \in 0..Timeout
    /\ orphans \subseteq 0..Timeout
    /\ interval \in {Undefined} \cup 0..Interval
    /\ isExecuting \in BOOLEAN
    /\ rounds \in 0..MaxRounds
    /\ lastTimestamp \in Ages
    /\ stored \in Ages
    /\ sinceUpdate \in 0..MaxSilence
    /\ sinceRound \in 0..Never
    /\ sinceOutdated \in 0..Never
    /\ sinceStale \in 0..Never

(* Two rounds never run beside each other, however the interval, slow       *)
(* rounds and failures fall (oneAtTime.ts 17-36).                           *)
OneRoundAtATime == rounds <= 1

(* A service whose db does not move is not left running: it exits before    *)
(* twice the timeout has passed, whether its rounds hang, fail, or end      *)
(* finding nothing new (checkKeysUpdateTimeout).                            *)
SilenceBounded == up => sinceUpdate < 2 * Timeout

(* Every exit can be explained: no round went through for the timeout, or   *)
(* one that did, at most the timeout ago, was not found up to date.         *)
ExitHasCause ==
    [][Exit => sinceRound >= Timeout \/ sinceOutdated <= Timeout]_vars

(* keys-update.service.ts 84-86: "There were no keys update more than 60    *)
(* minutes": the process exits only if no round went through, or the db     *)
(* really was outdated at some moment of the last timeout.                  *)
ExitMeansOutdated ==
    [][Exit => sinceRound >= Timeout \/ sinceStale <= Timeout]_vars

(* The validators job keeps that promise: it reports what the db holds, so  *)
(* a timer it forgets was armed before a moment at which the db was outdated.*)
ValidatorsExitMeansOutdated ==
    [][Exit /\ job = "validators" =>
         sinceRound >= Timeout \/ sinceStale <= Timeout]_vars

(* A round that hangs does not keep the flag of OneAtTime for ever: either  *)
(* it ends or the timer ends the process.                                   *)
FlagIsReleased == []<>(~isExecuting)

-----------------------------------------------------------------------------
(* The inductive invariant behind them.  The timer measures the time since  *)
(* the last round; every forgotten timer was armed before some round found  *)
(* the data outdated; no age is smaller than the time since the commit, so  *)
(* a timer is cleared only while that is below the timeout; hence some      *)
(* armed timer always fires before the silence is twice the timeout.        *)

FlagCountsRounds == rounds = IF isExecuting THEN 1 ELSE 0

NoOrphansWhenDown == ~up => orphans = {}

TimerMeasures == up => timer + sinceRound = Timeout

OrphansWereOutdated == \A t \in orphans : sinceOutdated + t <= Timeout

AgesFollow ==
    up => \A age \in {lastTimestamp, stored} : IsUpdated(age) => sinceUpdate <= age

StaleIsNow == IsStale(stored) => sinceStale = 0

OrphansWereStale ==
    job = "validators" => \A t \in orphans : sinceStale + t <= Timeout

DeadlineIsSet == up => \E t \in orphans \cup {timer} : sinceUpdate + t < 2 * Timeout

Inv ==
    /\ TypeOK
    /\ FlagCountsRounds
    /\ NoOrphansWhenDown
    /\ TimerMeasures
    /\ OrphansWereOutdated
    /\ AgesFollow
    /\ StaleIsNow
    /\ OrphansWereStale
    /\ DeadlineIsSet
=============================================================================
