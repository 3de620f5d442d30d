--------------------------- MODULE WatchdogProofs ---------------------------
(****************************************************************************)
(* Proofs about Watchdog, for every timeout and every interval: the types,  *)
(* the mutual exclusion of rounds, the bound on the silence and the cause   *)
(* of every exit, all from the inductive invariant Inv; and why the keys    *)
(* job exits without a cause that it names.                                 *)
(****************************************************************************)
EXTENDS Watchdog, TLAPS

(* The numbers the provers need to know of the constants. *)
LEMMA Numbers ==
    /\ Timeout \in Nat /\ Timeout > 0
    /\ Interval \in Nat /\ Interval > 0
    /\ Undefined \in Int /\ Undefined = -1
    /\ Old \in Nat /\ Old = Timeout
    /\ Never \in Nat /\ Never = Timeout + 1
    /\ MaxSilence \in Nat /\ MaxSilence = Timeout + Timeout + 1
    /\ MaxRounds \in Nat /\ MaxRounds = 2
BY WatchdogAssumption
   DEF WatchdogAssumption, Undefined, Old, Never, MaxSilence, MaxRounds

(* The arithmetic of a deadline, kept apart from the state. *)
LEMMA DeadlineKept ==
    ASSUME NEW s \in Nat, NEW t \in 0..Timeout, s + t < 2 * Timeout,
           NEW u, u = s \/ u = 0
    PROVE  u + t < 2 * Timeout
BY Numbers

(* A tick brings the deadline nearer as fast as the silence grows. *)
LEMMA DeadlineTicks ==
    ASSUME NEW s \in Nat, NEW t \in 1..Timeout, s + t < 2 * Timeout,
           NEW u \in Nat, u <= s + 1
    PROVE  u + (t - 1) < 2 * Timeout
BY Numbers

(* A timer armed before the timeout fires before twice the timeout. *)
LEMMA DeadlineFresh == ASSUME NEW u \in Nat, u < Timeout PROVE u + Timeout < 2 * Timeout
BY Numbers

(* The deadline timers after a round that went through, given an age no     *)
(* smaller than the silence.                                                *)
LEMMA TimersAfterRound ==
    ASSUME Inv, up, up', NEW age,
           CheckTimeout(age),
           sinceUpdate' \in Nat,
           IsUpdated(age) => sinceUpdate' < Timeout,
           sinceUpdate' = sinceUpdate \/ sinceUpdate' = 0,
           job' = job, sinceStale' = 0 \/ sinceStale' = sinceStale,
           ~IsUpdated(age) => job = "keys" \/ sinceStale' = 0
    PROVE  /\ timer' \in 0..Timeout
           /\ orphans' \subseteq 0..Timeout
           /\ sinceRound' \in 0..Never
           /\ sinceOutdated' \in 0..Never
           /\ NoOrphansWhenDown'
           /\ TimerMeasures'
           /\ OrphansWereOutdated'
           /\ OrphansWereStale'
           /\ DeadlineIsSet'
<1> USE Numbers
<1>1. /\ timer' = Timeout /\ sinceRound' = 0
      /\ orphans' \subseteq orphans \cup {timer}
      /\ orphans \subseteq orphans'
      /\ \/ orphans' = orphans /\ sinceOutdated' = sinceOutdated
         \/ sinceOutdated' = 0
  BY DEF CheckTimeout
<1>2. timer' \in 0..Timeout /\ orphans' \subseteq 0..Timeout
  BY <1>1 DEF Inv, TypeOK
<1>3. sinceRound' \in 0..Never /\ sinceOutdated' \in 0..Never
  BY <1>1 DEF Inv, TypeOK
<1>4. NoOrphansWhenDown' /\ TimerMeasures'
  BY <1>1 DEF NoOrphansWhenDown, TimerMeasures
<1>5. OrphansWereOutdated'
  <2>1. CASE orphans' = orphans /\ sinceOutdated' = sinceOutdated
    BY <2>1 DEF Inv, OrphansWereOutdated
  <2>2. CASE sinceOutdated' = 0
    BY <2>2, <1>2 DEF OrphansWereOutdated
  <2> QED BY <1>1, <2>1, <2>2
<1>6. DeadlineIsSet'
  <2>1. CASE IsUpdated(age)
    <3>1. sinceUpdate' + timer' < 2 * Timeout
      BY <2>1, <1>1, DeadlineFresh
    <3> QED BY <3>1 DEF DeadlineIsSet
  <2>2. CASE ~IsUpdated(age)
    <3>1. orphans' = orphans \cup {timer}
      BY <2>2 DEF CheckTimeout
    <3>2. PICK t \in orphans \cup {timer} : sinceUpdate + t < 2 * Timeout
      BY DEF Inv, DeadlineIsSet
    <3>3. t \in 0..Timeout /\ sinceUpdate \in Nat
      BY DEF Inv, TypeOK
    <3>4. sinceUpdate' + t < 2 * Timeout
      BY <3>2, <3>3, DeadlineKept
    <3> QED BY <3>1, <3>4 DEF DeadlineIsSet
  <2> QED BY <2>1, <2>2
<1>7. OrphansWereStale'
  <2> SUFFICES ASSUME job = "validators", NEW t \in orphans'
               PROVE  sinceStale' + t <= Timeout
    BY DEF OrphansWereStale
  <2>1. CASE sinceStale' = 0
    BY <2>1, <1>2
  <2>2. CASE sinceStale' # 0
    <3>1. orphans' = orphans
      BY <2>2 DEF CheckTimeout
    <3> QED BY <2>2, <3>1 DEF Inv, OrphansWereStale
  <2> QED BY <2>1, <2>2
<1> QED BY <1>2, <1>3, <1>4, <1>5, <1>6, <1>7

(* A call that returns was the only one, and releases the flag. *)
LEMMA RoundIsLeft ==
    ASSUME Inv, LeaveRound
    PROVE  /\ up /\ up'
           /\ job' = job /\ job' \in Jobs
           /\ up' \in BOOLEAN
           /\ interval' \in {Undefined} \cup 0..Interval
           /\ isExecuting' \in BOOLEAN
           /\ rounds' \in 0..MaxRounds
           /\ FlagCountsRounds'
<1>1. up /\ up' /\ isExecuting' \in BOOLEAN /\ up' \in BOOLEAN
  BY DEF LeaveRound, Inv, TypeOK
<1>2. rounds = 1
  BY Numbers DEF Inv, TypeOK, FlagCountsRounds, LeaveRound
<1>3. rounds' = 0 /\ isExecuting' = FALSE
  BY <1>2 DEF LeaveRound
<1>4. interval' \in {Undefined} \cup 0..Interval
  BY Numbers DEF Inv, TypeOK, LeaveRound
<1>5. job' = job /\ job' \in Jobs
  BY DEF Inv, TypeOK, LeaveRound
<1> QED BY <1>1, <1>3, <1>4, <1>5, Numbers DEF FlagCountsRounds

(* A commit ends the silence. *)
LEMMA BlockIsCommitted ==
    ASSUME Inv, NEW age \in 0..Old, CommitBlock(age)
    PROVE  /\ stored' \in Ages /\ stored' = age
           /\ sinceUpdate' = 0
           /\ sinceUpdate' \in Nat
           /\ sinceUpdate' \in 0..MaxSilence
           /\ sinceStale' \in 0..Never
           /\ StaleIsNow'
           /\ sinceStale' = 0 \/ sinceStale' = sinceStale
           /\ ~IsUpdated(age) => sinceStale' = 0
BY Numbers DEF Inv, TypeOK, CommitBlock, Ages, StaleIsNow, IsStale, IsUpdated

-----------------------------------------------------------------------------

(* A process that is down, with no timer, satisfies the invariant. *)
LEMMA InitInv == Init => Inv
<1> SUFFICES ASSUME Init PROVE Inv
  OBVIOUS
<1>1. TypeOK
  <2>1. job \in Jobs /\ up \in BOOLEAN /\ isExecuting \in BOOLEAN
    BY DEF Init
  <2>2. timer \in 0..Timeout /\ orphans \subseteq 0..Timeout
    BY Numbers DEF Init
  <2>3. /\ interval \in {Undefined} \cup 0..Interval /\ rounds \in 0..MaxRounds
        /\ lastTimestamp \in Ages /\ stored \in Ages
    BY Numbers DEF Init, Ages
  <2>4. sinceUpdate \in 0..MaxSilence /\ sinceRound \in 0..Never
    BY Numbers DEF Init
  <2>5. sinceOutdated \in 0..Never /\ sinceStale \in 0..Never
    BY Numbers DEF Init
  <2> QED BY <2>1, <2>2, <2>3, <2>4, <2>5 DEF TypeOK
<1>2. FlagCountsRounds
  BY DEF Init, FlagCountsRounds
<1> QED
  BY <1>1, <1>2
  DEF Init, Inv, NoOrphansWhenDown, TimerMeasures, OrphansWereOutdated,
      AgesFollow, StaleIsNow, OrphansWereStale, DeadlineIsSet

(* Arming the timer first thing sets the first deadline. *)
LEMMA StartInv == ASSUME Inv, Start PROVE Inv'
<1> USE Numbers
<1>1. orphans = {}
  BY DEF Inv, NoOrphansWhenDown, Start
<1>2. TypeOK'
  BY DEF Inv, TypeOK, Start, MaxRounds
<1>3. AgesFollow'
  BY DEF Inv, TypeOK, Start, AgesFollow, IsUpdated, Ages
<1>4. DeadlineIsSet'
  BY DEF Start, DeadlineIsSet
<1> QED
  BY <1>1, <1>2, <1>3, <1>4
  DEF Inv, Start, FlagCountsRounds, NoOrphansWhenDown, TimerMeasures,
      OrphansWereOutdated, StaleIsNow, OrphansWereStale

(* A process that is down has nothing to keep. *)
LEMMA StopInv == ASSUME Inv, Stop PROVE Inv'
<1>1. TypeOK'
  <2>1. job' \in Jobs /\ up' \in BOOLEAN /\ isExecuting' \in BOOLEAN
    BY DEF Stop, Inv, TypeOK
  <2>2. timer' \in 0..Timeout /\ orphans' \subseteq 0..Timeout
    BY Numbers DEF Stop
  <2>3. /\ interval' \in {Undefined} \cup 0..Interval /\ rounds' \in 0..MaxRounds
        /\ lastTimestamp' \in Ages /\ stored' \in Ages
    BY Numbers DEF Inv, TypeOK, Stop, Ages
  <2>4. sinceOutdated' \in 0..Never
    BY Numbers DEF Stop
  <2> QED BY <2>1, <2>2, <2>3, <2>4 DEF Inv, TypeOK, Stop
<1>2. FlagCountsRounds'
  BY DEF Stop, FlagCountsRounds
<1> QED
  BY <1>1, <1>2
  DEF Stop, Inv, NoOrphansWhenDown, TimerMeasures, OrphansWereOutdated,
      AgesFollow, StaleIsNow, OrphansWereStale, DeadlineIsSet

(* A call that finds the flag set is turned away. *)
LEMMA IntervalFiresInv == ASSUME Inv, IntervalFires PROVE Inv'
<1> USE Numbers
<1>1. rounds' = 1
  BY DEF Inv, FlagCountsRounds, IntervalFires, Least, MaxRounds
<1> QED
  BY <1>1
  DEF Inv, TypeOK, IntervalFires, history, FlagCountsRounds, NoOrphansWhenDown,
      TimerMeasures, OrphansWereOutdated, AgesFollow, StaleIsNow, OrphansWereStale,
      DeadlineIsSet, Undefined, MaxRounds

(* A round that commits sets the age the next check relies on. *)
LEMMA RoundUpdatesInv == ASSUME Inv, RoundUpdates PROVE Inv'
<1> USE Numbers
<1>1. PICK age \in 0..Old :
        CommitBlock(age) /\ lastTimestamp' = age /\ CheckTimeout(age)
  BY DEF RoundUpdates
<1>2. LeaveRound
  BY DEF RoundUpdates
<1>3. AgesFollow'
  BY <1>1, BlockIsCommitted DEF AgesFollow
<1>4. lastTimestamp' \in Ages
  BY <1>1 DEF Ages
<1> QED
  BY <1>1, <1>2, <1>3, <1>4, RoundIsLeft, BlockIsCommitted, TimersAfterRound
  DEF Inv, TypeOK

(* An idle round clears the timer only while the data is fresh. *)
LEMMA RoundIsIdleInv == ASSUME Inv, RoundIsIdle PROVE Inv'
<1> USE Numbers
<1>1. LeaveRound /\ CheckTimeout(lastTimestamp')
      /\ UNCHANGED <<stored, sinceUpdate, sinceStale>>
  BY DEF RoundIsIdle
<1>2. lastTimestamp' \in {lastTimestamp, stored}
  BY DEF RoundIsIdle
<1>3. up /\ up'
  BY <1>1, RoundIsLeft
<1>4. AgesFollow'
  BY <1>1, <1>2, <1>3 DEF Inv, AgesFollow, IsUpdated
<1>5. IsUpdated(lastTimestamp') => sinceUpdate' < Timeout
  BY <1>1, <1>2, <1>3 DEF Inv, TypeOK, AgesFollow, IsUpdated, Ages
<1>6. sinceUpdate' \in 0..MaxSilence /\ sinceUpdate' \in Nat
  BY <1>1 DEF Inv, TypeOK
<1>7. StaleIsNow'
  BY <1>1 DEF Inv, StaleIsNow, IsStale
<1>8. ~IsUpdated(lastTimestamp') => job = "keys" \/ sinceStale' = 0
  <2> SUFFICES ASSUME ~IsUpdated(lastTimestamp'), job # "keys"
               PROVE  sinceStale' = 0
    OBVIOUS
  <2>1. lastTimestamp' = stored /\ stored \in Ages
    BY DEF RoundIsIdle, Inv, TypeOK, Jobs
  <2>2. IsStale(stored)
    BY <2>1 DEF IsUpdated, IsStale, Ages
  <2> QED BY <1>1, <2>2 DEF Inv, StaleIsNow
<1> QED
  BY <1>1, <1>2, <1>3, <1>4, <1>5, <1>6, <1>7, <1>8, RoundIsLeft, TimersAfterRound
  DEF Inv, TypeOK

(* A failed round leaves the timers alone. *)
LEMMA RoundFailsInv == ASSUME Inv, RoundFails PROVE Inv'
<1>1. LeaveRound /\ UNCHANGED <<timer, orphans, lastTimestamp, stored, history>>
  BY DEF RoundFails
<1> QED
  BY <1>1, RoundIsLeft
  DEF Inv, TypeOK, history, NoOrphansWhenDown, TimerMeasures, OrphansWereOutdated,
      AgesFollow, StaleIsNow, OrphansWereStale, DeadlineIsSet, IsUpdated, IsStale

(* A round that fails after its commit leaves an older, safe, age. *)
LEMMA MetricsFailInv == ASSUME Inv, MetricsFail PROVE Inv'
<1> USE Numbers
<1>1. /\ LeaveRound
      /\ UNCHANGED <<timer, orphans, lastTimestamp, sinceRound, sinceOutdated>>
  BY DEF MetricsFail
<1>2. PICK age \in 0..Old : CommitBlock(age)
  BY DEF MetricsFail
<1>3. AgesFollow'
  BY <1>1, <1>2, BlockIsCommitted
  DEF Inv, TypeOK, AgesFollow, IsUpdated, Ages
<1>4. DeadlineIsSet'
  <2>1. sinceUpdate' = 0 /\ timer' \in 0..Timeout
    BY <1>1, <1>2, BlockIsCommitted DEF Inv, TypeOK
  <2> QED BY <2>1 DEF DeadlineIsSet
<1>5. OrphansWereStale'
  BY <1>1 DEF MetricsFail, LeaveRound, OrphansWereStale
<1> QED
  BY <1>1, <1>2, <1>3, <1>4, <1>5, RoundIsLeft, BlockIsCommitted
  DEF Inv, TypeOK, NoOrphansWhenDown, TimerMeasures, OrphansWereOutdated

(* Time ages everything together. *)
LEMMA TickInv == ASSUME Inv, Tick PROVE Inv'
<1> USE Numbers
<1>1. \A age \in Ages : Older(age) \in Ages
                        /\ (IsUpdated(Older(age)) => IsUpdated(age) /\ Older(age) = age + 1)
  BY DEF Older, Ages, Least, IsUpdated
<1>2. \A t \in orphans : t \in 1..Timeout /\ Later(t) = t - 1
  BY DEF Inv, TypeOK, NoOrphansWhenDown, Tick, Later
<1>3. up => timer \in 1..Timeout /\ timer' = timer - 1
  BY DEF Inv, TypeOK, Tick, Later
<1>4. /\ sinceOutdated' \in 0..Never
      /\ sinceOutdated' <= sinceOutdated + 1
  BY DEF Inv, TypeOK, Tick, Least
<1>5. /\ sinceUpdate' \in 0..MaxSilence
      /\ sinceUpdate' <= sinceUpdate + 1
  BY DEF Inv, TypeOK, Tick, Least
<1>6. TypeOK'
  <2>1. timer' \in 0..Timeout
    BY <1>3 DEF Inv, TypeOK, Tick
  <2>2. orphans' \subseteq 0..Timeout
    BY <1>2 DEF Tick
  <2>3. interval' \in {Undefined} \cup 0..Interval
    BY DEF Inv, TypeOK, Tick, Later
  <2>4. lastTimestamp' \in Ages /\ stored' \in Ages
    BY <1>1 DEF Inv, TypeOK, Tick
  <2>5. sinceRound' \in 0..Never /\ sinceStale' \in 0..Never
    BY DEF Inv, TypeOK, Tick, Least
  <2> QED BY <1>4, <1>5, <2>1, <2>2, <2>3, <2>4, <2>5 DEF Inv, TypeOK, Tick
<1>7. FlagCountsRounds' /\ NoOrphansWhenDown'
  BY DEF Inv, FlagCountsRounds, NoOrphansWhenDown, Tick
<1>8. TimerMeasures'
  BY <1>3 DEF Inv, TypeOK, TimerMeasures, Tick, Least
<1>9. OrphansWereOutdated'
  <2> SUFFICES ASSUME NEW t \in orphans PROVE sinceOutdated' + Later(t) <= Timeout
    BY DEF OrphansWereOutdated, Tick
  <2> QED BY <1>2, <1>4 DEF Inv, TypeOK, OrphansWereOutdated
<1>10. AgesFollow'
  <2> SUFFICES ASSUME up, NEW age \in {lastTimestamp, stored}, IsUpdated(Older(age))
               PROVE  sinceUpdate' <= Older(age)
    BY DEF AgesFollow, Tick
  <2>1. age \in Ages
    BY DEF Inv, TypeOK
  <2> QED BY <1>1, <1>5, <2>1 DEF Inv, TypeOK, AgesFollow, IsUpdated, Ages
<1>11. DeadlineIsSet'
  <2> SUFFICES ASSUME up PROVE DeadlineIsSet'
    BY DEF DeadlineIsSet, Tick
  <2>1. PICK t \in orphans \cup {timer} : sinceUpdate + t < 2 * Timeout
    BY DEF Inv, DeadlineIsSet
  <2>2. t \in 1..Timeout /\ t - 1 \in orphans' \cup {timer'}
    BY <1>2, <1>3 DEF Tick
  <2>3. sinceUpdate \in Nat /\ sinceUpdate' \in Nat
    BY <1>5 DEF Inv, TypeOK
  <2>4. sinceUpdate' + (t - 1) < 2 * Timeout
    BY <1>5, <2>1, <2>2, <2>3, DeadlineTicks
  <2> QED BY <2>2, <2>4 DEF DeadlineIsSet
<1>12. StaleIsNow'
  BY DEF Tick, StaleIsNow
<1>13. OrphansWereStale'
  <2> SUFFICES ASSUME job = "validators", NEW t \in orphans
               PROVE  sinceStale' + Later(t) <= Timeout
    BY DEF OrphansWereStale, Tick
  <2>1. sinceStale \in 0..Never /\ sinceStale + t <= Timeout
    BY DEF Inv, TypeOK, OrphansWereStale
  <2>2. sinceStale' = 0 \/ sinceStale' = sinceStale + 1
    BY <2>1, <1>2 DEF Tick, Least
  <2> QED BY <1>2, <2>1, <2>2
<1> QED BY <1>6, <1>7, <1>8, <1>9, <1>10, <1>11, <1>12, <1>13 DEF Inv

(* The invariant reads the variables only. *)
LEMMA StutterInv == ASSUME Inv, UNCHANGED vars PROVE Inv'
BY DEF Inv, TypeOK, vars, process, history, FlagCountsRounds, NoOrphansWhenDown,
       TimerMeasures, OrphansWereOutdated, AgesFollow, StaleIsNow, OrphansWereStale,
       DeadlineIsSet, IsUpdated, IsStale

(* Every step preserves the invariant: one case per action. *)
LEMMA InvStep == Inv /\ [Next]_vars => Inv'
<1> SUFFICES ASSUME Inv, [Next]_vars PROVE Inv'
  OBVIOUS
<1>1. CASE Start BY <1>1, StartInv
<1>2. CASE Exit BY <1>2, StopInv DEF Exit
<1>3. CASE Crash BY <1>3, StopInv DEF Crash
<1>4. CASE IntervalFires BY <1>4, IntervalFiresInv
<1>5. CASE RoundUpdates BY <1>5, RoundUpdatesInv
<1>6. CASE RoundIsIdle BY <1>6, RoundIsIdleInv
<1>7. CASE RoundFails BY <1>7, RoundFailsInv
<1>8. CASE MetricsFail BY <1>8, MetricsFailInv
<1>9. CASE Tick BY <1>9, TickInv
<1>10. CASE UNCHANGED vars BY <1>10, StutterInv
<1> QED
  BY <1>1, <1>2, <1>3, <1>4, <1>5, <1>6, <1>7, <1>8, <1>9, <1>10 DEF Next

(* The invariant holds always. *)
LEMMA InvHolds == Spec => []Inv
BY InitInv, InvStep, PTL DEF Spec

-----------------------------------------------------------------------------

(* The variables keep their types. *)
THEOREM WatchdogTypeCorrect == Spec => []TypeOK
<1>1. Inv => TypeOK
  BY DEF Inv
<1> QED BY <1>1, InvHolds, PTL

(* OneAtTime keeps rounds apart, for any interval and any round length. *)
THEOREM RoundsExclude == Spec => []OneRoundAtATime
<1>1. Inv => OneRoundAtATime
  BY DEF Inv, FlagCountsRounds, OneRoundAtATime
<1> QED BY <1>1, InvHolds, PTL

(* The silence of a running process stays below twice the timeout. *)
THEOREM SilenceIsBounded == Spec => []SilenceBounded
<1>1. Inv => SilenceBounded
  <2> SUFFICES ASSUME Inv, up PROVE sinceUpdate < 2 * Timeout
    BY DEF SilenceBounded
  <2>1. PICK t \in orphans \cup {timer} : sinceUpdate + t < 2 * Timeout
    BY DEF Inv, DeadlineIsSet
  <2>2. t \in 0..Timeout /\ sinceUpdate \in 0..MaxSilence
    BY DEF Inv, TypeOK
  <2> QED BY <2>1, <2>2, Numbers
<1> QED BY <1>1, InvHolds, PTL

(* Every exit has one of the two causes. *)
THEOREM EveryExitHasCause == Spec => ExitHasCause
<1>1. Inv /\ [Next]_vars => [Exit => sinceRound >= Timeout \/ sinceOutdated <= Timeout]_vars
  <2> SUFFICES ASSUME Inv, Exit
               PROVE  sinceRound >= Timeout \/ sinceOutdated <= Timeout
    OBVIOUS
  <2>1. CASE timer = 0
    BY <2>1, Numbers DEF Inv, TypeOK, TimerMeasures, Exit
  <2>2. CASE 0 \in orphans
    BY <2>2, Numbers DEF Inv, TypeOK, OrphansWereOutdated
  <2> QED BY <2>1, <2>2 DEF Exit
<1> QED BY <1>1, InvHolds, PTL DEF Spec, ExitHasCause

(* The validators job exits only after a timeout without a round, or when   *)
(* its db was outdated within the last timeout: the promise the keys job    *)
(* does not keep.                                                           *)
THEOREM ValidatorsExitIsJustified == Spec => ValidatorsExitMeansOutdated
<1>1. Inv /\ [Next]_vars =>
        [Exit /\ job = "validators" => sinceRound >= Timeout \/ sinceStale <= Timeout]_vars
  <2> SUFFICES ASSUME Inv, Exit, job = "validators"
               PROVE  sinceRound >= Timeout \/ sinceStale <= Timeout
    OBVIOUS
  <2>1. CASE timer = 0
    BY <2>1, Numbers DEF Inv, TypeOK, TimerMeasures, Exit
  <2>2. CASE 0 \in orphans
    BY <2>2, Numbers DEF Inv, TypeOK, OrphansWereStale
  <2> QED BY <2>1, <2>2 DEF Exit
<1> QED BY <1>1, InvHolds, PTL DEF Spec, ValidatorsExitMeansOutdated

-----------------------------------------------------------------------------
(* Why the keys job does not. *)

(* A round that finds nothing new reports an age that is outdated only if   *)
(* the db is.  The keys job's may not: its lastTimestamp is that of the     *)
(* last commit it reported, of none after a restart, and of an older one    *)
(* after a commit whose metrics failed (keys-update.service.ts update).     *)
IdleReportsStored == RoundIsIdle /\ IsUpdated(stored) => IsUpdated(lastTimestamp')

AllOrphansWereStale == \A t \in orphans : sinceStale + t <= Timeout

(* A timer is forgotten by a round at whose end the db is outdated. *)
LEMMA OrphansAfterRound ==
    ASSUME Inv, AllOrphansWereStale, NEW age, CheckTimeout(age),
           sinceStale' = 0 \/ sinceStale' = sinceStale,
           ~IsUpdated(age) => sinceStale' = 0
    PROVE  AllOrphansWereStale'
<1>1. CASE sinceStale' = 0
  <2>1. orphans' \subseteq 0..Timeout BY Numbers DEF CheckTimeout, Inv, TypeOK
  <2> QED BY <1>1, <2>1, Numbers DEF AllOrphansWereStale
<1>2. CASE sinceStale' # 0
  <2>1. orphans' = orphans /\ sinceStale' = sinceStale BY <1>2 DEF CheckTimeout
  <2> QED BY <2>1 DEF AllOrphansWereStale
<1> QED BY <1>1, <1>2

LEMMA AllOrphansWereStaleStep ==
    ASSUME Inv, AllOrphansWereStale, [Next]_vars, [IdleReportsStored]_vars
    PROVE  AllOrphansWereStale'
<1>1. CASE Exit \/ Crash BY <1>1 DEF Exit, Crash, Stop, AllOrphansWereStale
<1>2. CASE Start \/ IntervalFires \/ RoundFails \/ UNCHANGED vars
  BY <1>2 DEF Start, IntervalFires, RoundFails, vars, process, history, AllOrphansWereStale
<1>3. CASE RoundUpdates
  <2>1. PICK age \in 0..Old : CommitBlock(age) /\ CheckTimeout(age)
    BY <1>3 DEF RoundUpdates
  <2> QED BY <2>1, BlockIsCommitted, OrphansAfterRound
<1>4. CASE RoundIsIdle
  <2>1. /\ LeaveRound /\ CheckTimeout(lastTimestamp') /\ sinceStale' = sinceStale
        /\ stored # Undefined
    BY <1>4 DEF RoundIsIdle
  <2>2. IsUpdated(stored) => IsUpdated(lastTimestamp')
    <3>1. rounds' # rounds BY <2>1, Numbers DEF LeaveRound, Inv, TypeOK
    <3> QED BY <1>4, <3>1 DEF vars, process, IdleReportsStored
  <2>3. ~IsUpdated(stored) => IsStale(stored)
    BY <2>1, Numbers DEF IsUpdated, IsStale, Inv, TypeOK, Ages
  <2>4. ~IsUpdated(lastTimestamp') => sinceStale' = 0
    BY <2>1, <2>2, <2>3 DEF Inv, StaleIsNow
  <2> QED BY <2>1, <2>4, OrphansAfterRound
<1>5. CASE MetricsFail
  <2>1. orphans' = orphans /\ orphans \subseteq 0..Timeout
    BY <1>5 DEF MetricsFail, Inv, TypeOK
  <2>2. sinceStale' = 0 \/ sinceStale' = sinceStale
    BY <1>5, BlockIsCommitted DEF MetricsFail
  <2> QED BY <2>1, <2>2, Numbers DEF AllOrphansWereStale
<1>6. CASE Tick
  <2>1. ASSUME NEW t \in orphans PROVE sinceStale' + Later(t) <= Timeout
    <3>1. t \in 1..Timeout /\ Later(t) = t - 1
      BY <1>6, Numbers DEF Inv, TypeOK, NoOrphansWhenDown, Tick, Later
    <3>2. sinceStale \in 0..Never /\ sinceStale + t <= Timeout
      BY DEF Inv, TypeOK, AllOrphansWereStale
    <3>3. sinceStale' = 0 \/ sinceStale' = sinceStale + 1
      BY <1>6, <3>1, <3>2, Numbers DEF Tick, Least
    <3> QED BY <3>1, <3>2, <3>3, Numbers
  <2> QED BY <1>6, <2>1 DEF Tick, AllOrphansWereStale
<1> QED BY <1>1, <1>2, <1>3, <1>4, <1>5, <1>6 DEF Next

(* The keys job, too, exits only after a timeout without a round or with a  *)
(* db that was outdated within the last timeout, if its idle rounds report  *)
(* what the db holds: nothing else in the clockwork breaks the promise that *)
(* WatchdogForgotten shows broken.                                          *)
THEOREM ExitUnjustifiedByIdleReportsOnly ==
    Spec /\ [][IdleReportsStored]_vars => ExitMeansOutdated
<1>1. Init => AllOrphansWereStale BY DEF Init, AllOrphansWereStale
<1>2. Inv /\ AllOrphansWereStale /\ [Next]_vars /\ [IdleReportsStored]_vars
        => (Inv /\ AllOrphansWereStale)'
  BY InvStep, AllOrphansWereStaleStep
<1>3. Inv /\ AllOrphansWereStale =>
        [Exit => sinceRound >= Timeout \/ sinceStale <= Timeout]_vars
  <2> SUFFICES ASSUME Inv, AllOrphansWereStale, Exit
               PROVE  sinceRound >= Timeout \/ sinceStale <= Timeout
    OBVIOUS
  <2>1. CASE timer = 0
    BY <2>1, Numbers DEF Inv, TypeOK, TimerMeasures, Exit
  <2>2. CASE 0 \in orphans
    BY <2>2, Numbers DEF Inv, TypeOK, AllOrphansWereStale
  <2> QED BY <2>1, <2>2 DEF Exit
<1> QED BY <1>1, <1>2, <1>3, InitInv, PTL DEF Spec, ExitMeansOutdated
=============================================================================
