------------------------------ MODULE Watchdog ------------------------------
(***************************************************************************)
(* The liveness watchdog (src/watchdog.py) beside main's loop              *)
(* (src/main.py): two threads, a heartbeat and a clock.                    *)
(*                                                                         *)
(* Time is discrete and one tick long is what time.sleep(1) takes.  What a *)
(* poll does is left open here: it ends within IterationMax, or it hangs.  *)
(* The watchdog thread takes no time for its own steps; only its sleep,    *)
(* and the join on the notification, do.                                   *)
(***************************************************************************)
EXTENDS Integers

CONSTANTS Timeout,         \* watchdog_timeout_seconds
          Interval,        \* watchdog_interval_seconds
          NotifyTimeout,   \* notify_timeout_seconds
          PollSeconds,     \* poll_seconds
          LagMax,          \* longest delay inside beat(), if main does not hang
          IterationMax,    \* longest turn of the loop, if main does not hang
          MaxAge           \* bound: ages are not told apart beyond this

ASSUME WatchdogAssumption ==
    /\ Timeout \in Nat \ {0} /\ Interval \in Nat /\ NotifyTimeout \in Nat
    /\ PollSeconds \in Nat /\ LagMax \in Nat /\ IterationMax \in Nat
    /\ MaxAge \in Nat /\ MaxAge > Timeout + Interval + NotifyTimeout

VARIABLES loop,      \* where the main thread is
          hung,      \* the main thread is stuck there
          stalled,   \* history: it was stuck once since this process began
          stop,      \* _STOP, set by the signal handler
          elapsed,   \* time since main last read the clock in beat()
          age,       \* time since the stored stamp: what Heartbeat.age returns
          slept,     \* slices of the wait between two polls that are over
          wd,        \* where the watchdog thread is
          wt         \* time since it began to sleep, or to notify

watchdogVars == <<loop, hung, stalled, stop, elapsed, age, slept, wd, wt>>

Phases == {"boot", "top", "beating", "poll", "sleep", "closing", "gone"}
WatchPhases == {"off", "check", "measure", "sleep", "notify", "ended"}

\* A signal is handled, and the watchdog is there, from the loop on.
Looping == loop \in {"top", "beating", "poll", "sleep", "closing"}

WatchdogTypeOK ==
    /\ loop \in Phases /\ wd \in WatchPhases
    /\ hung \in BOOLEAN /\ stalled \in BOOLEAN /\ stop \in BOOLEAN
    /\ elapsed \in 0 .. MaxAge /\ age \in 0 .. MaxAge
    /\ slept \in Nat /\ wt \in Nat

WatchdogInit ==
    /\ loop = "boot" /\ wd = "off"
    /\ hung = FALSE /\ stalled = FALSE /\ stop = FALSE
    /\ elapsed = 0 /\ age = 0 /\ slept = 0 /\ wt = 0

-----------------------------------------------------------------------------
(* The main thread                                                         *)

\* A bug: the watchdog starts without the baseline beat.
EnterLoop_NoBaseline ==
    /\ loop = "boot"
    /\ loop' = "top" /\ wd' = "check"
    /\ UNCHANGED <<hung, stalled, stop, elapsed, age, slept, wt>>

\* reconcile is done: one beat, then the watchdog thread is started.
EnterLoop ==
    /\ loop = "boot"
    /\ loop' = "top" /\ wd' = "check"
    /\ elapsed' = 0 /\ age' = 0
    /\ UNCHANGED <<hung, stalled, stop, slept, wt>>

\* reconcile halted the bot, or something raised outside of the loop's handler.
LeaveBoot ==
    /\ loop = "boot"
    /\ loop' = "gone"
    /\ UNCHANGED <<hung, stalled, stop, elapsed, age, slept, wd, wt>>

\* while not _STOP: the clock is read outside of the heartbeat's lock ...
ReadClock ==
    /\ loop = "top" /\ ~hung /\ ~stop
    /\ loop' = "beating"
    /\ elapsed' = 0
    /\ UNCHANGED <<hung, stalled, stop, age, slept, wd, wt>>

\* ... and the stamp is stored under it.
StoreBeat ==
    /\ loop = "beating" /\ ~hung
    /\ loop' = "poll"
    /\ age' = elapsed
    /\ UNCHANGED <<hung, stalled, stop, elapsed, slept, wd, wt>>

\* The poll returned or raised; or it halted, or the KILL file was there.
PollEnds ==
    /\ loop = "poll" /\ ~hung
    /\ loop' \in {"sleep", "closing"}
    /\ UNCHANGED <<hung, stalled, stop, elapsed, age, slept, wd, wt>>

\* The wait is over: poll_seconds slices, or _STOP between two of them.
WaitEnds ==
    /\ loop = "sleep" /\ ~hung
    /\ slept = PollSeconds \/ stop
    /\ loop' = "top" /\ slept' = 0
    /\ UNCHANGED <<hung, stalled, stop, elapsed, age, wd, wt>>

LeaveLoop ==
    /\ loop = "top" /\ ~hung /\ stop
    /\ loop' = "closing"
    /\ UNCHANGED <<hung, stalled, stop, elapsed, age, slept, wd, wt>>

\* The state is saved and main returns; its daemon threads go with it.
Shutdown ==
    /\ loop = "closing" /\ ~hung
    /\ loop' = "gone" /\ wd' = "off"
    /\ UNCHANGED <<hung, stalled, stop, elapsed, age, slept, wt>>

\* A call that never comes back, such as the time.sleep of the incident.
Hang ==
    /\ Looping /\ ~hung
    /\ hung' = TRUE /\ stalled' = TRUE
    /\ UNCHANGED <<loop, stop, elapsed, age, slept, wd, wt>>

\* ... or that comes back after all.
Resume ==
    /\ Looping /\ hung
    /\ hung' = FALSE
    /\ UNCHANGED <<loop, stalled, stop, elapsed, age, slept, wd, wt>>

Signal ==
    /\ Looping /\ ~stop
    /\ stop' = TRUE
    /\ UNCHANGED <<loop, hung, stalled, elapsed, age, slept, wd, wt>>

\* The container starts a new process: new globals, a new Heartbeat.
Restart ==
    /\ loop = "gone"
    /\ loop' = "boot"
    /\ hung' = FALSE /\ stalled' = FALSE /\ stop' = FALSE
    /\ elapsed' = 0 /\ age' = 0 /\ slept' = 0 /\ wt' = 0
    /\ UNCHANGED wd

-----------------------------------------------------------------------------
(* The watchdog thread                                                     *)

\* while not stop_check()
StopCheck ==
    /\ wd = "check"
    /\ wd' = IF stop THEN "ended" ELSE "measure"
    /\ UNCHANGED <<loop, hung, stalled, stop, elapsed, age, slept, wt>>

is_stale(a) == a >= Timeout

Measure ==
    /\ wd = "measure"
    /\ wd' = IF is_stale(age) THEN "notify" ELSE "sleep"
    /\ wt' = 0
    /\ UNCHANGED <<loop, hung, stalled, stop, elapsed, age, slept>>

Wake ==
    /\ wd = "sleep" /\ wt = Interval
    /\ wd' = "check"
    /\ UNCHANGED <<loop, hung, stalled, stop, elapsed, age, slept, wt>>

\* _notify_bounded returned; on_timeout is os._exit(1).
Exit ==
    /\ wd = "notify"
    /\ loop' = "gone" /\ wd' = "off"
    /\ UNCHANGED <<hung, stalled, stop, elapsed, age, slept, wt>>

-----------------------------------------------------------------------------
(* The clock                                                               *)

Older(t) == IF t < MaxAge THEN t + 1 ELSE t

\* A bug: the notification is sent without a time limit.
WatchdogInTime_Unbounded == /\ wd \notin {"check", "measure"}
                            /\ wd = "sleep" => wt < Interval

\* The watchdog thread is never late.
WatchdogInTime == /\ wd \notin {"check", "measure"}
                  /\ wd = "sleep" => wt < Interval
                  /\ wd = "notify" => wt < NotifyTimeout

Elapse ==
    /\ WatchdogInTime
    /\ elapsed' = Older(elapsed) /\ age' = Older(age)
    /\ slept' = IF loop = "sleep" /\ slept < PollSeconds THEN slept + 1 ELSE slept
    /\ wt' = IF wd \in {"sleep", "notify"} THEN wt + 1 ELSE wt
    /\ UNCHANGED <<loop, hung, stalled, stop, wd>>

\* In a process that was never stuck a turn of the loop is done within IterationMax.
TurnInTime == Looping => /\ elapsed < IterationMax
                         /\ loop = "beating" => elapsed < LagMax

Tick == Elapse /\ (stalled \/ TurnInTime)

-----------------------------------------------------------------------------

MainStep == \/ EnterLoop \/ ReadClock \/ StoreBeat \/ PollEnds \/ WaitEnds
            \/ LeaveLoop \/ Shutdown

WatchdogStep == StopCheck \/ Measure \/ Wake \/ Exit

WatchdogNext == \/ MainStep \/ LeaveBoot \/ Hang \/ Resume \/ Signal \/ Restart
                \/ WatchdogStep \/ Tick

WatchdogSpec == WatchdogInit /\ [][WatchdogNext]_watchdogVars

-----------------------------------------------------------------------------

\* A loop that does not turn is ended: as long as no graceful shutdown was asked
\* for, the heartbeat never gets older than the timeout, one more interval and
\* the time granted to the notification, however badly Telegram behaves.
HangIsEnded ==
    Looping /\ ~stop => age < Timeout + Interval + NotifyTimeout

\* A loop that turns is left alone: if the turns are shorter than the timeout,
\* the watchdog ends no process whose main thread was never stuck, not even
\* after a boot that took longer than the timeout.
NoFalseAlarm ==
    IterationMax + LagMax < Timeout /\ wd = "notify" => stalled
=============================================================================
