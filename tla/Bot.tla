-------------------------------- MODULE Bot --------------------------------
(***************************************************************************)
(* The whole bot: main's loop and its exception handler (src/main.py), the *)
(* stored state (src/state.py) and reconcile at boot (src/executor.py),    *)
(* around the polls of Executor.                                           *)
(*                                                                         *)
(* There are three copies of the State: st, the one the running poll works *)
(* on; mem, main's variable `state`, which a poll replaces only when it    *)
(* returns; disk, the row of the SQLite store.  A poll that raises leaves  *)
(* mem as it was; a process that dies leaves disk.  The container restarts *)
(* a process whatever way it ended (docker-compose.yml, restart: always).  *)
(***************************************************************************)
EXTENDS Executor

VARIABLES mem, disk,
          kill,      \* does the KILL file exist?
          absorbed   \* history: the transfers that each copy has taken into its cash

historyVars == <<unaware, dirty, absorbed>>
vars == <<exchangeVars, st, pollVars, historyVars, mem, disk, kill>>

\* No process, nothing stored: a State that start_cycle never returns.
NoState == start_cycle(0, 0)

\* Between the start of a process and its first save there is no mem.
Booting == mem = NoState

Init ==
    /\ ExchangeInit
    /\ st = NoState /\ mem = NoState /\ disk = NoState
    /\ pc = "down"
    /\ todo = <<>> /\ steps = 0 /\ progressed = FALSE /\ deposit = FALSE
    /\ unaware = {} /\ dirty = FALSE
    /\ absorbed = [copy \in {"st"} \cup Copies |-> 0]
    /\ kill = FALSE

\* The venue gives every new order an id of its own; the model reuses the ids
\* that are neither open nor remembered by any copy.
FreshIds ==
    {i \in OrderIds : ~IsOpen(i) /\ \A s \in {st, mem, disk} : s.open_limit.id # i}

\* What the history says of a copy goes where the copy goes.
Carry(from, to) == absorbed' = [c \in DOMAIN absorbed |->
                                  IF c \in to THEN absorbed[from] ELSE absorbed[c]]

\* The working state takes the cash as the account has it.
TakeCash == absorbed' = [absorbed EXCEPT !["st"] = moved]

-----------------------------------------------------------------------------
(* The main loop                                                           *)

\* while not _STOP: no KILL file, so run_poll_once begins.
BeginPoll ==
    /\ pc = "idle" /\ ~kill
    /\ st' = refresh_open_limit(st)
    /\ Goto("topup")
    /\ UNCHANGED <<exchangeVars, unaware, absorbed, mem, disk, kill>>
    /\ dirty' = (dirty \/ RestForgotten(st))

\* A bug: the loop saves what the poll returned and goes on with what it had.
Save_Unassigned ==
    /\ pc = "save"
    /\ disk' = st
    /\ mem' = IF Booting THEN st ELSE mem
    /\ st' = mem' /\ Leave("idle")
    /\ Carry("st", Copies)
    /\ unaware' = {}
    /\ UNCHANGED <<exchangeVars, dirty, kill>>

\* store.save.  A state that reconcile halted is saved and the process exits.
Save ==
    /\ pc = "save"
    /\ disk' = st
    /\ IF st.status = "HALTED"
       THEN st' = NoState /\ mem' = NoState /\ Leave("down")
       ELSE st' = st /\ mem' = st /\ Leave("idle")
    /\ Carry("st", Copies)
    /\ unaware' = {}
    /\ UNCHANGED <<exchangeVars, dirty, kill>>

\* The exception handler: the loop goes on with the state of the last poll
\* that returned.  An order sent since then is known to no copy.
PollRaises ==
    /\ ~Booting
    /\ st' = mem
    /\ Leave("idle")
    /\ Carry("mem", {"st"})
    /\ unaware' = unaware \ {"mem"}
    /\ UNCHANGED <<mem, disk, kill>>

\* The process ends without a save.
Dies ==
    /\ st' = NoState /\ mem' = NoState
    /\ Leave("down")
    /\ unaware' = {}
    /\ UNCHANGED <<absorbed, disk, kill>>

\* At boot there is no handler: an exception ends the process.
Raises(sent) ==
    \/ PollRaises /\ dirty' = (dirty \/ sent \/ "mem" \in unaware)
    \/ Booting /\ Dies /\ dirty' = (dirty \/ sent \/ "disk" \in unaware)

\* run_poll_once returned, so mem is new, but store.save raised.
SaveFails ==
    /\ "save_error" \in Events
    /\ pc = "save"
    /\ IF Booting
       THEN Dies /\ dirty' = (dirty \/ "disk" \in unaware)
       ELSE /\ mem' = st /\ Leave("idle")
            /\ Carry("st", {"mem"})
            /\ unaware' = unaware \ {"mem"}
            /\ UNCHANGED <<st, disk, kill, dirty>>
    /\ UNCHANGED exchangeVars

\* SIGTERM, or the KILL file found at the top of the loop: save and exit.
Stop ==
    /\ pc = "idle"
    /\ kill \/ "stop" \in Events
    /\ disk' = mem
    /\ st' = NoState /\ mem' = NoState
    /\ Leave("down")
    /\ Carry("mem", {"disk"})
    /\ unaware' = {}
    /\ UNCHANGED <<exchangeVars, dirty, kill>>

\* The process is killed, by the host or by the watchdog's os._exit.
Crash ==
    /\ "crash" \in Events
    /\ pc # "down"
    /\ Dies
    /\ dirty' = (dirty \/ "disk" \in unaware)
    /\ UNCHANGED exchangeVars

-----------------------------------------------------------------------------
(* Boot: main up to its loop, and reconcile                                *)

Halted(s) == [s EXCEPT !.status = "HALTED"]

\* The first start of all.
BootFresh ==
    /\ pc = "down" /\ disk = NoState
    /\ st' = IF free < MinNotional THEN Halted(start_cycle(free, 1))
             ELSE start_cycle(free, 1)
    /\ Goto("save")
    /\ TakeCash
    /\ UNCHANGED <<exchangeVars, unaware, dirty, mem, disk, kill>>

\* A bug: reconcile drops the saved order instead of asking for it.
BootFetchOrder_Drops ==
    /\ pc = "down" /\ disk # NoState
    /\ st' = on_limit_canceled(disk)
    /\ Goto("boot_balance")
    /\ Carry("disk", {"st"})
    /\ UNCHANGED <<exchangeVars, unaware, dirty, mem, disk, kill>>

\* reconcile folds what the saved order filled while the bot was down.
BootFetchOrder ==
    /\ pc = "down" /\ disk # NoState
    /\ st' = refresh_open_limit(disk)
    /\ Goto("boot_balance")
    /\ Carry("disk", {"st"})
    /\ UNCHANGED <<exchangeVars, unaware, mem, disk, kill>>
    /\ dirty' = (dirty \/ RestForgotten(disk))

\* Whatever fetch_order raises at boot halts the bot.
BootFetchFails ==
    /\ "read_error" \in Events
    /\ pc = "down" /\ disk # NoState /\ disk.open_limit # NoLimit
    /\ st' = Halted(disk)
    /\ Goto("save")
    /\ Carry("disk", {"st"})
    /\ UNCHANGED <<exchangeVars, unaware, dirty, mem, disk, kill>>

\* The base balance is compared with the position.  The code tolerates a lot
\* or half a percent, less than one unit here.
BootCheckBalance ==
    /\ pc = "boot_balance"
    /\ IF base = st.position_qty
       THEN st' = st /\ Goto("topup")
       ELSE st' = Halted(st) /\ Goto("save")
    /\ UNCHANGED <<exchangeVars, historyVars, mem, disk, kill>>

-----------------------------------------------------------------------------
(* The environment                                                         *)

\* More than fallback_hours pass between two polls, or while the bot is down.
Aged(s) == [s EXCEPT !.last_fill_time = IF @ = "recent" THEN "elapsed" ELSE @]

TimePasses ==
    /\ pc \in {"idle", "down"}
    /\ \E s \in {st, mem, disk} : Aged(s) # s
    /\ st' = Aged(st) /\ mem' = Aged(mem) /\ disk' = Aged(disk)
    /\ UNCHANGED <<exchangeVars, pollVars, historyVars, kill>>

\* The operator creates or removes the KILL file between two polls.
ToggleKill ==
    /\ "kill" \in Events
    /\ pc \in {"idle", "down"}
    /\ kill' = ~kill
    /\ UNCHANGED <<exchangeVars, st, pollVars, historyVars, mem, disk>>

-----------------------------------------------------------------------------

\* The calls of a poll that return.
PollStep ==
    /\ \/ TopupDisabled(Booting) \/ TopupNothing(Booting)
       \/ TopupCandidate(Booting) \/ TopupYieldsToTakeProfit(Booting)
       \/ TopupConfirmed \/ Resplit(Booting)
       \/ Decide
       \/ \E swallowed \in BOOLEAN : CancelLimit(Booting, swallowed)
       \/ MarketBuy(Booting) \/ NothingToBuy(Booting)
       \/ \E i \in FreshIds : PlaceLimitBuy(i)
       \/ SellAll \/ StartNewCycle
    /\ IF pc \in {"resplit", "newcycle"} THEN TakeCash ELSE UNCHANGED absorbed
    /\ UNCHANGED <<mem, disk, kill>>

\* The calls of a poll, or of a boot, that raise.
FailureStep ==
    \/ CallRaises(FreshIds) /\ Raises(FALSE)
    \/ CancelThenRaises /\ Raises(FALSE)
    \/ OrderLost(FreshIds) /\ Raises(TRUE)

BootStep == BootFresh \/ BootFetchOrder \/ BootFetchFails \/ BootCheckBalance

VenueStep == ExchangeStep /\ UNCHANGED <<st, pollVars, historyVars, mem, disk, kill>>

Next == \/ BeginPoll \/ PollStep \/ FailureStep \/ Save \/ SaveFails
        \/ Stop \/ Crash \/ BootStep
        \/ VenueStep \/ TimePasses \/ ToggleKill

Spec == Init /\ [][Next]_vars

\* The process keeps running while it is up and is restarted when it is not;
\* 24 hours go by sooner or later; and the price does not, at each poll that
\* confirms a transfer, touch the take-profit level just for that moment.
Runs == BeginPoll \/ PollStep \/ FailureStep \/ Save \/ BootStep

Fairness == /\ WF_vars(Runs)
            /\ SF_vars(TimePasses)
            /\ SF_vars(TopupConfirmed /\ UNCHANGED <<absorbed, mem, disk, kill>>)

FairSpec == Spec /\ Fairness

-----------------------------------------------------------------------------
(* Invariants of the copies of the State, whatever failed                  *)

\* Every variable has its type.
TypeOK == /\ ExecutorTypeOK
          /\ st \in State /\ mem \in State /\ disk \in State
          /\ kill \in BOOLEAN
          /\ absorbed \in [{"st"} \cup Copies -> Int]

\* In every copy a step in progress can be completed: a tranche is left for it,
\* the cash covers it, the fallback will buy it and the timer runs (StepOK,
\* FundedOK and TimerOK of Strategy).
StepsAreSound == \A s \in {st, mem, disk} : StepOK(s) /\ FundedOK(s) /\ TimerOK(s)

\* In every copy a remembered limit order is the step in progress, and a state
\* that buys no more has none (LimitOK and ExhaustedOK of Strategy).
LimitsAreSteps == \A s \in {st, mem, disk} : LimitOK(s) /\ ExhaustedOK(s)

\* The tranches of the split that no step has begun to use.
TranchesLeft(s) ==
    N - s.tranches_used - (IF s.step_target_usdt > 0 THEN 1 ELSE 0)

Covered(s) ==
    s.cycle_cash_remaining + Overshoot * s.tranches_used
      >= s.tranche_usdt * TranchesLeft(s)
           + (IF s.step_target_usdt > 0 THEN Remaining(s) ELSE 0)

\* The pace of the split: in every copy the cash of the cycle covers what is
\* left of the step in progress and a whole tranche for every step to come,
\* up to what the orders of the completed steps cost beyond their amount, the
\* fee of a limit buy or the fee and rounding of a market buy.  So no step
\* ever buys more than its own tranche and one such excess, in whatever order
\* partial fills, cancels, fallbacks, discarded polls and restarts come.
TranchesAreCovered == \A s \in {st, mem, disk} : Covered(s)

-----------------------------------------------------------------------------
(* The books against the venue                                             *)

\* The state a crash at this moment leaves the bot with: the working one, as
\* long as the process lives.
Known == IF pc = "down" THEN disk ELSE st

\* What the limit order that s remembers has filled, with the orders os at the
\* venue, and s has not booked yet.
Unseen(s, os) == IF s.open_limit = NoLimit THEN 0
                 ELSE os[s.open_limit.id].filled - s.open_limit.filled_quote_seen

Unfolded == Unseen(Known, orders)

\* Unless an order was lost, the position is the base balance, up to the fills
\* of the known limit order: every fill is folded exactly once, through
\* polls, cancel races, discarded polls, crashes and reconcile.
BaseBooks == ~dirty /\ pc # "newcycle" => base = Known.position_qty + Unfolded

\* The transfers that the known state has not taken into its cash.
Unabsorbed == moved - absorbed[IF pc = "down" THEN "disk" ELSE "st"]

\* Likewise for the cash: the account is the cash of the cycle, up to the fills
\* not yet folded and the transfers since the cash was last read from it.  A
\* transfer is counted once, whichever copy the bot falls back to.
CashBooks == ~dirty /\ pc # "newcycle" /\ Known # NoState
                => usdt = Known.cycle_cash_remaining - Unfolded + Unabsorbed

\* Unless an order was lost, every live order is the one the state knows.
OrdersTracked ==
    ~dirty => \A i \in OrderIds : IsOpen(i) => Known.open_limit.id = i

\* The two ways of filling a step exclude each other: when the bot is about to
\* buy at market, or to sell, no limit buy is live.
OneSideOfOco ==
    ~dirty /\ Call \in {"MarketBuy", "SellAll"} => OpenOrders = {}

-----------------------------------------------------------------------------
(* What a step may never do                                                *)

\* A halted state without a saved limit order stays halted, through every
\* restart.
HaltIsKept ==
    [][disk.status = "HALTED" /\ disk.open_limit = NoLimit
         => disk'.status = "HALTED" /\ disk'.open_limit = NoLimit]_vars

\* The stored row never goes back: its cycle never falls, and within a cycle no
\* position once saved is forgotten, whatever order saves, failed saves,
\* discarded polls, crashes and restarts come in.
RowNeverGoesBack ==
    [][/\ disk.cycle_id <= disk'.cycle_id
       /\ disk.cycle_id = disk'.cycle_id => disk.position_qty <= disk'.position_qty]_vars

-----------------------------------------------------------------------------
(* What must happen in the end                                             *)

\* The OR in the strategy: a step once begun is completed, by its limit order
\* or else by the 24 h fallback, even if the order expires half filled.
StepCompletes == st.ref /\ st.step_target_usdt > 0 ~> st.step_target_usdt = 0

\* A cycle with the cash for it gets its first fill, and with it a reference
\* price and a timer.
BootstrapCompletes ==
    ~st.ref /\ compute_tranche(st.cycle_cash_remaining) >= MinNotional ~> st.ref

\* A transfer ends up in the split: from some time on the cash of the cycle
\* differs from the account by no more than the threshold.
TransfersAbsorbed ==
    <>[](Distance(usdt, Known.cycle_cash_remaining - Unfolded) <= Threshold)
=============================================================================
