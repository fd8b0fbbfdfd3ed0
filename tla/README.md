# A verification of the infinite-buy BTC bot

The bot buys BTC in N equal tranches: the first at market, each next one with a
limit order below the last fill or, if that does not fill within 24 hours, at
market. When the price reaches the take-profit level it sells everything and
starts a new cycle with all the cash. This directory holds TLA+ modules of that
program, TLC configurations that check them on small instances, and TLAPS proofs
about them. Line numbers refer to the repository's own `src/` and `README.md`.

## 1. Inventory

| part | state | operations | talks to |
|---|---|---|---|
| strategy core, `strategy.py` | the immutable `State` record | `decide`; reducers `start_cycle`, `apply_topup`, `apply_buy_fill`, `on_limit_placed`, `on_limit_canceled`, `update_limit_seen` | nobody (pure) |
| executor, `executor.py` | the working copy of the state during a poll | `refresh_open_limit`, `check_and_apply_topup`, `execute_action`, `run_poll_once`, `reconcile` | strategy core, exchange |
| live wrapper, `exchange.py: CcxtExchange` | market metadata read at boot | reads with retry, orders without, `cancel_order` that swallows errors, `_drive_to_close` | the venue (Kraken through CCXT) |
| paper exchange, `exchange.py: PaperExchange` | virtual balances and orders | the same interface, `resume_from` | public prices |
| main, `main.py` | `state`, `_STOP`, ATR of the day | boot, polling loop, exception handler, KILL file, SIGTERM | all others |
| state store, `state.py` | one SQLite row | `load`, `save` | main |
| watchdog, `watchdog.py` | time of the last heartbeat | `beat`, the daemon thread, `os._exit` | main, the container's restart policy |
| ATR, `atr.py`; backtest, `backtest.py` | none; a simulation | pure computations | strategy core |
| notifier, `notifier.py` | none | `notify` | Telegram |

What makes it hard. The bot is one thread, but the venue is not: orders fill,
expire and are canceled, and money is moved, between any two of its calls. There
are three copies of the state with different lives (the one a poll works on, the
one main keeps when a poll raises, the row on disk that survives the process),
and orders are sent in between. A container restarts the process whatever way it
ended. The bot sees its own fills and the operator's transfers through the same
balance and must tell them apart.

What makes each part correct:

- strategy core: a step once begun can always be completed; a remembered limit
  order *is* the step in progress; a step is funded.
- executor: each fill is booked exactly once; the two ways of completing a step
  (limit or market) exclude each other; a tranche is not bought twice; a transfer
  ends up in the split and nothing else does.
- main and store: no restart or raised exception makes the books differ from the
  venue, except where an order was really lost; a halt stays; the stored row
  never goes back.
- live wrapper: a call about an order executes it once or not at all; what it returns
  as ended is final; its retries stay within a bounded time.
- paper exchange: a restart agrees with the stored state, coin by coin and
  order by order.
- watchdog: a hang is ended in time, a live loop never.
- ATR and backtest: no number of the future is used, no cent and no grain is
  lost, and a take-profit is a profit.

## 2. Modules

| module | models | contents |
|---|---|---|
| `Strategy` | `strategy.py`, `_fold_order_progress` | `State`, `decide`, the reducers as operators; the predicates `StepOK` ... `StateOK` they keep |
| `Exchange` | `CcxtExchange` and the venue behind it | orders, balances; fills, expiries, transfers; one operator per call |
| `Executor` | one poll of `executor.py` | a program counter between any two calls, one action per call or early return, the calls that raise |
| `Bot` | `main.py`, `state.py`, `reconcile` | the three copies, boot, loop, failures, `Spec`, `FairSpec`, properties |
| `BotClaims` | comments and README | claims that the code does not keep |
| `OneShotOrder` | the docstring of `exchange.py` and what `executor.py` relies on | the abstract contract of a call about one order |
| `OrderCalls` | `CcxtExchange`, inside a call | the requests of a call, retries, refusals, lost answers, late effects; implements `OneShotOrder` |
| `Watchdog` | `watchdog.py` and the loop of `main.py` | two threads, heartbeat, clock, hangs, signals, `os._exit` |
| `Supervised` | the composition | `Watchdog` over `OrderCalls`, with a time limit for each request; implements `Watchdog` |
| `DryRun` | `PaperExchange` under `executor.py` and `main.py` | the actions of `Bot` that touch no venue, and those that do over the paper exchange |
| `Prices` | `atr.py`, the price functions of `strategy.py` | ranges, Wilder's smoothing, the chase width, roundings, the take-profit level |
| `Backtest` | `backtest.py` | bars, `BacktestExchange`, the ATR of the day, under the decisions of `Strategy` |
| `MCBot`, `MCSupervised`, `MCDryRun`, `MCBacktest` | | the values of the configurations |
| `StrategyProofs` | | lemmas on the reducers |
| `BotProofs` | | the inductive invariant; types, soundness of the copies, halts |
| `TrackingProofs` | | its extensions with the venue (what is live is known) and with the order of the copies (the row never goes back) |
| `BooksProofs` | | its extension with the money: the books of each copy and the venue, the cash for the tranches to come |
| `DryRunProofs` | | the paper account, its orders and their ids |
| `SupervisedProofs` | | the watchdog; the contract, the bound on a turn and both refinements |
| `AtrProofs` | | `Prices`: what Wilder's smoothing reads, where the chase lies |
| `BacktestProofs` | | the books of a backtest, the ATR of the day, the fills, the gains |

`Bot` extends `Executor`, which extends `Strategy` and `Exchange`; `DryRun` extends
`Bot`. `Supervised` extends `Watchdog` and `OrderCalls`, and `OrderCalls` instantiates
`OneShotOrder`. `Backtest` extends `Strategy` and `Prices`.

The sections State, Actions and What is abstracted are about `Bot` and the modules under it.
The others follow them.

### State

- `st`, `mem`, `disk`: the working copy, main's variable `state`, the stored row.
  `run_poll_once` returns a new state only at its end, so a poll that raises goes
  back to `mem`. `NoState` stands for "no process" and "nothing stored";
  `mem = NoState` means the process is still booting.
- `pc`, `todo`, `steps`, `progressed`, `deposit`: where the poll is, the actions
  of the current decision still to run, the iterations of
  `for _ in range(MAX_STEPS_PER_POLL)`, and the sign of a confirmed transfer,
  which the code reads before it cancels and uses after.
- `orders`, `usdt`, `free`, `base`, `flows`: what the venue would answer.
- `moved`, `absorbed`: history. `moved` is what the transfers so far add up to,
  and `absorbed` how much of that each copy of the state has taken into its cash,
  at a new cycle or a re-split; it travels with the copy (`Carry`, `TakeCash`).
- `kill`: the KILL file.
- `unaware`, `dirty`: history, read by properties only. `unaware` holds the
  stored copies that do not know of an order already sent. `dirty` becomes true
  when an order is lost for good: the copy that knew of it was discarded, the
  answer of the venue never came, a cancel failed silently, or a step was completed
  with a rest of its order still live.

### Actions

| code | action |
|---|---|
| `while not _STOP`, `refresh_open_limit` | `BeginPoll` |
| `check_and_apply_topup`, its returns at 137, 151, 165, 171 | `TopupDisabled`, `TopupNothing`, `TopupCandidate`, `TopupYieldsToTakeProfit` |
| the same, 167-178 and 180-195 | `TopupConfirmed`, then `CancelLimit`, `Resplit`, `MarketBuy` |
| `decide` in `run_poll_once` | `Decide` |
| `execute_action` | `CancelLimit`, `MarketBuy`, `NothingToBuy`, `PlaceLimitBuy`, `SellAll`, `StartNewCycle` |
| `store.save`; an exception in it | `Save`; `SaveFails` |
| an exception in a poll or at boot | `FailureStep` (`CallRaises`, `CancelThenRaises`, `OrderLost` with `Raises`) |
| `reconcile` | `BootFresh`, `BootFetchOrder`, `BootFetchFails`, `BootCheckBalance`, then the top-up actions |
| SIGTERM or KILL at the top of the loop | `Stop` |
| the process dies | `Crash` |
| the venue, the operator, the clock | `ExchangeStep`, `ToggleKill`, `TimePasses` |

An action covers everything between two calls to the venue; a call that changes
the venue and the assignment of its result are one action when the code does
nothing else in between, and `FailureStep` has the case where the call took
effect and the result never arrived.

### What is abstracted

- Money is an integer number of units; `cash / n` is rounded down. A position is
  counted at cost, so `position_qty` stands for `invested_usdt` too. A fee is part of
  the cost of a fill, as `_normalize` books it (`exchange.py:168-175`). `CostErrors` is what a
  market buy may cost beside the asked amount, and `LimitFees` the fee in quote that a limit buy of
  a tranche costs on top of it: a limit order that fills in full costs more than its
  `open_limit.usdt`. `Overshoot` is the largest of these excesses. That the venue reserves the fee
  when the order is placed, and refuses an order whose fee is not there, is an assumption about
  the venue; a part of the fee is booked with each partial fill. With a fee the last tranche of a
  cycle, which asks for all the cash, is therefore refused, for as long as nothing is paid in
  (a hazard of `PROJECT.json`). That an amount rounded down to the lot may cost less is modelled for
  market buys only.
- A price appears only as the answer to "does it reach take profit?", chosen
  freely at each read (`PriceReads`). The tolerance of `reconcile` (a lot, or half
  a percent) is less than one unit.
- `last_fill_time` is `none`, `recent` or `elapsed`. 24 hours pass only between polls
  or while the bot is down (`TimePasses`).
- `Hold` is the empty list of actions.
- `fetch_base_balance` and the sale that follows are one step; so are the failed
  final save and a crash at `idle`. A failed read in `refresh_open_limit` leaves
  everything as it was and needs no action.
- The lagging balance that `executor.py:133-134` reports of Kraken needs no action
  of its own: a fill between two reads has the same effect.
- Order ids are reused once they are neither live nor remembered (`FreshIds`).
- `topup_enabled` and `topup_immediate_buy_on_deposit` are on, as in `config.yaml`.

Bounds, all of them constants or guards: `OrderIds`, `FillSizes`, `FlowSizes`,
`MaxFlows`, `CostErrors`, `LimitFees`, `MaxCycles` (no take-profit price in the last cycle), `Events` (what
may go wrong in a run).

### The calls of the wrapper: `OneShotOrder` and `OrderCalls`

`Executor` takes a call to the venue for one step. `OneShotOrder` says what that relies
on: a market order returns only when it is executed in full, and reports what was
executed; an answer that calls an order ended is final; an order is executed once; a
call that raises promises nothing but that. `OrderCalls` opens the call up. `at` is the request that
is due (`check`, `create`, `price`, `fallback`, `cancel`, `fetch`), `failed` counts the tries
of `_retry`, `polls` those of `_drive_to_close`, and `placed` has the two orders a
market buy may leave at the venue: by cost, and sized in base after a refusal. A request may fail
before or after it took effect, and an order whose sender gave up may still arrive
(`Arrive`), after the call has raised. The mapping to `OneShotOrder` adds up what both orders
have executed. `OrderLost` of `Executor` decides at once whether an order whose call raised
was executed; in `OrderCalls` it may also be executed later. For the bot both are an order it does not know.

| code | action |
|---|---|
| a method is called | `BeginCall` |
| precision and minimum checks, empty sale | `Check` |
| `create_*_order`: accepted, refused, no answer | `Accepted`, `Refused`, `AnswerLost` |
| `fetch_price` of the second way | `PriceRead` |
| `cancel_order`, errors swallowed | `Cancel` |
| `fetch_order`, `_drive_to_close` | `Fetched` |
| `_retry` | `ReadFails` |

### The watchdog: `Watchdog` and `Supervised`

`age` is what `Heartbeat.age` returns and `elapsed` the time since main read the clock:
`beat` reads it outside the lock (`ReadClock`) and stores it inside (`StoreBeat`). `Hang`
stops the main thread anywhere in the loop, also before and during a beat, and `Resume` lets it
go on. `stalled` remembers that it hung. The watchdog thread checks, sleeps and notifies;
its own steps take no time, its sleep and the join on the notification do. A tick
is a second of `time.sleep(1)`. In `Watchdog` a turn of the loop is shorter than `IterationMax`
by assumption. In `Supervised` that follows from what a poll is made of: up to `PollOrders` calls about
orders, one after another (`BeginOrderCall`, then the requests of `OrderCalls`), and before, between and after
them up to `PollReads` other requests (`BeginRead`, `EndRead`): the daily candles, balances and prices, with each
try of a read counted, and notifications. A call that raises is the last of its poll; the poll
may end anywhere between two requests (`EndPoll`), and `os._exit` may come during any. Which calls follow which is
left open, as the bound does not depend on it; `Executor` has their order. Each request has `CallTime`, which stands
for the time-out of `ccxt` (or of the notification) and the wait before the next try. `PollTime` is all of that at its worst,
and `IterationBound` says that it fits into a turn, with the delay of the beat, the wait and the shutdown.

For the code as it is, `PollOrders` is at most 3 + 2 * 6 = 15: `fetch_order` in the refresh; a cancel and a market
buy in a re-split; two orders in each of six decisions. `PollReads` is at most 19 + 11 * 6 = 85. With the deployed values
(22 looks of `_drive_to_close`, five tries, 20 s a try) one market order alone may take more than
the 600 s of `watchdog_timeout_seconds`, and a whole poll far more: the premise of `NoFalseAlarm` does not hold of the deployed
values, and a venue that slow is taken for a hang. The theorem says what the timeout would have to be.
The boot, which runs before the watchdog is started, is not watched, and neither is a shutdown once a signal has come.

### The paper exchange: `DryRun`

The actions of `Bot` that touch no venue are taken as they are. `DryBeginPoll`,
`DryCancelLimit`, `DryMarketBuy`, `DryPlaceLimitBuy` and the boot run over `book` (the keys of
`_orders`) and `seq` (`_seq`), which die with the process; `resume_from` rebuilds them. An
order fills in full when a price read touches it (a Boolean chosen at the read). Ids are what
`_next_id` gives out, not fresh by assumption as in `Bot`. `dirty` is true in a process that has
forgotten a trade, and false again after a restart.

### Prices and the backtest: `Prices` and `Backtest`

An action of `Backtest` is a bar (`NextBar`: `set_bar`, the refresh of the limit order, the day's ATR), a
decision or an action of it; nothing runs beside it. `qty` and `ref_price` are the parts of a `State`
that `Strategy` leaves out. Money and prices are whole units, the price that of a lot;
quantities are grains, `Grain` to the lot, and what the code computes in floats is rounded
down to the grain or unit. The ATR and the width of the chase are exact fractions. Any bar may
be the first after `fallback_hours`, a parameter, whatever its date: 24 hours after a fill at noon are over at
noon. After the last bar the run ends (`MaxBars`; hence no deadlock check). A chase as wide
as the whole price has no positive limit price; there the code divides by zero or orders at a negative
price, and the model stops. `MCBacktest` assumes that its instance has no such price.

## 3. What is checked

The runs of the bot use `MCBot`. The base instance has 2 tranches, 8 or 9 units of USDT, a minimum
order and a threshold of 2, a tranche of 4 filled in parts of 2 or at once, one
transfer of 4, two cycles and `MAX_STEPS_PER_POLL = 6`. Two tranches are the
least with which a cycle has a market buy, a chase and an exhausted state; a part of 2
leaves exactly a minimum order, the boundary of all three comparisons in the code; the ninth unit pays
for the fee of one limit order; a transfer of 4 exceeds the threshold and makes `cash / n` change. Two order ids
suffice for one remembered order and one lost one. Six decisions allow the longest sequence of a
poll (cancel and sell, buy, place, and what fills in between). Three tranches with these
events exceed twenty million states and are not kept.

### Runs that pass

- **bot_crash** (1.3 million states). The process dies between any two steps, reads and saves raise,
  orders expire, market buys fall short, limit buys cost a fee of one on top of their amount, money comes or goes, prices take profit, the KILL file
  stops the bot and it restarts. `BaseBooks` and `CashBooks`: the position and cash of the
  known state are those of the venue, up to the fills of the known limit order not folded
  yet and, for the cash, the transfers that this copy of the state has not absorbed, before and after a transfer. `OrdersTracked`: every live order is the one the state knows. `OneSideOfOco`: when a market
  order is about to be sent no limit buy is live. `TranchesAreCovered`: the cash of the cycle pays for
  what is left of the step and for a whole tranche for each step to come, up to one fee or rounding (`Overshoot`) for each completed step. `RowNeverGoesBack`: the stored row never returns to an earlier
  cycle or a smaller position. `StepsAreSound`, `TypeOK`. All this up to the point where
  an order is lost, where exploration ends (`UntilOrderLost`): past it the books are
  void by definition.
- **bot_faulty** (608 thousand states). Everything may go wrong, and exploration goes
  on after an order is lost. 13 units and tranches of 6, of which parts of 5 leave less than a minimum order; a transfer
  of 12 leaves less than one, one of 3 a smaller split; a market buy may cost one unit too much and a limit buy always does. In all three copies of the state a step remains completable
  and funded, a limit order is the step in progress (`StepsAreSound`,
  `LimitsAreSteps`), the cash covers the tranches (`TranchesAreCovered`, up to that unit for each completed step), and a halted row stays halted (`HaltIsKept`).
- **bot_liveness** (60 thousand states, `FairSpec`). `StepCompletes`: every step is completed even
  if its order expires half filled. `BootstrapCompletes`: a funded cycle gets its
  first fill. `TransfersAbsorbed`: a deposit reaches the split, whatever it races with.
- **supervised** (3.0 million states). A poll of up to two calls about orders and one other request, two tries of a
  read, one extra look of `_drive_to_close`, an order of two units (so that it may be filled in part), a timeout
  of 22 above the longest turn of 20 and the delay of one beat, interval and notification of one. Two calls are the least with which one
  follows another, and 20 is exactly the sum in `IterationBound`: one request more in a poll would break `TurnsAreBounded`.
  Ages are not told apart beyond `MaxAge`, which is larger than any age the
  properties speak of. `HangIsEnded`: the heartbeat is never older than timeout, interval and notification
  together, unless a stop was asked for. `NoFalseAlarm`: no process that never hung is ended.
  `OrdersAreOneShot`: the refinement of `OneShotOrder`. `TurnsAreBounded`: the refinement of `Watchdog`.
- **dry_run** (88 thousand states). Three tranches, two cycles, four ids, crashes at any step, failing prices and
  saves. `PaperBooks`: unless a trade of this process was forgotten, state and paper
  balances agree. `KnownOrdersExist`: an order any copy remembers is in `_orders`. `IdsAreFresh`: no id is given out twice.
  `NothingUnexplained`: `reconcile` finds no mismatch, and no trade is taken for a
  transfer. A limit order waits for an id that the bound allows. Exploration ends at the first order that is due after a
  trade was forgotten: from there on the paper account, which checks no funds, may go below zero, and the states
  do not end.
- **backtest** (490 thousand states). Five bars over two days, calm and wild daily candles with and without a gap or
  too few of them, three prices, lows that touch the limit or not, two seeds of which one cannot
  pay for an order, fees and slippage of 5 %. `NoLookAhead`: the ATR of a day is
  the one that `wilder_atr` gives for the candles of earlier days. `FillsAreLater`: no order is filled by the bar it was
  placed in. `CashIsFree` and `DustBelowLot`: account and state agree, and unsold rests never add
  up to a lot. `ChasesDown`: a limit lies below the last fill and costs no more than its tranche.
  `CyclesGain`: a cycle ends with more money than it had. The last holds where the margin is worth the slippage and
  the roundings (`Covers`, `Reaches`), which `MCBacktest` asserts of its instance; for a target smaller than the slippage it is false.

Safety under the watchdog needs no fairness: that a hang is ended *in time* is an invariant on the age, as the
clock cannot pass a point at which a thread is due.

### Fairness

`FairSpec` assumes weak fairness of the process (`Runs`): main loops for ever,
catches every exception of a poll, and the container restarts it (`restart:
always`, `docker-compose.yml`; `Restart=always`, `deploy/june-bot.service`). It
assumes that 24 hours pass sooner or later between two polls (`TimePasses`,
strong because a running poll disables it), and that the price does not return to the take-profit
level just at each poll that confirms a transfer (strong fairness of
`TopupConfirmed`). Fills are not assumed: the limit order may never fill. In
the liveness runs the process is not stopped from outside and calls fail only
when the venue cannot cover them.

### Claims the code does not keep

Each of these runs looks for a violation of something a comment or the README says,
and finds it.

- **remainder**, `NothingLiveBehindStep`. `strategy.py:305`: a step is complete when
  nothing more can be bought with the rest. A limit order of 4 fills 3; the rest of 1 is
  below the minimum, so `apply_buy_fill` completes the step and clears `open_limit`, and
  the order stays in the book unknown to the bot. When it fills, base and
  position differ.
- **uncertain**, `StopsWhenUncertain`. `main.py:182`: when uncertain, stop and notify. The bootstrap
  buy succeeds, the next `fetch_price` of the same poll raises, the handler keeps
  the state from before the poll, and the next poll buys the same tranche again.
- **kill_switch**, `KillStopsTrading`. `README.md:51`: with a KILL file the bot stops at the
  next poll. The file is read in the loop; `reconcile` runs before it. Two restarts
  see the same deposit, the second confirms it and buys a tranche.
- **bootstrap**, `BootstrapNeverStuck`. `strategy.py:205-206`: no gap where the bot
  stands still with `ref` None. A withdrawal confirmed before the first fill
  makes `apply_topup` clear the bootstrap step; without `ref`, step or position no branch of
  `decide` applies.
- **false_split**, `ResplitNeedsTransfer`. `executor.py:127`: no false detection. At
  two polls in a row a fill lands between `refresh_open_limit` and
  `fetch_total_usdt`; the two differences have the same sign and size, and the bot
  re-splits for a withdrawal nobody made. It takes three tranches of 6 filled in parts of 3.
- **withdrawal**, `TransfersAbsorbed` under `FairSpec`. `executor.py:123-129`: a withdrawal is
  detected and re-split. In the counterexample 4 of 8 USDT leave before the first buy.
  The next poll notes -4, spends the other 4 on the bootstrap tranche and raises when it
  places a limit order; the handler goes on with the state from before the poll, without
  the buy and without the note. From then on each poll notes a difference of -8, sends the
  bootstrap market buy again, and raises in `market_buy_quote`, since nothing is left to
  pay with; the handler throws the note away, so it is never confirmed.

## 4. What is proved

`tlapm` checks the proofs for all values of the constants, under the assumptions in the
modules: N, the minimum order, `MaxSteps` and `MaxCycles` positive; order ids and sizes
natural numbers, ids not 0; a market buy may miss its amount by integers and a limit buy cost natural
numbers more than it, and among all these there is a largest (`ExcessAssumption`);
candles in ascending order of dates; fees, slippage, target and floor proper fractions. The bound on a turn
(`IterationBound`) is an assumption of `Supervised`. Every safety and every action property of a passing run is a theorem.

`BotProofs`:

- `TypeCorrectness`: `Spec => []TypeOK`. The content is in the ranges: no
  negative free balance, step or fill; never more than `MaxSteps` decisions.
- `SoundSteps`: `Spec => []StepsAreSound`, and `LimitSteps`: `Spec => []LimitsAreSteps`, with
  every failure enabled.
- `HaltStands`: `Spec => HaltIsKept`.

None of them is inductive. That a fill keeps a step sound needs to know that there *is* a
step, and, when it is a market fill, that no limit order is remembered; both are facts about the decision
taken some calls earlier. `IInv` therefore adds `PlanOK` (which plans can be
under execution at each label, and what the state looked like when they were made: a
cancel only with an order, a market buy or a re-split only without one, a limit only where
the chase is due), `PaceOK` (the count of decisions), `Good` (all of `StateOK`, for all three copies) and
`HaltOK` (how a halted row travels through `reconcile`). `NextInv` has one case per action,
each a lemma of its own. `IInv` was checked with TLC on the instance of
`bot_faulty` before it was proved.

`StrategyProofs` holds what the cases rest on: each reducer keeps `StateOK`. The
central ones are `BuyFillSound` (a fill of any size completes the step or leaves a
minimum order of it), `FoldSound` (a cumulative fill, whatever was seen before) and
`TopupSound`.

`TrackingProofs`, on top of `IInv`:

- `TrackedOrders`: `Spec => []OrdersTracked`.
- `OneSide`: `Spec => []OneSideOfOco`.

Here the venue comes in. `Tracked` says of a copy of the state that every live order is the
one it remembers, and that what the order has filled and what it has left add up to what
was ordered. The sum is needed because a fold may complete the step while a rest is live: it
shows that such a rest is smaller than a minimum order, which is what `dirty`
records. And `Tracked` must hold of `mem` and `disk` too, as a poll that raises goes back to the
first and a process that dies to the second; `unaware` names the copies that an
order was sent behind, for which nothing is claimed. `Rested` (between two polls `st`
is `mem`) is what lets `Stop` save `mem`. The argument for `OneSide` is then
short: `PlanOK` gives that nothing is remembered at a market order, and what is not
remembered is not live. `TInv` held with TLC on the instances of
`bot_faulty` and `bot_crash` before it was proved.

The last part of `TrackingProofs`, on top of `IInv`: `StoredRowGrows`, `Spec => RowNeverGoesBack`. That a single
save does not go back needs that the row is behind both other copies while the process lives:
behind the working one, and behind main's once the first save has set it (`RowInv`). Every reducer moves the
working copy forward, a poll that raises moves it back to main's and no further, and a
restart begins at the row.

`BooksProofs`, on top of `TInv`; the invariant is `NInv`:

- `PositionIsBase`: `Spec => []BaseBooks`, and `CashIsUsdt`: `Spec => []CashBooks`. The books that hold of the
  known copy must hold of `mem` and `disk` too, each unless it is `unaware` of an order, and each up to the transfers
  that it has not absorbed: `absorbed` remembers that per copy, so the statement goes on after any number of deposits and withdrawals.
  A re-split and a new cycle read their cash from the account and so absorb all that has moved (`TakeCash`); a poll that is
  discarded gives it back (`Carry`). `CashBooks` further needs
  `Reserved`: what is not free is held by the one live order, its fee included, so that the free balance a
  new cycle starts from is all the cash. It also gives what the types leave open: until an order is lost,
  `usdt` is not negative.
- `CashCoversTheTranches`: `Spec => []TranchesAreCovered`, with every failure enabled and after an order is lost. `PaceInv`
  adds to it that an order a copy remembers never fills for more than its amount and the largest excess, nor less than was seen. For that the orders which any copy
  remembers must only move forward, whatever is discarded or read again (`Onward`); ids are given
  again only when no copy remembers them. What an order may cost too much, every limit order with a fee in quote and any market order, is counted
  once for each completed step (`Overshoot`).

`DryRunProofs`; the invariant is `PaperInv`: `PaperAccounts`, `RememberedOrdersExist`, `NumbersAreFresh`, `NoFalseTransfers` (the
four properties of the run `dry_run`). The types and `IInv` of `Bot` do not carry over: an account that is never checked
may be overdrawn once a trade was forgotten, and then the state holds negative money. What
does hold is that a paper order is filled whole or not at all, so that a remembered order is the whole of its step,
unseen (`PaperLimit`, `Answered`), that both copies of a process find their order in the book, and that while no trade is
forgotten they agree with the account (`AccountOK`). Then neither `reconcile` nor the check for transfers
has a difference to explain, and the labels behind them are not reached.

`SupervisedProofs`, the watchdog alone: `WatchdogIsSafe`, `WatchdogSpec => [](WatchdogTypeOK /\ HangIsEnded /\ NoFalseAlarm)`.
The invariant has what the age can be at each place of the watchdog's thread, and, for a process that never
hung, that the age is bounded by the time since the last reading of the clock plus the delay of one beat.

`SupervisedProofs`, the composition:

- `CallsAreOneShot`: `SupervisedSpec => OrdersAreOneShot`. The invariant says which requests
  have an order behind them at each point of a call; the second way of a market buy is taken only while
  the first has no order. `os._exit` maps to a call that raised.
- `TurnsKeepTheBound`: `SupervisedSpec => TurnsAreBounded`, for all numbers of calls and reads in a poll, retries and tries.
  The invariant is a budget over the whole poll: the time elapsed in this turn, `CallTime` for each request that the call under way can still make
  (`Under`), and the worst of every call and request that may still be begun (`Ahead`), never
  exceed `LagMax + PollTime` and what the current request has used. Each retry and each look spends one `CallTime` of `Under`;
  a call that begins moves `WorstCall` from `Ahead` to `Under`, which it can only use up.
- `HangsAreEnded` holds however long the turns are, from the invariant of the watchdog alone;
  `NoLiveLoopIsKilled` follows from `WatchdogIsSafe` through the refinement.
- `SupervisedTypes`: `SupervisedSpec => []SupervisedTypeOK`.

`AtrProofs` proves about recursive functions, by induction over data. The induction theorems of the library are
out of the prover's reach, as they take an operator; `Induct` is stated for a *set* of natural numbers instead, and follows from the least
element of its complement. `SmoothingExists` shows with it that Wilder's recursion has a solution, and `SmoothedPrefix` that its value
at k depends on the first k ranges only. `LimitBelowFloor` bounds the price of a chase from the floor of its width (`WidthAboveFloor`).

`BacktestProofs`, for any candles, prices, fees, lots and ticks; the invariant is `BacktestInv`:

- `TypeCorrectness`, `ReplayedCash` (`Spec => []CashIsFree`), `ReplayedPosition` (`Spec => []DustBelowLot`). They need that
  an open order is the one the State remembers, not folded so far, and costs no more
  than its tranche (`RestingOK`), that the reducers keep the State sound (`StrategyProofs`),
  and which plans are under way (`TurnOK`).
- `SettledDays`: `Spec => []NoLookAhead`. The code smooths the whole series and picks a place in it; the property
  smooths the earlier candles only. Both read the same prefix, as the candles ascend.
- `ChaseGoesDown`: `Spec => []ChasesDown`.
- `LaterFills`: `MaxSteps >= 3 /\ Spec => FillsAreLater`. The code has 6 (`executor.py:42`). With 2 the property is
  false, and TLC finds it: a sale and the first buy use up the poll, the chase is placed in a later bar when the fallback is due as well, which
  cancels it in the same bar, and the low of that bar fills it. So the invariant `BarInv` counts the decisions of a
  poll: a sale is the first, a market buy the first or the second, and what is bought at market is too dear to be sold in the same poll.
- `TakeProfitGains`: `Spec => CyclesGain`, for every seed and close that satisfy `Reaches` and `Covers`: on the smallest
  position the margin, after the slippage, is worth the lot that a sale rounds away and one unit. The take-profit is
  decided on the close, without slippage and with the whole quantity, so on a smaller position, or with a
  smaller margin, the sale can lose. `GainInv`: cash and position together never fall below N of the least tranches.

Each inductive invariant also holds in TLC on the instances of the runs.

Only model-checked: liveness (`StepCompletes`, `BootstrapCompletes`, `TransfersAbsorbed`), as fairness is outside what the
prover handles, and the claims that the code does not keep. `usdt` of `Bot` is typed as an integer:
that it stays non-negative after an order is lost is a sum over the open orders and is not proved.

## 5. What is not modelled, and the plan

Done: the bot, the wrapper's calls, the watchdog, the paper exchange, prices and the
backtest, with a theorem for every safety property that a passing run checks. What is left, in this order:

1. How many decisions a poll of `Bot` can need, an invariant on `steps` as `BarInv` has one for the backtest: it would say
   whether `MAX_STEPS_PER_POLL` can ever cut a poll short.
2. `usdt` as a natural number after an order is lost: a sum over the open orders, with the fold of the community
   modules and the set induction of `AtrProofs`.
3. The hazards of `PROJECT.json` without a property, most of them at boot (`reconcile` with little cash, a halted row
   that still has an order).

An abstract ledger (position, cash, one step at a time) that `Bot` would implement was planned
and dropped: a process that dies goes back to the stored row, which undoes a re-split, so every such ledger
needs the rows and the failures of `Bot` and says no more than `RowNeverGoesBack` and the books.

Not modelled: `market_meta` and `_tick_size` (read once at boot; the minimum order is a constant), so neither is the refusal of a limit order
whose amount, rounded to the lot, falls below the minimum; `_refresh_atr` of the live bot, which
takes the unfinished candle of the day (no property of `Bot` depends on the width of the chase); the equity
and drawdown figures of a backtest, `_fetch_ohlcv` and the command line; the notifier (output only, its hangs are `Hang`);
configuration and deployment files (read for their values); the JSON encoding of a state; the
guards against live trading in `build_exchange` (checked once, before anything runs).
