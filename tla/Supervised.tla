----------------------------- MODULE Supervised -----------------------------
(***************************************************************************)
(* The loop under the watchdog, with a poll made of the wrapper's calls:   *)
(* what src/main.py relies on when it picks the watchdog's timeout above   *)
(* the time a poll may take.                                               *)
(*                                                                         *)
(* A poll makes up to PollOrders calls about orders, one after another,    *)
(* and between them up to PollReads other requests (balances, prices,      *)
(* candles, notifications).  Each request takes up to CallTime, the        *)
(* time-out of ccxt and the wait before the next try included; a turn of   *)
(* the loop is limited by nothing else.  os._exit and a restart may come   *)
(* between any two requests.                                               *)
(***************************************************************************)
EXTENDS Watchdog, OrderCalls

CONSTANTS CallTime,        \* one request, or the shutdown
          PollOrders,      \* calls about an order in one turn
          PollReads        \* other requests in one turn, each try of a read counted

ASSUME CallTimeAssumption == CallTime \in Nat
ASSUME PollAssumption == PollOrders \in Nat /\ PollReads \in Nat

VARIABLES calls,           \* calls about an order begun in this poll
          reads,           \* other requests begun in it
          reading,         \* is one of them under way?
          spent            \* time since the current request began

pollVars == <<calls, reads, reading>>
supervisedVars == <<watchdogVars, orderVars, pollVars, spent>>

\* The longest call is a market buy: refused by cost, sized by a price read with
\* its retries, and driven by DriveTries + 1 reads with theirs.
WorstCall == (2 + Retries * (DriveTries + 2)) * CallTime

\* The longest poll is all of its calls and requests, each at its worst.
PollTime == PollOrders * WorstCall + PollReads * CallTime

\* The beat, the poll, the wait and the shutdown bound a turn of the loop.
ASSUME IterationBound == IterationMax >= LagMax + PollTime + PollSeconds + CallTime

SupervisedInit == /\ WatchdogInit /\ OrderCallsInit
                  /\ calls = 0 /\ reads = 0 /\ reading = FALSE /\ spent = 0

\* The beat is stored; the daily ATR and run_poll_once follow.
BeginPoll == /\ StoreBeat
             /\ spent' = 0
             /\ UNCHANGED <<orderVars, pollVars>>

InPoll == loop = "poll" /\ ~hung

\* run_poll_once calls the wrapper.  One that raised was the last: the exception
\* leaves run_poll_once.
BeginOrderCall == /\ InPoll /\ ~reading /\ calls < PollOrders
                  /\ calls > 0 => at # "raised"
                  /\ \E m \in Methods : BeginCall(m)
                  /\ calls' = calls + 1
                  /\ spent' = 0
                  /\ UNCHANGED <<watchdogVars, reads, reading>>

PollCall == /\ InPoll
            /\ CallStep
            /\ spent' = 0
            /\ UNCHANGED <<watchdogVars, pollVars>>

\* One try of fetch_price, fetch_free_usdt, fetch_total_usdt, fetch_base_balance
\* or fetch_daily_ohlcv, or a notification.
BeginRead == /\ InPoll /\ ~Calling /\ ~reading /\ reads < PollReads
             /\ reads' = reads + 1 /\ reading' = TRUE
             /\ spent' = 0
             /\ UNCHANGED <<watchdogVars, orderVars, calls>>

EndRead == /\ InPoll /\ reading
           /\ reading' = FALSE
           /\ spent' = 0
           /\ UNCHANGED <<watchdogVars, orderVars, calls, reads>>

\* The poll, or the process, is over.
NoRequests == calls' = 0 /\ reads' = 0 /\ reading' = FALSE /\ spent' = 0

\* It returns at any point, or raises.
EndPoll == /\ PollEnds /\ ~Calling /\ ~reading
           /\ NoRequests
           /\ UNCHANGED orderVars

\* Between polls, and in the watchdog's thread.
NoPoll == /\ \/ EnterLoop \/ LeaveBoot \/ ReadClock \/ WaitEnds \/ LeaveLoop
             \/ Shutdown \/ Hang \/ Resume \/ Signal
             \/ StopCheck \/ Measure \/ Wake
          /\ UNCHANGED <<orderVars, pollVars, spent>>

\* The process is gone, its order is not.  For who waits for it, the call raised.
Cut == /\ at' = IF Calling THEN "raised" ELSE at
       /\ \/ UNCHANGED placed
          \/ /\ at \in Sending
             /\ placed' = [placed EXCEPT ![at].status = "sent"]
       /\ failed' = 0 /\ polls' = 0
       /\ UNCHANGED <<method, order_id, answer>>

Killed == Exit /\ Cut /\ NoRequests

Restarted == Restart /\ NoRequests /\ UNCHANGED orderVars

\* A request, and the shutdown, take no more than CallTime; beat() no more than
\* LagMax; the rest of a turn takes no time.
RequestInTime == CASE loop = "beating" -> elapsed < LagMax
                   [] loop = "poll" -> (Calling \/ reading) /\ spent < CallTime
                   [] loop = "closing" -> spent < CallTime
                   [] loop = "sleep" -> slept < PollSeconds /\ ~stop
                   [] loop = "top" -> FALSE
                   [] OTHER -> TRUE

TimePasses == /\ Elapse
              /\ (hung \/ RequestInTime)
              /\ spent' = IF loop \in {"poll", "closing"} /\ spent < CallTime
                          THEN spent + 1 ELSE spent
              /\ UNCHANGED <<orderVars, pollVars>>

VenueStep == /\ OrderVenueStep
             /\ UNCHANGED <<watchdogVars, pollVars, spent>>

SupervisedNext == \/ BeginPoll \/ BeginOrderCall \/ PollCall
                  \/ BeginRead \/ EndRead \/ EndPoll
                  \/ NoPoll \/ Killed \/ Restarted \/ TimePasses \/ VenueStep

SupervisedSpec == SupervisedInit /\ [][SupervisedNext]_supervisedVars

\* Every variable has its type; what the wrapper returns is one of the three
\* statuses that the executor knows.
SupervisedTypeOK == /\ WatchdogTypeOK /\ OrderCallsTypeOK
                    /\ calls \in 0 .. PollOrders /\ reads \in 0 .. PollReads
                    /\ reading \in BOOLEAN /\ spent \in 0 .. CallTime

-----------------------------------------------------------------------------

\* The time-outs of the calls keep the watchdog's assumption on the length of a
\* turn: what all the calls of a poll, its other requests, the wait and the beat
\* may take adds up to what Watchdog takes for granted, so what holds there
\* holds here.
TurnsAreBounded == WatchdogSpec
=============================================================================
