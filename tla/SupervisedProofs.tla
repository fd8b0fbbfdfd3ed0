-------------------------- MODULE SupervisedProofs --------------------------
(***************************************************************************)
(* Theorems about Watchdog and about Supervised.  First the watchdog alone *)
(* beside any loop: a hang is ended in time and a loop that turns is left  *)
(* alone, for every timeout, interval and length of a turn.  Then the      *)
(* composition: the wrapper's calls implement the one-shot contract of     *)
(* OneShotOrder, and their time-outs keep the bound the watchdog relies on.*)
(***************************************************************************)
EXTENDS Supervised, TLAPS

\* A step of the two threads or of the clock, with no limit on the main thread.
Move == \/ MainStep \/ LeaveBoot \/ Hang \/ Resume \/ Signal \/ Restart
        \/ WatchdogStep \/ Elapse

-----------------------------------------------------------------------------
(* The stamp, the watchdog's own clock, and the hang                       *)

\* How old the stamp may be by where the watchdog is: it was fresh when last
\* measured, and the time since then is wt.
StampIsFresh ==
    /\ wd = "sleep" => age < Timeout + wt /\ wt <= Interval
    /\ wd \in {"check", "measure"} => age < Timeout + Interval
    /\ wd = "notify" => age < Timeout + Interval + wt /\ wt <= NotifyTimeout

\* The stamp was stored no later than the clock was read for the next one.
ClockIsNewer == elapsed <= age

\* The watchdog is there in the loop, ends only after a signal, and is not
\* there outside.
IsWatching ==
    /\ Looping => wd # "off"
    /\ wd = "ended" => stop
    /\ ~Looping => wd = "off"

HangInv == WatchdogTypeOK /\ ClockIsNewer /\ IsWatching /\ StampIsFresh

\* The strengthened invariant holds at the start.
LEMMA HangInvInit == ASSUME WatchdogInit PROVE HangInv
<1> USE DEF WatchdogInit
<1>1. WatchdogTypeOK
  <2>1. elapsed \in 0 .. MaxAge /\ age \in 0 .. MaxAge
    BY WatchdogAssumption
  <2>2. hung \in BOOLEAN /\ stalled \in BOOLEAN /\ stop \in BOOLEAN
    OBVIOUS
  <2>3. loop \in Phases /\ wd \in WatchPhases /\ slept \in Nat /\ wt \in Nat
    BY DEF Phases, WatchPhases
  <2> QED BY <2>1, <2>2, <2>3 DEF WatchdogTypeOK
<1>2. ClockIsNewer
  BY DEF ClockIsNewer
<1>3. IsWatching /\ StampIsFresh
  BY DEF IsWatching, StampIsFresh, Looping
<1> QED BY <1>1, <1>2, <1>3 DEF HangInv

\* Every step of the two threads and the clock keeps it.
LEMMA HangInvStep == ASSUME HangInv, Move PROVE HangInv'
<1> USE WatchdogAssumption
    DEF HangInv, WatchdogTypeOK, ClockIsNewer, IsWatching, StampIsFresh, Looping,
        Phases, WatchPhases
<1>1. CASE MainStep
  <2>1. CASE EnterLoop BY <2>1 DEF EnterLoop
  <2>2. CASE ReadClock BY <2>2 DEF ReadClock
  <2>3. CASE StoreBeat BY <2>3 DEF StoreBeat
  <2>4. CASE PollEnds BY <2>4 DEF PollEnds
  <2>5. CASE WaitEnds BY <2>5 DEF WaitEnds
  <2>6. CASE LeaveLoop BY <2>6 DEF LeaveLoop
  <2>7. CASE Shutdown BY <2>7 DEF Shutdown
  <2> QED BY <1>1, <2>1, <2>2, <2>3, <2>4, <2>5, <2>6, <2>7 DEF MainStep
<1>2. CASE LeaveBoot BY <1>2 DEF LeaveBoot
<1>3. CASE Hang BY <1>3 DEF Hang
<1>4. CASE Resume BY <1>4 DEF Resume
<1>5. CASE Signal BY <1>5 DEF Signal
<1>6. CASE Restart
  <2>1. wd' = "off" /\ loop' = "boot" BY <1>6 DEF Restart
  <2>2. WatchdogTypeOK'
    <3>1. elapsed' \in 0 .. MaxAge /\ age' \in 0 .. MaxAge BY <1>6 DEF Restart
    <3>2. hung' \in BOOLEAN /\ stalled' \in BOOLEAN /\ stop' \in BOOLEAN
      BY <1>6 DEF Restart
    <3>3. slept' \in Nat /\ wt' \in Nat BY <1>6 DEF Restart
    <3> QED BY <2>1, <3>1, <3>2, <3>3
  <2>3. ClockIsNewer' BY <1>6 DEF Restart
  <2>4. IsWatching' /\ StampIsFresh' BY <2>1
  <2> QED BY <2>2, <2>3, <2>4
<1>7. CASE WatchdogStep
  <2>1. CASE StopCheck BY <2>1 DEF StopCheck
  <2>2. CASE Measure BY <2>2 DEF Measure, is_stale
  <2>3. CASE Wake BY <2>3 DEF Wake
  <2>4. CASE Exit BY <2>4 DEF Exit
  <2> QED BY <1>7, <2>1, <2>2, <2>3, <2>4 DEF WatchdogStep
<1>8. CASE Elapse BY <1>8 DEF Elapse, WatchdogInTime, Older
<1> QED BY <1>1, <1>2, <1>3, <1>4, <1>5, <1>6, <1>7, <1>8 DEF Move

LEMMA HangInvStutter == ASSUME HangInv, UNCHANGED watchdogVars PROVE HangInv'
  BY DEF HangInv, WatchdogTypeOK, ClockIsNewer, IsWatching, StampIsFresh, Looping,
         watchdogVars

LEMMA HangInvImplies == HangInv => HangIsEnded
  BY WatchdogAssumption
     DEF HangInv, WatchdogTypeOK, IsWatching, StampIsFresh, HangIsEnded, Looping,
         WatchPhases

LEMMA NextIsMove == WatchdogNext => Move
  BY DEF WatchdogNext, Move, Tick

-----------------------------------------------------------------------------
(* The turns of the loop, and the false alarm                              *)

\* In a process that was never stuck, the stamp is as old as the current turn,
\* or, inside beat(), as old as the turn before it and the delay of the beat.
TurnIsShort ==
    Looping /\ ~stalled =>
        /\ elapsed <= IterationMax
        /\ IF loop = "beating" THEN elapsed <= LagMax /\ age <= IterationMax + elapsed
           ELSE age = elapsed

TurnInv == HangInv /\ TurnIsShort /\ NoFalseAlarm

LEMMA TurnInvStep == ASSUME TurnInv, WatchdogNext PROVE TurnInv'
<1>0. HangInv' BY HangInvStep, NextIsMove DEF TurnInv
<1> USE WatchdogAssumption
    DEF TurnInv, HangInv, WatchdogTypeOK, IsWatching, Looping, TurnIsShort, NoFalseAlarm,
        Phases, WatchPhases
<1>1. TurnIsShort' /\ NoFalseAlarm'
  <2>1. CASE EnterLoop BY <2>1 DEF EnterLoop
  <2>2. CASE ReadClock BY <2>2 DEF ReadClock
  <2>3. CASE StoreBeat BY <2>3 DEF StoreBeat
  <2>4. CASE PollEnds BY <2>4 DEF PollEnds
  <2>5. CASE WaitEnds BY <2>5 DEF WaitEnds
  <2>6. CASE LeaveLoop BY <2>6 DEF LeaveLoop
  <2>7. CASE Shutdown BY <2>7 DEF Shutdown
  <2>8. CASE LeaveBoot BY <2>8 DEF LeaveBoot
  <2>9. CASE Hang BY <2>9 DEF Hang
  <2>10. CASE Resume BY <2>10 DEF Resume
  <2>11. CASE Signal BY <2>11 DEF Signal
  <2>12. CASE Restart BY <2>12 DEF Restart
  <2>13. CASE StopCheck BY <2>13 DEF StopCheck
  <2>14. CASE Measure BY <2>14 DEF Measure, is_stale
  <2>15. CASE Wake BY <2>15 DEF Wake
  <2>16. CASE Exit BY <2>16 DEF Exit
  <2>17. CASE Tick BY <2>17 DEF Tick, Elapse, WatchdogInTime, Older, TurnInTime
  <2> QED BY <2>1, <2>2, <2>3, <2>4, <2>5, <2>6, <2>7, <2>8, <2>9, <2>10, <2>11, <2>12,
             <2>13, <2>14, <2>15, <2>16, <2>17
          DEF WatchdogNext, MainStep, WatchdogStep
<1> QED BY <1>0, <1>1

\* Under the watchdog alone, whatever a poll is made of: the types are kept, a
\* hang is ended in time, and no process is ended that was never stuck.
THEOREM WatchdogIsSafe ==
    WatchdogSpec => [](WatchdogTypeOK /\ HangIsEnded /\ NoFalseAlarm)
<1>1. WatchdogInit => TurnInv
  BY HangInvInit, WatchdogAssumption
     DEF WatchdogInit, TurnInv, TurnIsShort, NoFalseAlarm, Looping
<1>2. TurnInv /\ [WatchdogNext]_watchdogVars => TurnInv'
  <2>1. ASSUME TurnInv, UNCHANGED watchdogVars PROVE TurnInv'
    BY <2>1, HangInvStutter
       DEF TurnInv, TurnIsShort, NoFalseAlarm, Looping, watchdogVars
  <2> QED BY <2>1, TurnInvStep
<1>3. TurnInv => WatchdogTypeOK /\ HangIsEnded /\ NoFalseAlarm
  BY HangInvImplies DEF TurnInv, HangInv
<1> QED BY <1>1, <1>2, <1>3, PTL DEF WatchdogSpec

-----------------------------------------------------------------------------
(* The invariant of an order call                                          *)

\* An order has filled nothing before it arrives, and is closed exactly when it
\* is filled in full.
OrderOK(o) == /\ o.status \in {"none", "sent"} => o.filled = 0
              /\ o.status = "closed" <=> o.filled = Size

OrdersOK == \A i \in Sending : OrderOK(placed[i])

\* The fallback is taken only when the first order does not exist.
OneIsPlaced ==
    placed["create"].status = "none" \/ placed["fallback"].status = "none"

NothingPlaced == \A i \in Sending : placed[i].status = "none"

\* What exists at the venue by the request that is due.
PlacedInTime ==
    /\ at \in {"none", "check", "create", "price", "fallback"} => NothingPlaced
    /\ at \in {"cancel", "fetch"} => placed[order_id].status \notin {"none", "sent"}

\* Which requests a method makes.
MethodOK ==
    /\ at = "none" => method = "market_buy_quote"
    /\ at \in {"price", "fallback"} => method = "market_buy_quote"
    /\ at = "check" => method \in {"market_sell_all", "place_limit_buy"}
    /\ at = "fetch" => method # "place_limit_buy"
    /\ at = "cancel" => method = "cancel_order"

Sum(p) == p["create"].filled + p["fallback"].filled
Executed == Sum(placed)

\* An answer is given by a call that returns, and one that says ended is final.
AnswerOK ==
    /\ at # "returned" => answer = NoAnswer
    /\ at = "returned" /\ answer.status = "none" => NothingPlaced /\ answer.filled = 0
    /\ at = "returned" /\ answer.status \in {"closed", "canceled"} =>
          \A i \in Sending : placed[i].status \notin {"sent", "open"}

OrderInv == /\ OrderCallsTypeOK
            /\ OrdersOK /\ OneIsPlaced /\ PlacedInTime /\ MethodOK /\ AnswerOK

OrderMove == \/ CallStep
             \/ \E m \in Methods : BeginCall(m)
             \/ OrderVenueStep
             \/ Cut

LEMMA OrderInvInit == OrderCallsInit => OrderInv
  BY OrderCallsAssumption
     DEF OrderCallsInit, OrderInv, OrderCallsTypeOK, OrdersOK, OrderOK, OneIsPlaced,
         PlacedInTime, NothingPlaced, MethodOK, AnswerOK, Methods, Requests, Sending,
         Order, NoOrder, NoAnswer

LEMMA OrderInvStep == ASSUME OrderInv, OrderMove PROVE OrderInv'
<1> USE OrderCallsAssumption
    DEF OrderInv, OrderCallsTypeOK, OrdersOK, OrderOK, OneIsPlaced,
        PlacedInTime, NothingPlaced, MethodOK, AnswerOK, Methods, Requests, Sending,
        Order, NoOrder, NoAnswer, Markets, Goto
<1>1. CASE Check BY <1>1 DEF Check
<1>2. CASE Accepted BY <1>2 DEF Accepted
<1>3. CASE Refused BY <1>3 DEF Refused
<1>4. CASE AnswerLost BY <1>4 DEF AnswerLost
<1>5. CASE PriceRead BY <1>5 DEF PriceRead
<1>6. CASE Cancel BY <1>6 DEF Cancel
<1>7. CASE Fetched BY <1>7 DEF Fetched, Return, Driven, _normalize
<1>8. CASE ReadFails BY <1>8 DEF ReadFails, TryAgain
<1>9. ASSUME NEW m \in Methods, BeginCall(m) PROVE OrderInv'
  BY <1>9 DEF BeginCall, FirstRequest
<1>10. ASSUME NEW i \in Sending, Arrive(i) PROVE OrderInv' BY <1>10 DEF Arrive
<1>11. ASSUME NEW i \in Sending, Fill(i) PROVE OrderInv' BY <1>11 DEF Fill
<1>12. ASSUME NEW i \in Sending, End(i) PROVE OrderInv' BY <1>12 DEF End
<1>13. CASE Cut BY <1>13 DEF Cut, Calling
<1> QED BY <1>1, <1>2, <1>3, <1>4, <1>5, <1>6, <1>7, <1>8, <1>9, <1>10, <1>11, <1>12,
           <1>13
        DEF OrderMove, CallStep, OrderVenueStep

-----------------------------------------------------------------------------
(* The refinement: OneShotOrder is what an order call promises             *)

\* The order that was placed, if any, is the only one that was executed.
LEMMA OneIsExecuted ==
    ASSUME NEW p \in [Sending -> Order], \A i \in Sending : OrderOK(p[i]),
           p["create"].status = "none" \/ p["fallback"].status = "none"
    PROVE  /\ Sum(p) \in 0 .. Size
           /\ (\A i \in Sending : p[i].status = "none") => Sum(p) = 0
           /\ \A i \in Sending : p[i].status # "none" => Sum(p) = p[i].filled
  BY OrderCallsAssumption DEF OrderOK, Sum, Sending, Order

LEMMA NowExecuted ==
    ASSUME OrderInv
    PROVE  /\ Executed \in 0 .. Size
           /\ NothingPlaced => Executed = 0
           /\ \A i \in Sending : placed[i].status # "none" => Executed = placed[i].filled
<1>1. placed \in [Sending -> Order] /\ OrdersOK /\ OneIsPlaced
  BY DEF OrderInv, OrderCallsTypeOK
<1> QED BY <1>1, OneIsExecuted DEF Executed, OrdersOK, OneIsPlaced, NothingPlaced

LEMMA NextExecuted ==
    ASSUME OrderInv'
    PROVE  /\ Executed' \in 0 .. Size
           /\ NothingPlaced' => Executed' = 0
           /\ \A i \in Sending : placed'[i].status # "none" => Executed' = placed'[i].filled
<1>1. placed' \in [Sending -> Order] /\ OrdersOK' /\ OneIsPlaced'
  BY DEF OrderInv, OrderCallsTypeOK
<1> QED BY <1>1, OneIsExecuted DEF Executed, OrdersOK, OneIsPlaced, NothingPlaced

\* Steps that change neither the method, nor where the call is, nor its answer.
LEMMA VenueRefines ==
    ASSUME OrderInv, OrderInv', OrderVenueStep
    PROVE  Promise!Execute \/ UNCHANGED <<Kind, Outcome, Executed, answer.filled>>
<1>1. UNCHANGED <<method, at, answer>>
  BY DEF OrderVenueStep, Arrive, Fill, End
<1>2. UNCHANGED <<Kind, Outcome, answer.filled>>
  BY <1>1 DEF Kind, Outcome, Calling
<1>3. CASE Executed' = Executed
  BY <1>2, <1>3
<1>4. CASE Executed' # Executed
  <2>1. PICK i \in Sending : Fill(i)
    BY <1>4 DEF OrderVenueStep, Arrive, Fill, End, Executed, Sum, Sending, OrderInv,
                OrderCallsTypeOK, Order
  <2>2. placed[i].status = "open" /\ placed'[i].status # "none"
    BY <2>1 DEF Fill, OrderInv, OrderCallsTypeOK, Order
  <2>3. Executed = placed[i].filled /\ Executed' = placed'[i].filled
    BY <2>2, NowExecuted, NextExecuted
  <2>4. Executed' \in Executed + 1 .. Size
    BY <2>1, <2>3 DEF Fill, OrderInv, OrderCallsTypeOK, Order
  <2>5. Outcome \in {"asked", "raised", "resting"}
    BY <2>2 DEF Outcome, Calling, OrderInv, OrderCallsTypeOK, PlacedInTime, AnswerOK,
                NothingPlaced, Requests, Sending
  <2> QED BY <1>2, <2>4, <2>5 DEF Promise!Execute, Executed, Sum
<1> QED BY <1>3, <1>4

\* A step of a running call that neither executes anything nor answers.
LEMMA QuietRefines ==
    ASSUME Calling, at' \in Requests \cup {"raised"},
           UNCHANGED <<method, answer>>, Executed' = Executed
    PROVE  Promise!Raise \/ UNCHANGED <<Kind, Outcome, Executed, answer.filled>>
<1>1. Outcome = "asked"
  BY DEF Outcome, Calling, Requests
<1>2. Kind' = Kind
  BY DEF Kind
<1>3. CASE at' \in Requests
  BY <1>1, <1>2, <1>3 DEF Outcome, Calling, Requests
<1>4. CASE at' = "raised"
  <2>1. Outcome' = "raised"
    BY <1>4 DEF Outcome, Calling, Requests
  <2> QED BY <1>1, <1>2, <2>1 DEF Promise!Raise, Executed, Sum
<1> QED BY <1>3, <1>4

\* The answer of fetch_order: a market order returns only when it is closed.
LEMMA ReturnRefines ==
    ASSUME OrderInv, OrderInv', at = "fetch", Return(placed[order_id]),
           method \in Markets => Driven(placed[order_id])
    PROVE  Promise!ReturnEnded \/ Promise!ReturnResting
<1> DEFINE o == placed[order_id]
<1>1. Outcome = "asked" /\ Kind' = Kind /\ Kind # "limit"
  BY DEF Outcome, Calling, Requests, Kind, Return, OrderInv, MethodOK, OrderCallsTypeOK,
         Methods, Markets
<1>2. o \in Order /\ o.status \notin {"none", "sent"} /\ OrderOK(o)
  BY DEF OrderInv, OrderCallsTypeOK, PlacedInTime, OrdersOK
<1>3. Executed = o.filled /\ Executed' = Executed /\ Executed \in 0 .. Size
  BY <1>2, NowExecuted DEF OrderInv, OrderCallsTypeOK, Return, Executed, Sum
<1>4. at' = "returned" /\ answer'.filled = Executed /\ answer'.status = _normalize(o.status)
  BY <1>3 DEF Return
<1>5. CASE o.status = "open"
  <2>1. Outcome' = "resting"
    BY <1>4, <1>5 DEF Outcome, Calling, Requests, _normalize
  <2>2. Kind # "market"
    BY <1>5 DEF Kind, Driven
  <2> QED BY <1>1, <1>3, <1>4, <2>1, <2>2 DEF Promise!ReturnResting, Executed, Sum
<1>6. CASE o.status # "open"
  <2>1. Outcome' = "ended"
    BY <1>2, <1>4, <1>6 DEF Outcome, Calling, Requests, _normalize, Order
  <2>2. Kind = "market" => Executed = Size
    BY <1>2, <1>3 DEF Kind, Driven, OrderOK
  <2> QED BY <1>1, <1>3, <1>4, <2>1, <2>2 DEF Promise!ReturnEnded, Executed, Sum
<1> QED BY <1>5, <1>6

LEMMA CallRefines ==
    ASSUME OrderInv, OrderInv', CallStep
    PROVE  Promise!Next \/ UNCHANGED <<Kind, Outcome, Executed, answer.filled>>
<1> USE DEF OrderInv, OrderCallsTypeOK
<1>0. Calling /\ Outcome = "asked"
  BY DEF CallStep, Check, Accepted, Refused, AnswerLost, PriceRead, Cancel, Fetched,
         ReadFails, Calling, Outcome, Requests, Sending
<1>1. ASSUME NEW r \in Requests \cup {"raised"}, Goto(r)
      PROVE  Promise!Raise \/ UNCHANGED <<Kind, Outcome, Executed, answer.filled>>
  BY <1>0, <1>1, QuietRefines DEF Goto, Executed
<1>2. CASE Check
  <2>1. CASE method = "market_sell_all" /\ Goto("returned")
    <3>1. Kind' = Kind /\ Kind = "market"
      BY <2>1 DEF Goto, Kind, Markets
    <3>2. Executed = 0 /\ Executed' = Executed
      BY <1>2, <2>1, NowExecuted DEF Check, Goto, PlacedInTime, Executed
    <3>3. Outcome' = "none"
      BY <1>2, <2>1 DEF Check, Goto, Outcome, Calling, Requests, AnswerOK, NoAnswer,
                        NoOrder
    <3>4. answer' = answer
      BY <2>1 DEF Goto
    <3> QED BY <1>0, <3>1, <3>2, <3>3, <3>4
            DEF Promise!Next, Promise!ReturnNothing, Executed, Sum
  <2> QED BY <1>1, <1>2, <2>1 DEF Check, Requests, Promise!Next
<1>3. CASE Accepted
  <2>1. Executed' = Executed /\ Kind' = Kind
    BY <1>3 DEF Accepted, Executed, Sum, Kind, Sending, Order
  <2>2. CASE method = "place_limit_buy"
    <3>1. Kind = "limit" /\ Outcome' = "resting" /\ answer'.filled = 0
      BY <1>3, <2>2 DEF Accepted, Kind, Markets, Outcome, Calling, Requests
    <3>2. Executed \in Nat
      BY NowExecuted, OrderCallsAssumption
    <3> QED BY <1>0, <2>1, <3>1, <3>2
            DEF Promise!Next, Promise!ReturnResting, Executed, Sum
  <2>3. CASE method # "place_limit_buy"
    BY <1>0, <1>3, <2>1, <2>3, QuietRefines DEF Accepted, Requests, Promise!Next
  <2> QED BY <2>2, <2>3
<1>4. CASE Refused
  BY <1>1, <1>4 DEF Refused, Requests, Promise!Next
<1>5. CASE AnswerLost
  <2>1. Executed' = Executed
    BY <1>5 DEF AnswerLost, Executed, Sum, Sending, Order
  <2> QED BY <1>0, <1>5, <2>1, QuietRefines DEF AnswerLost, Promise!Next
<1>6. CASE PriceRead
  BY <1>1, <1>6 DEF PriceRead, Requests, Promise!Next
<1>7. CASE Cancel
  <2>1. Executed' = Executed
    BY <1>7 DEF Cancel, Executed, Sum, Sending, Order
  <2> QED BY <1>0, <1>7, <2>1, QuietRefines DEF Cancel, Requests, Promise!Next
<1>8. CASE Fetched
  <2>1. CASE Return(placed[order_id]) /\ (method \in Markets => Driven(placed[order_id]))
    BY <1>8, <2>1, ReturnRefines DEF Fetched, Promise!Next
  <2>2. CASE UNCHANGED <<method, at, placed, order_id, answer>>
    BY <1>0, <2>2, QuietRefines DEF Calling, Executed, Promise!Next
  <2>3. CASE Goto("raised")
    BY <1>1, <2>3 DEF Promise!Next
  <2> QED BY <1>8, <2>1, <2>2, <2>3 DEF Fetched
<1>9. CASE ReadFails
  <2>1. CASE Goto("raised")
    BY <1>1, <2>1 DEF Promise!Next
  <2>2. CASE UNCHANGED <<method, at, polls, placed, order_id, answer>>
    BY <1>0, <2>2, QuietRefines DEF Calling, Executed, Promise!Next
  <2> QED BY <1>9, <2>1, <2>2 DEF ReadFails
<1> QED BY <1>2, <1>3, <1>4, <1>5, <1>6, <1>7, <1>8, <1>9 DEF CallStep

LEMMA AskRefines ==
    ASSUME OrderInv, OrderInv', NEW m \in Methods, BeginCall(m)
    PROVE  Promise!Ask
<1>1. Outcome # "asked"
  BY DEF BeginCall, Outcome, Calling, Requests, OrderInv, OrderCallsTypeOK
<1>2. Outcome' = "asked" /\ answer'.filled = 0
  BY DEF BeginCall, FirstRequest, Outcome, Calling, Requests, Methods, NoAnswer, NoOrder
<1>3. Kind' \in {"market", "limit", "status"}
  BY DEF Kind
<1>4. Executed' \in IF Kind' = "status" THEN 0 .. Size ELSE {0}
  <2>1. CASE m \in {"fetch_order", "cancel_order"}
    BY <2>1, NextExecuted DEF BeginCall, Kind, Markets
  <2>2. CASE m \notin {"fetch_order", "cancel_order"}
    BY <2>2 DEF BeginCall, Kind, Markets, Methods, Executed, Sum, NoOrder, Sending
  <2> QED BY <2>1, <2>2
<1> QED BY <1>1, <1>2, <1>3, <1>4 DEF Promise!Ask, Executed, Sum

LEMMA CutRefines ==
    ASSUME OrderInv, OrderInv', Cut
    PROVE  Promise!Raise \/ UNCHANGED <<Kind, Outcome, Executed, answer.filled>>
<1>1. Executed' = Executed
  BY DEF Cut, Executed, Sum, Sending, Order, OrderInv, OrderCallsTypeOK
<1>2. CASE Calling
  BY <1>1, <1>2, QuietRefines DEF Cut
<1>3. CASE ~Calling
  <2>1. UNCHANGED <<method, at, answer>>
    BY <1>3 DEF Cut
  <2> QED BY <1>1, <2>1 DEF Kind, Outcome, Calling
<1> QED BY <1>2, <1>3

\* What the loop and the watchdog do to an order is a call, or its end.
LEMMA StepIsOrderMove == SupervisedNext => OrderMove \/ UNCHANGED orderVars
  BY DEF SupervisedNext, BeginPoll, BeginOrderCall, PollCall, BeginRead, EndRead, EndPoll,
         NoPoll, Killed, Restarted, TimePasses, VenueStep, OrderMove

LEMMA OrderInvAlways == SupervisedSpec => []OrderInv
<1>1. SupervisedInit => OrderInv
  BY OrderInvInit DEF SupervisedInit
<1>2. OrderInv /\ [SupervisedNext]_supervisedVars => OrderInv'
  <2>1. ASSUME OrderInv, UNCHANGED orderVars PROVE OrderInv'
    BY <2>1 DEF orderVars, OrderInv, OrderCallsTypeOK, OrdersOK, OrderOK, OneIsPlaced,
                PlacedInTime, NothingPlaced, MethodOK, AnswerOK
  <2> QED BY <2>1, OrderInvStep, StepIsOrderMove DEF supervisedVars
<1> QED BY <1>1, <1>2, PTL DEF SupervisedSpec

\* Refinement: through lost answers, retries, fills that race the requests, kills
\* and restarts, the wrapper's calls implement the one-shot contract.
THEOREM CallsAreOneShot == SupervisedSpec => OrdersAreOneShot
<1>1. SupervisedInit => Promise!Init
  BY DEF SupervisedInit, OrderCallsInit, Promise!Init, Kind, Outcome, Calling, Markets,
         Requests, Sending, NoOrder, NoAnswer
<1>2. OrderInv /\ OrderInv' /\ [SupervisedNext]_supervisedVars
        => [Promise!Next]_Promise!vars
  <2>1. ASSUME OrderInv, OrderInv', OrderMove
        PROVE  Promise!Next \/ UNCHANGED <<Kind, Outcome, Executed, answer.filled>>
    <3>1. CASE CallStep
      BY <2>1, <3>1, CallRefines
    <3>2. ASSUME NEW m \in Methods, BeginCall(m) PROVE Promise!Next
      BY <2>1, <3>2, AskRefines DEF Promise!Next
    <3>3. CASE OrderVenueStep
      BY <2>1, <3>3, VenueRefines DEF Promise!Next
    <3>4. CASE Cut
      BY <2>1, <3>4, CutRefines DEF Promise!Next
    <3> QED BY <2>1, <3>1, <3>2, <3>3, <3>4 DEF OrderMove
  <2>2. ASSUME UNCHANGED orderVars
        PROVE  UNCHANGED <<Kind, Outcome, Executed, answer.filled>>
    BY <2>2 DEF orderVars, Kind, Outcome, Calling, Executed, Sum
  <2>3. UNCHANGED <<Kind, Outcome, Executed, answer.filled>> => UNCHANGED Promise!vars
    BY DEF Promise!vars, Executed, Sum
  <2> QED BY <2>1, <2>2, <2>3, StepIsOrderMove DEF supervisedVars
<1> QED BY <1>1, <1>2, OrderInvAlways, PTL DEF SupervisedSpec, OrdersAreOneShot, Promise!Spec

-----------------------------------------------------------------------------
(* The hang                                                                *)

LEMMA StepIsMove == SupervisedNext => Move \/ UNCHANGED watchdogVars
  BY DEF SupervisedNext, BeginPoll, BeginOrderCall, PollCall, BeginRead, EndRead, EndPoll,
         NoPoll, Killed, Restarted, TimePasses, VenueStep, Move, MainStep, WatchdogStep

\* A hang is ended in time whatever request of a poll it happens in, however long
\* the turns of the loop are.
THEOREM HangsAreEnded == SupervisedSpec => []HangIsEnded
<1>1. SupervisedInit => HangInv
  BY HangInvInit DEF SupervisedInit
<1>2. HangInv /\ [SupervisedNext]_supervisedVars => HangInv'
  BY HangInvStep, HangInvStutter, StepIsMove DEF supervisedVars
<1> QED BY <1>1, <1>2, HangInvImplies, PTL DEF SupervisedSpec

-----------------------------------------------------------------------------
(* The length of a turn                                                    *)

Drive == Retries * (DriveTries + 1)

\* How many requests a call may still make, the one that is due included.
Left == CASE at = "check" -> 2 + Drive
          [] at = "create" -> IF method = "market_buy_quote" THEN 2 + Retries + Drive
                              ELSE 1 + Drive
          [] at = "price" -> Retries - failed + 1 + Drive
          [] at = "fallback" -> 1 + Drive
          [] at = "cancel" -> 1 + Drive
          [] at = "fetch" -> Retries - failed + Retries * (DriveTries - polls)
          [] OTHER -> 0

\* The counters start from 0 at the first read that uses them.
CountersOK ==
    /\ at \in {"check", "create", "price", "fallback", "cancel"} => polls = 0
    /\ at \in {"check", "create", "fallback", "cancel"} => failed = 0

\* What multiplication by a natural number keeps.
LEMMA Products ==
    ASSUME NEW k \in Nat
    PROVE  /\ \A a \in Int : a * k \in Int /\ k * a \in Int /\ k * (a - 1) = k * a - k
                             /\ k * (a + 1) = k * a + k
           /\ \A a, b \in Int : a + 1 <= b => a * k + k <= b * k
           /\ \A a \in Nat : k * a \in Nat
           /\ \A a \in Int : a >= 1 => a * k >= k
<1>1. \A a \in Int : a * k \in Int /\ k * a \in Int /\ k * (a - 1) = k * a - k
                    /\ k * (a + 1) = k * a + k
  OBVIOUS
<1>2. \A a \in Nat : k * a \in Nat
  OBVIOUS
<1>3. ASSUME NEW a \in Int, NEW b \in Int, a + 1 <= b PROVE a * k + k <= b * k
  <2>1. b - (a + 1) \in Nat
    BY <1>3
  <2>2. k * (b - (a + 1)) \in Nat
    BY <1>2, <2>1
  <2>3. k * (b - (a + 1)) = b * k - a * k - k
    OBVIOUS
  <2> QED BY <2>2, <2>3
<1>4. ASSUME NEW a \in Int, a >= 1 PROVE a * k >= k
  <2>1. 0 * k + k <= a * k
    BY <1>3, <1>4
  <2> QED BY <2>1
<1> QED BY <1>1, <1>2, <1>3, <1>4

LEMMA DriveIsNat == Drive \in Nat /\ Drive = Retries + Retries * DriveTries
  BY Products, OrderCallsAssumption DEF Drive

LEMMA LeftCounts ==
    ASSUME OrderInv, CountersOK
    PROVE  Left \in Int /\ (Calling => Left >= 1)
<1>1. Retries * (DriveTries - polls) \in Nat
  <2>1. DriveTries - polls \in Nat
    BY OrderCallsAssumption DEF OrderInv, OrderCallsTypeOK
  <2> QED BY <2>1, Products, OrderCallsAssumption
<1> QED BY <1>1, DriveIsNat, OrderCallsAssumption
        DEF OrderInv, OrderCallsTypeOK, Left, Calling, Requests

LEMMA LeftNext == ASSUME OrderInv', CountersOK' PROVE Left' \in Int
<1>1. Retries * (DriveTries - polls') \in Nat
  <2>0. polls' \in 0 .. DriveTries
    BY DEF OrderInv, OrderCallsTypeOK
  <2>1. DriveTries - polls' \in Nat
    <3>1. \A d \in Nat : \A n \in 0 .. d : d - n \in Nat
      OBVIOUS
    <3> QED BY <2>0, <3>1, OrderCallsAssumption
  <2> QED BY <2>1, Products, OrderCallsAssumption
<1> QED BY <1>1, DriveIsNat, OrderCallsAssumption
        DEF OrderInv, OrderCallsTypeOK, Left, Calling, Requests

LEMMA CallCounts ==
    ASSUME OrderInv, OrderInv', CountersOK, CallStep
    PROVE  CountersOK' /\ (Calling' => Left' + 1 <= Left)
<1> USE OrderCallsAssumption, DriveIsNat
    DEF OrderInv, OrderCallsTypeOK, CountersOK, Requests, Sending, Methods, MethodOK, Goto
<1> DEFINE left_fetch == Retries * (DriveTries - polls)
<1>0. /\ left_fetch \in Nat
      /\ Retries * (DriveTries - (polls + 1)) = left_fetch - Retries
      /\ polls = 0 => left_fetch = Retries * DriveTries
  <2>1. DriveTries - polls \in Nat /\ DriveTries - (polls + 1) = (DriveTries - polls) - 1
    OBVIOUS
  <2> QED BY <2>1, Products
<1>1. CountersOK'
  <2>1. CASE Check BY <2>1 DEF Check
  <2>2. CASE Accepted BY <2>2 DEF Accepted
  <2>3. CASE Refused BY <2>3 DEF Refused
  <2>4. CASE AnswerLost BY <2>4 DEF AnswerLost
  <2>5. CASE PriceRead BY <2>5 DEF PriceRead
  <2>6. CASE Cancel BY <2>6 DEF Cancel
  <2>7. CASE Fetched BY <2>7 DEF Fetched, Return
  <2>8. CASE ReadFails BY <2>8 DEF ReadFails, TryAgain
  <2> QED BY <2>1, <2>2, <2>3, <2>4, <2>5, <2>6, <2>7, <2>8 DEF CallStep
<1>2. ASSUME Calling' PROVE Left' + 1 <= Left
  <2> USE <1>0, <1>2 DEF Left, Calling
  <2> HIDE DEF left_fetch
  <2>1. CASE Check BY <2>1 DEF Check
  <2>2. CASE Accepted
    BY <2>2 DEF Accepted, left_fetch
  <2>3. CASE Refused BY <2>3 DEF Refused
  <2>4. CASE AnswerLost BY <2>4 DEF AnswerLost
  <2>5. CASE PriceRead BY <2>5 DEF PriceRead
  <2>6. CASE Cancel BY <2>6 DEF Cancel, left_fetch
  <2>7. CASE Fetched BY <2>7 DEF Fetched, Return, left_fetch
  <2>8. CASE ReadFails BY <2>8 DEF ReadFails, TryAgain, left_fetch
  <2> QED BY <2>1, <2>2, <2>3, <2>4, <2>5, <2>6, <2>7, <2>8 DEF CallStep
<1> QED BY <1>1, <1>2

LEMMA WorstIsNat == WorstCall \in Nat /\ WorstCall = (2 + Retries + Drive) * CallTime
<1>1. Retries * (DriveTries + 2) = Retries + Drive
  <2>1. Retries * ((DriveTries + 1) + 1) = Retries * (DriveTries + 1) + Retries
    BY Products, OrderCallsAssumption
  <2>2. DriveTries + 2 = (DriveTries + 1) + 1
    BY OrderCallsAssumption
  <2> QED BY <2>1, <2>2, DriveIsNat, OrderCallsAssumption DEF Drive
<1>2. 2 + Retries + Drive \in Nat
  BY DriveIsNat, OrderCallsAssumption
<1>3. WorstCall = (2 + Retries + Drive) * CallTime
  BY <1>1, DriveIsNat, OrderCallsAssumption DEF WorstCall
<1> QED BY <1>2, <1>3, Products, CallTimeAssumption

\* No call has more requests to make than the market buy that goes wrong.
LEMMA BeginCounts ==
    ASSUME OrderInv', NEW m \in Methods, BeginCall(m)
    PROVE  CountersOK' /\ Left' * CallTime <= WorstCall
<1>1. CountersOK'
  BY DEF BeginCall, CountersOK
<1>2. Left' <= 2 + Retries + Drive
  BY DriveIsNat, OrderCallsAssumption
     DEF BeginCall, FirstRequest, Left, Methods
<1>3. Left' \in Int
  BY DriveIsNat, OrderCallsAssumption
     DEF BeginCall, FirstRequest, Left, Methods
<1>4. ASSUME Left' = 2 + Retries + Drive PROVE Left' * CallTime <= WorstCall
  BY <1>4, WorstIsNat
<1>5. ASSUME Left' + 1 <= 2 + Retries + Drive PROVE Left' * CallTime <= WorstCall
  <2>1. 2 + Retries + Drive \in Int
    BY DriveIsNat, OrderCallsAssumption
  <2>2. Left' * CallTime + CallTime <= (2 + Retries + Drive) * CallTime
    BY <1>3, <1>5, <2>1, Products, CallTimeAssumption
  <2>3. Left' * CallTime \in Int
    BY <1>3, Products, CallTimeAssumption
  <2> QED BY <2>2, <2>3, WorstIsNat, CallTimeAssumption
<1>6. Left' = 2 + Retries + Drive \/ Left' + 1 <= 2 + Retries + Drive
  <2>1. \A a, b \in Int : a <= b => a = b \/ a + 1 <= b
    OBVIOUS
  <2>2. 2 + Retries + Drive \in Int
    BY DriveIsNat, OrderCallsAssumption
  <2> QED BY <1>2, <1>3, <2>1, <2>2
<1> QED BY <1>1, <1>4, <1>5, <1>6

Spare == LagMax + PollTime

\* The time that the request under way, and those its call makes after it, may take.
Under == IF Calling THEN Left * CallTime ELSE IF reading THEN CallTime ELSE 0

\* The time that the calls and requests of this poll still to be begun may take.
AheadOf(c, r) == WorstCall * (PollOrders - c) + CallTime * (PollReads - r)
Ahead == AheadOf(calls, reads)

LEMMA AheadCounts ==
    ASSUME NEW c \in 0 .. PollOrders, NEW r \in 0 .. PollReads
    PROVE  /\ AheadOf(c, r) \in Nat
           /\ c < PollOrders => AheadOf(c + 1, r) + WorstCall = AheadOf(c, r)
           /\ r < PollReads => AheadOf(c, r + 1) + CallTime = AheadOf(c, r)
<1> DEFINE a == PollOrders - c
           b == PollReads - r
<1>1. a \in Nat /\ b \in Nat
  BY PollAssumption
<1>2. /\ WorstCall * a \in Nat /\ WorstCall * (a - 1) = WorstCall * a - WorstCall
      /\ CallTime * b \in Nat /\ CallTime * (b - 1) = CallTime * b - CallTime
  <2> HIDE DEF a, b
  <2> QED BY <1>1, Products, WorstIsNat, CallTimeAssumption
<1>3. PollOrders - (c + 1) = a - 1 /\ PollReads - (r + 1) = b - 1
  BY PollAssumption
<1>4. /\ AheadOf(c, r) = WorstCall * a + CallTime * b
      /\ AheadOf(c + 1, r) = WorstCall * (a - 1) + CallTime * b
      /\ AheadOf(c, r + 1) = WorstCall * a + CallTime * (b - 1)
  BY <1>3 DEF AheadOf
<1> HIDE DEF a, b
<1> QED BY <1>2, <1>4, WorstIsNat, CallTimeAssumption

LEMMA NoneIsInRange == 0 \in 0 .. PollOrders /\ 0 \in 0 .. PollReads
  BY PollAssumption

LEMMA AheadAtFirst == AheadOf(0, 0) = PollTime /\ PollTime \in Nat
<1>1. AheadOf(0, 0) = WorstCall * PollOrders + CallTime * PollReads
  BY PollAssumption DEF AheadOf
<1>2. /\ WorstCall * PollOrders = PollOrders * WorstCall
      /\ CallTime * PollReads = PollReads * CallTime
  BY PollAssumption, WorstIsNat, CallTimeAssumption
<1>3. AheadOf(0, 0) \in Nat
  BY AheadCounts, PollAssumption
<1> QED BY <1>1, <1>2, <1>3 DEF PollTime

\* One request at a time, none between the polls, and no more than the poll has.
PollOK ==
    /\ calls \in 0 .. PollOrders /\ reads \in 0 .. PollReads /\ reading \in BOOLEAN
    /\ reading => ~Calling
    /\ loop # "poll" => ~Calling /\ ~reading /\ calls = 0 /\ reads = 0

\* The time of a turn is paid for by the requests made, the wait and the shutdown:
\* what has passed and what may follow never exceed what the poll was given.
InBudget ==
    CASE loop = "beating" -> elapsed <= LagMax
      [] loop = "poll" -> /\ elapsed + Under + Ahead <= Spare + spent
                          /\ Calling \/ reading \/ spent = 0
      [] loop = "sleep" -> elapsed <= Spare + slept
      [] loop = "top" -> elapsed <= Spare + PollSeconds
      [] loop = "closing" -> elapsed <= Spare + PollSeconds + spent
      [] OTHER -> TRUE

BudgetInv ==
    /\ WatchdogTypeOK /\ OrderInv /\ CountersOK /\ PollOK
    /\ spent \in 0 .. CallTime /\ slept <= PollSeconds
    /\ hung => stalled
    /\ loop \in {"boot", "beating", "sleep", "top"} => spent = 0
    /\ stalled \/ InBudget

\* What is owed is a number, and a request under way owes the whole of its time.
LEMMA OwedCounts ==
    ASSUME BudgetInv
    PROVE  /\ Under \in Int /\ Ahead \in Nat
           /\ Calling \/ reading => Under >= CallTime
           /\ ~Calling /\ ~reading => Under = 0
<1>1. Ahead \in Nat
  BY AheadCounts DEF Ahead, BudgetInv, PollOK
<1>2. Left \in Int /\ (Calling => Left >= 1)
  BY LeftCounts DEF BudgetInv
<1>3. Left * CallTime \in Int /\ (Calling => Left * CallTime >= CallTime)
  BY <1>2, Products, CallTimeAssumption
<1> QED BY <1>1, <1>3, CallTimeAssumption DEF Under, BudgetInv, PollOK

LEMMA BudgetPaysTick ==
    ASSUME BudgetInv, Elapse, hung \/ RequestInTime
    PROVE  Tick
<1>1. CASE stalled BY <1>1 DEF Tick
<1>2. CASE ~stalled
  <2>1. RequestInTime /\ InBudget BY <1>2 DEF BudgetInv
  <2>2. CASE loop = "poll"
    BY <2>1, <2>2, OwedCounts, IterationBound, WatchdogAssumption, AheadAtFirst,
       CallTimeAssumption
       DEF Tick, TurnInTime, InBudget, RequestInTime, Spare, BudgetInv, WatchdogTypeOK
  <2>3. CASE loop # "poll"
    BY <2>1, <2>3, IterationBound, WatchdogAssumption, AheadAtFirst, CallTimeAssumption
       DEF Tick, TurnInTime, InBudget, RequestInTime, Spare, BudgetInv, WatchdogTypeOK,
           Looping
  <2> QED BY <2>2, <2>3
<1> QED BY <1>1, <1>2

\* So a step of the supervised loop is one of Watchdog.
LEMMA StepIsWatchdogStep ==
    ASSUME BudgetInv, SupervisedNext
    PROVE  WatchdogNext \/ UNCHANGED watchdogVars
  BY BudgetPaysTick
     DEF SupervisedNext, BeginPoll, BeginOrderCall, PollCall, BeginRead, EndRead, EndPoll,
         NoPoll, Killed, Restarted, TimePasses, VenueStep, WatchdogNext, MainStep,
         WatchdogStep

LEMMA BudgetInit == SupervisedInit => BudgetInv
<1> SUFFICES ASSUME SupervisedInit PROVE BudgetInv
  OBVIOUS
<1>1. WatchdogTypeOK
  BY HangInvInit DEF SupervisedInit, HangInv
<1>2. OrderInv /\ CountersOK
  BY OrderInvInit DEF SupervisedInit, OrderCallsInit, CountersOK
<1>3. spent \in 0 .. CallTime
  BY CallTimeAssumption DEF SupervisedInit
<1>4. hung = FALSE /\ spent = 0 /\ slept = 0 /\ loop = "boot"
  BY DEF SupervisedInit, WatchdogInit
<1>5. InBudget
  BY <1>4 DEF InBudget
<1>6. PollOK
  <2>1. calls \in 0 .. PollOrders /\ reads \in 0 .. PollReads
    BY PollAssumption DEF SupervisedInit
  <2>2. calls = 0 /\ reads = 0 /\ reading = FALSE
    BY DEF SupervisedInit
  <2>3. ~Calling
    BY DEF SupervisedInit, OrderCallsInit, Calling, Requests
  <2> QED BY <2>1, <2>2, <2>3 DEF PollOK
<1>7. slept <= PollSeconds
  BY <1>4, WatchdogAssumption
<1> QED BY <1>1, <1>2, <1>3, <1>4, <1>5, <1>6, <1>7 DEF BudgetInv

\* The parts that need no arithmetic, step by step.
LEMMA TypesStep ==
    ASSUME HangInv, BudgetInv, [SupervisedNext]_supervisedVars
    PROVE  /\ WatchdogTypeOK' /\ OrderInv' /\ CountersOK' /\ PollOK'
           /\ spent' \in 0 .. CallTime /\ slept' <= PollSeconds
<1>1. WatchdogTypeOK'
  <2>1. HangInv'
    BY HangInvStep, HangInvStutter, StepIsMove DEF supervisedVars
  <2> QED BY <2>1 DEF HangInv
<1>2. OrderInv'
  <2>1. ASSUME OrderInv, UNCHANGED orderVars PROVE OrderInv'
    BY <2>1 DEF orderVars, OrderInv, OrderCallsTypeOK, OrdersOK, OrderOK, OneIsPlaced,
                PlacedInTime, NothingPlaced, MethodOK, AnswerOK
  <2> QED BY <2>1, OrderInvStep, StepIsOrderMove DEF supervisedVars, BudgetInv
<1>3. CountersOK'
  <2>1. CASE CallStep
    BY <1>2, <2>1, CallCounts DEF BudgetInv
  <2>2. ASSUME NEW m \in Methods, BeginCall(m) PROVE CountersOK'
    BY <1>2, <2>2, BeginCounts
  <2>3. CASE OrderVenueStep
    BY <2>3 DEF OrderVenueStep, Arrive, Fill, End, CountersOK, BudgetInv
  <2>4. CASE Cut
    BY <2>4 DEF Cut, CountersOK, BudgetInv
  <2>5. CASE UNCHANGED orderVars
    BY <2>5 DEF orderVars, CountersOK, BudgetInv
  <2> QED BY <2>1, <2>2, <2>3, <2>4, <2>5, StepIsOrderMove DEF OrderMove, supervisedVars
<1>4. spent' \in 0 .. CallTime
  BY CallTimeAssumption
     DEF BudgetInv, SupervisedNext, BeginPoll, BeginOrderCall, PollCall, BeginRead, EndRead,
         EndPoll, NoRequests, NoPoll, Killed, Restarted, TimePasses, VenueStep,
         supervisedVars
<1>5. slept' <= PollSeconds
  <2>0. slept \in Nat /\ PollSeconds \in Nat
    BY WatchdogAssumption DEF BudgetInv, WatchdogTypeOK
  <2>1. slept' \in {slept, 0} \/ (slept < PollSeconds /\ slept' = slept + 1)
    <3>1. CASE UNCHANGED watchdogVars
      BY <3>1 DEF watchdogVars
    <3>2. CASE Move
      BY <2>0, <3>2 DEF Move, MainStep, WatchdogStep, EnterLoop, LeaveBoot, ReadClock, StoreBeat,
                  PollEnds, WaitEnds, LeaveLoop, Shutdown, Hang, Resume, Signal, StopCheck,
                  Measure, Wake, Exit, Restart, Elapse
    <3> QED BY <3>1, <3>2, StepIsMove DEF supervisedVars
  <2> QED BY <2>0, <2>1 DEF BudgetInv
<1>6. PollOK'
  <2> USE DEF BudgetInv, PollOK
  <2>1. CASE BeginPoll
    BY <2>1 DEF BeginPoll, StoreBeat, orderVars, pollVars, Calling
  <2>2. CASE BeginOrderCall
    BY <2>2, PollAssumption DEF BeginOrderCall, InPoll, watchdogVars
  <2>3. CASE PollCall
    <3>1. Calling
      BY <2>3 DEF PollCall, CallStep, Check, Accepted, Refused, AnswerLost, PriceRead,
                  Cancel, Fetched, ReadFails, Calling, Requests, Sending
    <3> QED BY <2>3, <3>1 DEF PollCall, InPoll, watchdogVars, pollVars
  <2>4. CASE BeginRead
    BY <2>4, PollAssumption DEF BeginRead, InPoll, watchdogVars, orderVars, Calling
  <2>5. CASE EndRead
    BY <2>5 DEF EndRead, InPoll, watchdogVars, orderVars, Calling
  <2>6. CASE EndPoll
    <3>1. calls' = 0 /\ reads' = 0 /\ reading' = FALSE /\ ~Calling'
      BY <2>6 DEF EndPoll, NoRequests, orderVars, Calling
    <3> QED BY <3>1, NoneIsInRange
  <2>7. CASE NoPoll
    <3>1. UNCHANGED <<orderVars, pollVars>> /\ (loop' = "poll" => loop = "poll")
      BY <2>7 DEF NoPoll, EnterLoop, LeaveBoot, ReadClock, WaitEnds, LeaveLoop, Shutdown,
                  Hang, Resume, Signal, StopCheck, Measure, Wake
    <3>2. loop = "poll" => loop' = "poll"
      BY <2>7 DEF NoPoll, EnterLoop, LeaveBoot, ReadClock, WaitEnds, LeaveLoop, Shutdown,
                  Hang, Resume, Signal, StopCheck, Measure, Wake
    <3> QED BY <3>1, <3>2 DEF orderVars, pollVars, Calling
  <2>8. CASE Killed
    <3>1. calls' = 0 /\ reads' = 0 /\ reading' = FALSE
      BY <2>8 DEF Killed, NoRequests
    <3>2. ~Calling'
      BY <2>8 DEF Killed, Cut, Calling, Requests
    <3> QED BY <3>1, <3>2, NoneIsInRange
  <2>9. CASE Restarted
    <3>1. calls' = 0 /\ reads' = 0 /\ reading' = FALSE /\ ~Calling'
      BY <2>9 DEF Restarted, Restart, NoRequests, orderVars, Calling
    <3> QED BY <3>1, NoneIsInRange
  <2>10. CASE TimePasses \/ VenueStep
    BY <2>10 DEF TimePasses, Elapse, VenueStep, OrderVenueStep, Arrive, Fill, End,
                 watchdogVars, orderVars, pollVars, Calling
  <2>11. CASE UNCHANGED supervisedVars
    BY <2>11 DEF supervisedVars, watchdogVars, orderVars, pollVars, Calling
  <2> QED BY <2>1, <2>2, <2>3, <2>4, <2>5, <2>6, <2>7, <2>8, <2>9, <2>10, <2>11
          DEF SupervisedNext
<1> QED BY <1>1, <1>2, <1>3, <1>4, <1>5, <1>6

LEMMA BudgetStep ==
    ASSUME HangInv, BudgetInv, SupervisedNext
    PROVE  BudgetInv'
<1>1. /\ WatchdogTypeOK' /\ OrderInv' /\ CountersOK' /\ PollOK'
      /\ spent' \in 0 .. CallTime /\ slept' <= PollSeconds
  BY TypesStep
<1>2. (hung => stalled)' /\ (loop \in {"boot", "beating", "sleep", "top"} => spent = 0)'
  BY DEF BudgetInv, SupervisedNext, BeginPoll, BeginOrderCall, PollCall, BeginRead, EndRead,
         EndPoll, NoRequests, InPoll, NoPoll, Killed, Restarted, TimePasses, VenueStep,
         EnterLoop, LeaveBoot, ReadClock, StoreBeat, PollEnds, WaitEnds, LeaveLoop,
         Shutdown, Hang, Resume, Signal, StopCheck, Measure, Wake, Exit, Restart, Elapse,
         watchdogVars
<1>3. (stalled \/ InBudget)'
  <2>0. /\ Under \in Int /\ Ahead \in Nat
        /\ Calling \/ reading => Under >= CallTime
        /\ ~Calling /\ ~reading => Under = 0
    BY OwedCounts
  <2>a. Ahead' = AheadOf(calls', reads')
    BY DEF Ahead, AheadOf
  <2> USE <1>1, <2>0, WorstIsNat, AheadAtFirst, WatchdogAssumption, CallTimeAssumption
      DEF BudgetInv, PollOK, WatchdogTypeOK, InBudget, Spare
  <2>1. CASE BeginPoll
    <3>1. /\ loop = "beating" /\ loop' = "poll" /\ spent' = 0
          /\ UNCHANGED <<elapsed, stalled>>
      BY <2>1 DEF BeginPoll, StoreBeat
    <3>2. UNCHANGED <<at, calls, reads, reading>>
      BY <2>1 DEF BeginPoll, orderVars, pollVars
    <3>3. Under' = 0 /\ Ahead' = PollTime
      BY <3>1, <3>2, <2>a DEF Under, Calling
    <3> QED BY <3>1, <3>3
  <2>2. CASE BeginOrderCall
    <3>1. PICK m \in Methods : BeginCall(m)
      BY <2>2 DEF BeginOrderCall
    <3>2. Left' * CallTime <= WorstCall /\ Left' * CallTime \in Int
      BY <1>1, <3>1, BeginCounts, LeftNext, Products
    <3>3. ~Calling /\ Calling'
      BY <3>1 DEF BeginCall, FirstRequest, Calling, Requests, Methods
    <3>4. /\ loop = "poll" /\ spent' = 0 /\ ~reading /\ calls < PollOrders
          /\ calls' = calls + 1 /\ UNCHANGED <<loop, elapsed, stalled, reads>>
      BY <2>2 DEF BeginOrderCall, InPoll, watchdogVars
    <3>5. Ahead' + WorstCall = Ahead /\ Ahead' \in Nat
      BY <2>a, <3>4, AheadCounts DEF Ahead
    <3>6. Under' = Left' * CallTime
      BY <3>3 DEF Under
    <3> QED BY <3>2, <3>3, <3>4, <3>5, <3>6
  <2>3. CASE PollCall
    <3>1. /\ loop = "poll" /\ Calling /\ spent' = 0
          /\ UNCHANGED <<loop, elapsed, stalled, calls, reads, reading>>
      BY <2>3 DEF PollCall, InPoll, watchdogVars, pollVars, CallStep, Check, Accepted,
                  Refused, AnswerLost, PriceRead, Cancel, Fetched, ReadFails, Calling,
                  Requests, Sending
    <3>2. Under = Left * CallTime /\ Ahead' = Ahead
      BY <3>1, <2>a DEF Under, Ahead
    <3>3. Calling' => Left' * CallTime \in Int /\ Left' * CallTime + CallTime <= Left * CallTime
      BY <1>1, <2>3, LeftCounts, LeftNext, CallCounts, Products DEF PollCall
    <3>4. Under' = IF Calling' THEN Left' * CallTime ELSE 0
      BY <3>1 DEF Under
    <3> QED BY <3>1, <3>2, <3>3, <3>4
  <2>4. CASE BeginRead
    <3>1. /\ loop = "poll" /\ ~Calling /\ ~reading /\ reads < PollReads /\ spent' = 0
          /\ reads' = reads + 1 /\ reading'
          /\ UNCHANGED <<loop, elapsed, stalled, at, calls>>
      BY <2>4 DEF BeginRead, InPoll, watchdogVars, orderVars
    <3>2. Ahead' + CallTime = Ahead /\ Ahead' \in Nat
      BY <2>a, <3>1, AheadCounts DEF Ahead
    <3>3. Under' = CallTime
      BY <3>1 DEF Under, Calling
    <3> QED BY <3>1, <3>2, <3>3
  <2>5. CASE EndRead
    <3>1. /\ loop = "poll" /\ reading /\ ~reading' /\ spent' = 0
          /\ UNCHANGED <<loop, elapsed, stalled, at, calls, reads>>
      BY <2>5 DEF EndRead, InPoll, watchdogVars, orderVars
    <3>2. Ahead' = Ahead /\ Under' = 0
      BY <2>a, <3>1 DEF Ahead, Under, Calling
    <3> QED BY <3>1, <3>2
  <2>6. CASE EndPoll
    BY <2>6 DEF EndPoll, PollEnds, NoRequests
  <2>7. CASE NoPoll
    <3>1. UNCHANGED <<orderVars, pollVars, spent>>
      BY <2>7 DEF NoPoll
    <3>2. Under' = Under /\ Ahead' = Ahead /\ Calling' = Calling
      BY <3>1, <2>a DEF orderVars, pollVars, Under, Ahead, Left, Calling
    <3> QED BY <2>7, <3>1, <3>2
            DEF NoPoll, pollVars, EnterLoop, LeaveBoot, ReadClock, WaitEnds, LeaveLoop,
                Shutdown, Hang, Resume, Signal, StopCheck, Measure, Wake
  <2>8. CASE Killed
    BY <2>8 DEF Killed, Exit
  <2>9. CASE Restarted
    BY <2>9 DEF Restarted, Restart
  <2>10. CASE TimePasses
    <3>1. Under' = Under /\ Calling' = Calling /\ Ahead' = Ahead /\ reading' = reading
      BY <2>10, <2>a DEF TimePasses, orderVars, pollVars, Under, Ahead, Left, Calling
    <3>2. CASE stalled
      BY <2>10, <3>2 DEF TimePasses, Elapse
    <3>3. CASE ~stalled
      <4>1. /\ elapsed' <= elapsed + 1 /\ elapsed' \in Nat /\ loop' = loop /\ RequestInTime
            /\ slept' = IF loop = "sleep" /\ slept < PollSeconds THEN slept + 1 ELSE slept
            /\ spent' = IF loop \in {"poll", "closing"} /\ spent < CallTime
                        THEN spent + 1 ELSE spent
        BY <2>10, <3>3 DEF TimePasses, Elapse, Older
      <4>2. elapsed + 1 \in Nat
        OBVIOUS
      <4> HIDE DEF WatchdogTypeOK
      <4>3. CASE loop = "poll"
        BY <3>1, <3>3, <4>1, <4>2, <4>3 DEF RequestInTime, WatchdogTypeOK
      <4>4. CASE loop # "poll"
        BY <3>3, <4>1, <4>4 DEF RequestInTime, WatchdogTypeOK
      <4> QED BY <4>3, <4>4
    <3> QED BY <3>2, <3>3
  <2>11. CASE VenueStep
    <3>1. Under' = Under /\ Ahead' = Ahead /\ Calling' = Calling
      BY <2>11, <2>a DEF VenueStep, OrderVenueStep, Arrive, Fill, End, pollVars, Under, Ahead,
                         Left, Calling
    <3> QED BY <2>11, <3>1 DEF VenueStep, watchdogVars, pollVars
  <2> QED BY <2>1, <2>2, <2>3, <2>4, <2>5, <2>6, <2>7, <2>8, <2>9, <2>10, <2>11
          DEF SupervisedNext
<1> QED BY <1>1, <1>2, <1>3 DEF BudgetInv

SupervisedInv == HangInv /\ BudgetInv

\* A step of the supervised loop keeps the invariants of the hang and of the
\* budget together, and is one of Watchdog.
LEMMA SupervisedStep ==
    /\ SupervisedInit => SupervisedInv /\ WatchdogInit
    /\ SupervisedInv /\ [SupervisedNext]_supervisedVars
         => SupervisedInv' /\ [WatchdogNext]_watchdogVars
<1> USE DEF SupervisedInv
<1>1. SupervisedInit => HangInv /\ BudgetInv /\ WatchdogInit
  BY HangInvInit, BudgetInit DEF SupervisedInit
<1>2. HangInv /\ BudgetInv /\ [SupervisedNext]_supervisedVars
        => HangInv' /\ BudgetInv' /\ [WatchdogNext]_watchdogVars
  <2> SUFFICES ASSUME HangInv, BudgetInv, [SupervisedNext]_supervisedVars
               PROVE  HangInv' /\ BudgetInv' /\ [WatchdogNext]_watchdogVars
    OBVIOUS
  <2>1. HangInv'
    BY HangInvStep, HangInvStutter, StepIsMove DEF supervisedVars
  <2>2. CASE SupervisedNext
    BY <2>1, <2>2, BudgetStep, StepIsWatchdogStep
  <2>3. CASE UNCHANGED supervisedVars
    <3>1. InBudget => InBudget'
      BY <2>3 DEF supervisedVars, watchdogVars, orderVars, pollVars, InBudget, Under, Ahead,
                  AheadOf, Left, Calling
    <3>2. BudgetInv'
      BY <2>3, <3>1, TypesStep DEF BudgetInv, supervisedVars, watchdogVars
    <3> QED BY <2>1, <2>3, <3>2 DEF supervisedVars
  <2> QED BY <2>2, <2>3
<1> QED BY <1>1, <1>2

\* The supervised loop keeps every promise that Watchdog makes of a turn: the
\* time-outs and retries of all the calls of a poll, one after another, and of the
\* requests between them are what IterationMax stands for.
THEOREM TurnsKeepTheBound == SupervisedSpec => TurnsAreBounded
  BY SupervisedStep, PTL DEF SupervisedSpec, TurnsAreBounded, WatchdogSpec

\* Both threads, the calls and the venue keep their types: above all, what the
\* wrapper answers is a status that the executor knows, and no request takes
\* longer than its time-out.
THEOREM SupervisedTypes == SupervisedSpec => []SupervisedTypeOK
<1>1. SupervisedInv => SupervisedTypeOK
  BY DEF SupervisedInv, BudgetInv, OrderInv, PollOK, SupervisedTypeOK
<1> QED BY <1>1, SupervisedStep, PTL DEF SupervisedSpec

\* Hence the live loop is never killed by its watchdog, if the longest poll, the
\* wait, the shutdown and two delays of a beat fit into the timeout.
THEOREM NoLiveLoopIsKilled == SupervisedSpec => []NoFalseAlarm
  BY TurnsKeepTheBound, WatchdogIsSafe, PTL DEF TurnsAreBounded

=============================================================================
