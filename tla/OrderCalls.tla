----------------------------- MODULE OrderCalls -----------------------------
(***************************************************************************)
(* One call of the exchange wrapper about an order (CcxtExchange of        *)
(* src/exchange.py), request by request: which requests are retried, which *)
(* errors end the call, and what the venue does meanwhile.                 *)
(*                                                                         *)
(* A request may fail before or after it took effect, and the effect of a  *)
(* request nobody waits for any more may come late.  at names the request  *)
(* that is due:                                                            *)
(*                                                                         *)
(*   check      the precision and minimum checks before an order           *)
(*   create     the order itself (market by cost, limit, or sale)          *)
(*   price      fetch_price, for a market buy sized in base                *)
(*   fallback   the market buy sized in base                               *)
(*   cancel     the request to cancel                                      *)
(*   fetch      fetch_order, once or until _drive_to_close has had enough  *)
(***************************************************************************)
EXTENDS Integers

CONSTANTS Size,          \* what an order asks for
          Retries,       \* _RETRIES
          DriveTries     \* tries of _drive_to_close

ASSUME OrderCallsAssumption ==
    Size \in Nat \ {0} /\ Retries \in Nat \ {0} /\ DriveTries \in Nat

VARIABLES method,        \* the method of the wrapper
          at,            \* the request that is due, or how the call ended
          failed,        \* NetworkErrors of the current read so far
          polls,         \* answers that _drive_to_close has found not closed
          placed,        \* the orders at the venue, by the request that sent them
          order_id,      \* which of them the call is about
          answer         \* what the call returned

orderVars == <<method, at, failed, polls, placed, order_id, answer>>

Methods == {"market_buy_quote", "market_sell_all", "place_limit_buy",
            "fetch_order", "cancel_order"}
Markets == {"market_buy_quote", "market_sell_all"}
Requests == {"check", "create", "price", "fallback", "cancel", "fetch"}
Sending == {"create", "fallback"}

\* An order on its way is "sent".
Order == [status : {"none", "sent", "open", "closed", "canceled", "expired"},
          filled : 0 .. Size]
NoOrder == [status |-> "none", filled |-> 0]
NoAnswer == NoOrder

OrderCallsTypeOK ==
    /\ method \in Methods
    /\ at \in Requests \cup {"none", "returned", "raised"}
    /\ failed \in 0 .. Retries - 1
    /\ polls \in 0 .. DriveTries
    /\ placed \in [Sending -> Order]
    /\ order_id \in Sending
    /\ answer \in [status : {"none", "open", "closed", "canceled"}, filled : 0 .. Size]

OrderCallsInit ==
    /\ method = "market_buy_quote" /\ at = "none"
    /\ failed = 0 /\ polls = 0
    /\ placed = [i \in Sending |-> NoOrder] /\ order_id = "create"
    /\ answer = NoAnswer

Calling == at \in Requests

-----------------------------------------------------------------------------
(* The venue                                                               *)

\* A sent order whose sender gave up arrives after all.
Arrive(i) == /\ placed[i].status = "sent"
             /\ placed' = [placed EXCEPT ![i].status = "open"]
             /\ UNCHANGED <<method, at, failed, polls, order_id, answer>>

Fill(i) == /\ placed[i].status = "open"
           /\ \E f \in placed[i].filled + 1 .. Size :
                 placed' = [placed EXCEPT ![i] =
                     [status |-> IF f = Size THEN "closed" ELSE "open", filled |-> f]]
           /\ UNCHANGED <<method, at, failed, polls, order_id, answer>>

\* A limit order expires, a market order runs out of offers, an order is
\* canceled by hand or by a request to cancel that came late.
End(i) == /\ placed[i].status = "open"
          /\ \E s \in {"canceled", "expired"} :
                placed' = [placed EXCEPT ![i].status = s]
          /\ UNCHANGED <<method, at, failed, polls, order_id, answer>>

-----------------------------------------------------------------------------
(* The steps of a call                                                     *)

FirstRequest(m) == CASE m = "market_buy_quote" -> "create"
                     [] m \in {"market_sell_all", "place_limit_buy"} -> "check"
                     [] m = "fetch_order" -> "fetch"
                     [] m = "cancel_order" -> "cancel"

\* The executor calls a method; the last two are about an order there is.
BeginCall(m) ==
    /\ ~Calling
    /\ method' = m /\ at' = FirstRequest(m)
    /\ failed' = 0 /\ polls' = 0 /\ answer' = NoAnswer /\ order_id' = "create"
    /\ \E o \in IF m \in {"fetch_order", "cancel_order"}
                THEN [status : {"open", "canceled", "expired"}, filled : 0 .. Size - 1]
                       \cup {[status |-> "closed", filled |-> Size]}
                ELSE {NoOrder} :
          placed' = [i \in Sending |-> IF i = "create" THEN o ELSE NoOrder]

\* Nothing changes at the venue.
Goto(request) == /\ at' = request
                 /\ failed' = 0 /\ polls' = 0
                 /\ UNCHANGED <<method, placed, order_id, answer>>

\* The amount, rounded to the lot, is below the minimum: the call raises.  An
\* empty balance to sell is no order at all.
Check == /\ at = "check"
         /\ \/ Goto("create") \/ Goto("raised")
            \/ method = "market_sell_all" /\ Goto("returned")

\* The order is placed.  A limit order is reported as it was asked for, all
\* the others are driven to their end.
Accepted ==
    /\ at \in Sending
    /\ placed' = [placed EXCEPT ![at].status = "open"]
    /\ order_id' = at
    /\ IF method = "place_limit_buy"
       THEN at' = "returned" /\ answer' = [status |-> "open", filled |-> 0]
       ELSE at' = "fetch" /\ UNCHANGED answer
    /\ UNCHANGED <<method, failed, polls>>

\* The venue refuses the order.  A market buy by cost has a second way, for
\* NotSupported, InvalidOrder and BadRequest; any other refusal is raised.
Refused ==
    /\ at \in Sending
    /\ \/ Goto("raised")
       \/ method = "market_buy_quote" /\ at = "create" /\ Goto("price")

\* A bug: the second way is taken for a lost answer, too.
AnswerLost_Fallback ==
    /\ at \in Sending
    /\ at' = IF method = "market_buy_quote" /\ at = "create" THEN "price" ELSE "raised"
    /\ placed' = [placed EXCEPT ![at].status = "sent"]
    /\ UNCHANGED <<method, failed, polls, order_id, answer>>

\* NetworkError: the order may be on its way.  It is never sent again.
AnswerLost ==
    /\ at \in Sending
    /\ at' = "raised"
    /\ placed' = [placed EXCEPT ![at].status = "sent"]
    /\ UNCHANGED <<method, failed, polls, order_id, answer>>

PriceRead == at = "price" /\ Goto("fallback")

\* cancel_order passes over any failure of the request, and asks for the final
\* state in any case.
Cancel ==
    /\ at = "cancel"
    /\ at' = "fetch"
    /\ \/ UNCHANGED placed
       \/ /\ placed[order_id].status = "open"
          /\ placed' = [placed EXCEPT ![order_id].status = "canceled"]
    /\ UNCHANGED <<method, failed, polls, order_id, answer>>

\* A bug: the status is passed on as the venue calls it.
_normalize_As_Is(s) == s

\* Kraken calls a limit order that ended by itself expired.
_normalize(s) == IF s = "expired" THEN "canceled" ELSE s

Return(o) == /\ at' = "returned"
             /\ answer' = [status |-> _normalize(o.status), filled |-> o.filled]
             /\ failed' = 0 /\ polls' = 0
             /\ UNCHANGED <<method, placed, order_id>>

\* A bug: an order that ended without being filled in full will do.
Driven_Ended(o) == o.status # "open"

\* _drive_to_close is content with nothing but a closed order.
Driven(o) == o.status = "closed"

\* An answer of fetch_order.  _drive_to_close looks at DriveTries of them; it
\* asks once more, and raises without a look at the last one.
Fetched ==
    /\ at = "fetch"
    /\ LET o == placed[order_id]
       IN  \/ method \notin Markets /\ Return(o)
           \/ /\ method \in Markets /\ polls < DriveTries
              /\ IF Driven(o) THEN Return(o)
                 ELSE /\ polls' = polls + 1 /\ failed' = 0
                      /\ UNCHANGED <<method, at, placed, order_id, answer>>
           \/ method \in Markets /\ polls = DriveTries /\ Goto("raised")

\* A bug: a read is tried again for as long as the network is down.
TryAgain_Forever == failed < Retries

TryAgain == failed < Retries - 1

\* _retry: a read is tried again after a NetworkError, Retries times in all; any
\* other error (InvalidNonce, ExchangeError) is raised at once.
ReadFails ==
    /\ at \in {"price", "fetch"}
    /\ \/ Goto("raised")
       \/ /\ TryAgain
          /\ failed' = IF failed < Retries - 1 THEN failed + 1 ELSE failed
          /\ UNCHANGED <<method, at, polls, placed, order_id, answer>>

CallStep == \/ Check \/ Accepted \/ Refused \/ AnswerLost \/ PriceRead \/ Cancel
            \/ Fetched \/ ReadFails

OrderVenueStep == \E i \in Sending : Arrive(i) \/ Fill(i) \/ End(i)

-----------------------------------------------------------------------------
(* The promise                                                             *)

Kind == CASE method \in Markets -> "market"
          [] method = "place_limit_buy" -> "limit"
          [] OTHER -> "status"

Outcome == CASE Calling -> "asked"
             [] at \in {"none", "raised"} -> at
             [] at = "returned" -> CASE answer.status = "none" -> "none"
                                     [] answer.status = "open" -> "resting"
                                     [] OTHER -> "ended"

Promise == INSTANCE OneShotOrder
           WITH kind <- Kind, outcome <- Outcome,
                executed <- placed["create"].filled + placed["fallback"].filled,
                reported <- answer.filled

\* Whatever is lost, refused or late, a call about an order keeps the promise
\* that Executor takes it for: a market order that returns was executed in full,
\* an answer that calls an order ended is final, and nothing is bought twice.
OrdersAreOneShot == Promise!Spec
=============================================================================
