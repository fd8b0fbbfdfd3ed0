---------------------------- MODULE OneShotOrder ----------------------------
(***************************************************************************)
(* What the executor relies on when it asks the exchange wrapper about one *)
(* order (the docstring of src/exchange.py):                               *)
(*                                                                         *)
(*   - a market order returns only once it is executed in full, and what   *)
(*     it reports is what was executed;                                    *)
(*   - an answer that calls an order ended is final;                       *)
(*   - the order is executed once, never a second time;                    *)
(*   - a call that raises promises nothing but that: the order may be      *)
(*     executed, in part or in full, then or later.                        *)
(*                                                                         *)
(* Executor takes a call for one step with exactly these outcomes.         *)
(***************************************************************************)
EXTENDS Integers

CONSTANT Size               \* what an order asks for: a positive number

VARIABLES kind,             \* "market", "limit", or "status" of an order there is
          outcome,          \* "none", "asked", "ended", "resting", "raised"
          executed,         \* how much of the order was executed
          reported          \* how much the answer says was executed

vars == <<kind, outcome, executed, reported>>

Init == kind = "market" /\ outcome = "none" /\ executed = 0 /\ reported = 0

\* Only an order that is asked about may have been executed before.
Ask == /\ outcome # "asked"
       /\ outcome' = "asked"
       /\ kind' \in {"market", "limit", "status"}
       /\ executed' \in IF kind' = "status" THEN 0 .. Size ELSE {0}
       /\ reported' = 0

\* While the call runs, after it raised, and while the order rests in the book.
Execute == /\ outcome \in {"asked", "raised", "resting"}
           /\ executed' \in executed + 1 .. Size
           /\ UNCHANGED <<kind, outcome, reported>>

\* From here on nothing is executed any more.
ReturnEnded == /\ outcome = "asked" /\ kind # "limit"
               /\ kind = "market" => executed = Size
               /\ outcome' = "ended" /\ reported' = executed
               /\ UNCHANGED <<kind, executed>>

\* There was nothing to sell: no order is sent.
ReturnNothing == /\ outcome = "asked" /\ kind = "market" /\ executed = 0
                 /\ outcome' = "none"
                 /\ UNCHANGED <<kind, executed, reported>>

ReturnResting == /\ outcome = "asked" /\ kind # "market"
                 /\ outcome' = "resting"
                 /\ reported' \in 0 .. executed
                 /\ kind = "limit" => reported' = 0
                 /\ UNCHANGED <<kind, executed>>

Raise == /\ outcome = "asked"
         /\ outcome' = "raised"
         /\ UNCHANGED <<kind, executed, reported>>

Next == Ask \/ Execute \/ ReturnEnded \/ ReturnNothing \/ ReturnResting \/ Raise

Spec == Init /\ [][Next]_vars
=============================================================================
