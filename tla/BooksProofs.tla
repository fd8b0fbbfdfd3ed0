---------------------------- MODULE BooksProofs ----------------------------
(***************************************************************************)
(* Proofs about the money in Bot, for every value of the constants: the    *)
(* books of every copy of the State that knows of all orders agree with    *)
(* the balances of the venue (BooksInv), and in every copy the cash of the *)
(* cycle covers the tranches that are still to come (PaceInv).             *)
(*                                                                         *)
(* For the books not to be disturbed by a discarded poll or a crash they   *)
(* have to be kept for mem and disk too, and the cash with which a new     *)
(* cycle starts is the free balance, so what the venue reserves has to be  *)
(* accounted for as well.                                                  *)
(***************************************************************************)
EXTENDS TrackingProofs

\* The books of s against the orders os, the base balance b and the USDT u at
\* the venue, the transfers t not being in its cash.
Books(s, os, b, u, t) ==
    /\ b = s.position_qty + Unseen(s, os)
    /\ u = s.cycle_cash_remaining - Unseen(s, os) + t

\* ... for a copy that has taken transfers of that sum into its cash.
Balanced(s, taken) == Books(s, orders, base, usdt, moved - taken)

\* What is not free is reserved by the one order that is live.
Reserved ==
    /\ \A i \in OrderIds : IsOpen(i) => usdt = free + orders[i].left
    /\ NoneOpen(orders) => usdt = free

\* A sold position is not in the working copy any more until the new cycle is.
WorkBooked ==
    /\ pc = "newcycle" => base = 0
    /\ pc \notin {"down", "newcycle"} => Balanced(st, absorbed["st"])
    /\ Reserved

\* The stored row stands for no more than an empty position before it is saved
\* for the first time.
CopiesBooked ==
    /\ ~Booting /\ "mem" \notin unaware => Balanced(mem, absorbed["mem"])
    /\ "disk" \notin unaware => IF disk = NoState THEN base = 0
                               ELSE Balanced(disk, absorbed["disk"])

BooksInv ==
    /\ pc = "down" => unaware = {}
    /\ pc = "idle" => absorbed["mem"] = absorbed["st"]
    /\ ~dirty => WorkBooked /\ CopiesBooked

\* The venue answers the same about what its orders have filled, and holds the
\* same balances.
SameAnswers ==
    /\ \A i \in OrderIds : orders'[i].filled = orders[i].filled
    /\ UNCHANGED <<base, usdt, moved>>

-----------------------------------------------------------------------------
(* What the reducers do to position, cash and pace                         *)

\* Every cost is booked once, whether or not it completes the step.
LEMMA BuyFillBooks ==
    ASSUME NEW s \in State, NEW cost \in Nat
    PROVE  LET b == apply_buy_fill(s, cost)
           IN  /\ b.position_qty = s.position_qty + cost
               /\ b.cycle_cash_remaining = s.cycle_cash_remaining - cost
               /\ b.tranche_usdt = s.tranche_usdt
               /\ \/ /\ b.open_limit = NoLimit
                     /\ b.tranches_used = s.tranches_used + 1
                     /\ b.step_target_usdt = 0
                  \/ /\ b.open_limit = s.open_limit
                     /\ b.tranches_used = s.tranches_used
                     /\ b.step_target_usdt = s.step_target_usdt
                     /\ Remaining(b) = Remaining(s) - cost
  <1> DEFINE k == BookFill(s, cost)
             b == apply_buy_fill(s, cost)
  <1>1. /\ s.position_qty + cost \in Nat
        /\ s.cycle_cash_remaining - cost \in Int
        /\ s.step_filled_usdt + cost \in Nat
    BY DEF State
  <1>2. k \in State
    BY <1>1 DEF BookFill, State
  <1>3. /\ k.position_qty = s.position_qty + cost
        /\ k.cycle_cash_remaining = s.cycle_cash_remaining - cost
        /\ k.tranche_usdt = s.tranche_usdt
        /\ k.tranches_used = s.tranches_used
        /\ k.open_limit = s.open_limit
        /\ k.step_target_usdt = s.step_target_usdt
        /\ k.step_filled_usdt = s.step_filled_usdt + cost
    BY DEF BookFill, State
  <1>4. Remaining(k) = Remaining(s) - cost
    BY <1>3 DEF Remaining, State
  <1> HIDE DEF k
  <1>5. CASE b = k
    BY <1>3, <1>4, <1>5
  <1>6. CASE b = CompleteStep(k)
    <2>1. /\ b.position_qty = k.position_qty
          /\ b.cycle_cash_remaining = k.cycle_cash_remaining
          /\ b.tranche_usdt = k.tranche_usdt
          /\ b.open_limit = NoLimit
          /\ b.tranches_used = k.tranches_used + 1
          /\ b.step_target_usdt = 0
      BY <1>2, <1>6 DEF CompleteStep, State
    <2> QED
      BY <1>3, <2>1
  <1>7. b = k \/ b = CompleteStep(k)
    BY DEF apply_buy_fill, k
  <1> QED
    BY <1>5, <1>6, <1>7

\* A fold books what the order filled beyond what was seen of it, and then has
\* seen all of it.
LEMMA FoldBooks ==
    ASSUME NEW s, Good(s), s.open_limit # NoLimit, NEW filled \in Nat,
           s.open_limit.filled_quote_seen <= filled
    PROVE  LET f == fold_order_progress(s, s.open_limit.id, filled)
               d == filled - s.open_limit.filled_quote_seen
           IN  /\ f.position_qty = s.position_qty + d
               /\ f.cycle_cash_remaining = s.cycle_cash_remaining - d
               /\ f.tranche_usdt = s.tranche_usdt
               /\ \/ /\ f.open_limit = NoLimit
                     /\ f.tranches_used = s.tranches_used + 1
                     /\ f.step_target_usdt = 0
                  \/ /\ f.open_limit.id = s.open_limit.id
                     /\ f.open_limit.usdt = s.open_limit.usdt
                     /\ f.open_limit.filled_quote_seen = filled
                     /\ f.tranches_used = s.tranches_used
                     /\ f.step_target_usdt = s.step_target_usdt
                     /\ Remaining(f) = Remaining(s) - d
  <1> DEFINE d == filled - s.open_limit.filled_quote_seen
             b == apply_buy_fill(s, d)
             f == fold_order_progress(s, s.open_limit.id, filled)
  <1>1. s \in State /\ s.open_limit.filled_quote_seen \in Nat
    BY DEF Good, Sound, State, OpenLimit
  <1>2. d \in Nat
    BY <1>1
  <1>3. CASE d = 0
    <2>1. f = s /\ s.open_limit.filled_quote_seen = filled
      BY <1>1, <1>3 DEF fold_order_progress
    <2>2. /\ s.position_qty \in Nat /\ s.cycle_cash_remaining \in Int
          /\ Remaining(s) \in Int
      BY <1>1 DEF State, Remaining
    <2> QED
      BY <1>3, <2>1, <2>2
  <1>4. CASE d # 0
    <2>1. f = update_limit_seen(b, filled)
      BY <1>2, <1>4 DEF fold_order_progress
    <2>2. /\ b.position_qty = s.position_qty + d
          /\ b.cycle_cash_remaining = s.cycle_cash_remaining - d
          /\ b.tranche_usdt = s.tranche_usdt
          /\ \/ /\ b.open_limit = NoLimit
                /\ b.tranches_used = s.tranches_used + 1
                /\ b.step_target_usdt = 0
             \/ /\ b.open_limit = s.open_limit
                /\ b.tranches_used = s.tranches_used
                /\ b.step_target_usdt = s.step_target_usdt
                /\ Remaining(b) = Remaining(s) - d
      BY <1>1, <1>2, BuyFillBooks
    <2>3. b \in State
      <3>1. /\ StepOK(s) /\ FundedOK(s) /\ TimerOK(s) /\ ExhaustedOK(s)
            /\ s.step_target_usdt > 0
        BY DEF Good, Sound, StateOK, LimitOK
      <3> QED
        BY <1>1, <1>2, <1>4, <3>1, BuyFillSound
    <2> HIDE DEF b, d, f
    <2>4. CASE b.open_limit = NoLimit
      <3>1. f = b
        BY <2>1, <2>4 DEF update_limit_seen
      <3>2. b.open_limit # s.open_limit
        BY <2>4
      <3> QED
        BY <2>2, <2>4, <3>1, <3>2 DEF f, d
    <2>5. CASE b.open_limit # NoLimit
      <3>1. f = [b EXCEPT !.open_limit.filled_quote_seen = filled]
        BY <2>1, <2>5 DEF update_limit_seen
      <3>2. /\ f.position_qty = b.position_qty
            /\ f.cycle_cash_remaining = b.cycle_cash_remaining
            /\ f.tranche_usdt = b.tranche_usdt
            /\ f.tranches_used = b.tranches_used
            /\ f.step_target_usdt = b.step_target_usdt
            /\ f.step_filled_usdt = b.step_filled_usdt
            /\ f.open_limit.id = b.open_limit.id
            /\ f.open_limit.usdt = b.open_limit.usdt
            /\ f.open_limit.filled_quote_seen = filled
        BY <2>3, <3>1 DEF State, OpenLimit
      <3>3. Remaining(f) = Remaining(b)
        BY <3>2 DEF Remaining
      <3> QED
        BY <2>2, <2>5, <3>2, <3>3 DEF f, d
    <2> QED
      BY <2>4, <2>5
  <1> QED
    BY <1>3, <1>4

\* Forgetting the order touches neither the amounts nor the step.
LEMMA CanceledBooks ==
    ASSUME NEW s \in State
    PROVE  LET c == on_limit_canceled(s)
           IN  /\ c.open_limit = NoLimit
               /\ c.position_qty = s.position_qty
               /\ c.cycle_cash_remaining = s.cycle_cash_remaining
               /\ c.tranche_usdt = s.tranche_usdt
               /\ c.tranches_used = s.tranches_used
               /\ c.step_target_usdt = s.step_target_usdt
               /\ Remaining(c) = Remaining(s)
  BY DEF on_limit_canceled, State, Remaining
-----------------------------------------------------------------------------
(* The pace: the cash of a cycle covers the tranches to come                *)

\* With the orders os at the venue, the one that s remembers has filled at
\* least what s has seen of it, and will never cost more than it asked for and
\* one overshoot.
Ordered(s, os) ==
    s.open_limit # NoLimit =>
      LET order == os[s.open_limit.id]
      IN  /\ s.open_limit.filled_quote_seen <= order.filled
          /\ order.left + order.filled <= s.open_limit.usdt + Overshoot

Paced(s, os) == Ordered(s, os) /\ Covered(s)

PaceInv == Paced(st, orders) /\ Paced(mem, orders) /\ Paced(disk, orders)

HInv == TInv /\ HistoryTypeOK

NInv == HInv /\ PaceInv /\ BooksInv

\* Orders that a copy remembers only fill, or end.
Onward ==
    \A i \in OrderIds \ FreshIds :
        /\ orders[i].filled <= orders'[i].filled
        /\ orders'[i].left + orders'[i].filled <= orders[i].left + orders[i].filled

LEMMA OneMore ==
    ASSUME NEW a \in Int, NEW k \in Int
    PROVE  a * k \in Int /\ a * (k + 1) = a * k + a /\ a * (k - 1) = a * k - a
  OBVIOUS

\* N tranches of an amount are no more than the amount.
LEMMA TranchesFit ==
    ASSUME NEW cash \in Int
    PROVE  compute_tranche(cash) * N <= cash
  <1>1. N \in Nat /\ N > 0
    BY ParamsAssumption
  <1>2. (cash \div N) * N <= cash
    BY <1>1, SMTT(30)
  <1> QED
    BY <1>2 DEF compute_tranche

\* A split of the cash, with or without the first step begun.
LEMMA SplitCovered ==
    ASSUME NEW s, NEW cash \in Int, s.cycle_cash_remaining = cash,
           s.tranche_usdt = compute_tranche(cash), s.tranches_used = 0,
           s.step_target_usdt \in Int, s.step_filled_usdt = 0,
           s.step_target_usdt > 0 => s.step_target_usdt <= s.tranche_usdt
    PROVE  Covered(s)
  <1> DEFINE t == s.tranche_usdt
  <1>1. t \in Int /\ t * N <= cash /\ N \in Int
    BY TrancheBounds, TranchesFit, ParamsAssumption
  <1>2. t * (N - 1) = t * N - t /\ t * N \in Int
    BY <1>1, OneMore
  <1>3. Overshoot * 0 = 0
    BY OvershootBound
  <1> HIDE DEF t
  <1>4. CASE s.step_target_usdt > 0
    <2>1. TranchesLeft(s) = N - 1
      BY <1>1, <1>4 DEF TranchesLeft
    <2>2. Remaining(s) = s.step_target_usdt
      BY DEF Remaining
    <2> QED
      BY <1>1, <1>2, <1>3, <1>4, <2>1, <2>2 DEF Covered, t
  <1>5. CASE ~(s.step_target_usdt > 0)
    <2>1. TranchesLeft(s) = N
      BY <1>1, <1>5 DEF TranchesLeft
    <2> QED
      BY <1>1, <1>2, <1>3, <1>5, <2>1 DEF Covered, t
  <1> QED
    BY <1>4, <1>5

LEMMA StartCycleCovered ==
    ASSUME NEW cash \in Nat, NEW c \in Nat
    PROVE  Covered(start_cycle(cash, c)) /\ start_cycle(cash, c).open_limit = NoLimit
  <1> DEFINE s == start_cycle(cash, c)
  <1>1. /\ s.cycle_cash_remaining = cash /\ s.tranches_used = 0
        /\ s.tranche_usdt = compute_tranche(cash)
        /\ s.step_target_usdt = s.tranche_usdt /\ s.step_filled_usdt = 0
        /\ s.open_limit = NoLimit
    BY DEF start_cycle
  <1>2. compute_tranche(cash) \in Int
    BY TrancheBounds
  <1> HIDE DEF s
  <1> QED
    BY <1>1, <1>2, SplitCovered DEF s

\* What Covered looks at, and what Ordered looks at.
LEMMA SamePace ==
    ASSUME NEW s, NEW r,
           r.cycle_cash_remaining = s.cycle_cash_remaining,
           r.tranches_used = s.tranches_used, r.tranche_usdt = s.tranche_usdt,
           r.step_target_usdt = s.step_target_usdt, Remaining(r) = Remaining(s),
           Covered(s)
    PROVE  Covered(r)
  BY DEF Covered, TranchesLeft

\* A fill that does not complete the step takes as much off the rest of the
\* step as off the cash; one that does must not cost more than the rest and
\* one overshoot.
LEMMA FillCovered ==
    ASSUME NEW s \in State, NEW b \in State, NEW cost \in Nat,
           Covered(s), s.step_target_usdt > 0,
           b.cycle_cash_remaining = s.cycle_cash_remaining - cost,
           b.tranche_usdt = s.tranche_usdt,
           \/ /\ b.tranches_used = s.tranches_used + 1
              /\ b.step_target_usdt = 0
           \/ /\ b.tranches_used = s.tranches_used
              /\ b.step_target_usdt = s.step_target_usdt
              /\ Remaining(b) = Remaining(s) - cost,
           cost <= Remaining(s) + Overshoot
    PROVE  Covered(b)
  <1> DEFINE u == s.tranches_used
             left == s.tranche_usdt * TranchesLeft(s)
  <1>1. /\ u \in Nat /\ s.cycle_cash_remaining \in Int /\ s.tranche_usdt \in Int
        /\ Remaining(s) \in Int /\ Overshoot \in Nat /\ N \in Nat
    BY OvershootBound, ParamsAssumption DEF State, Remaining
  <1>2. TranchesLeft(s) = N - u - 1 /\ left \in Int
    BY <1>1 DEF TranchesLeft
  <1>3. s.cycle_cash_remaining + Overshoot * u >= left + Remaining(s)
    BY DEF Covered
  <1>4. Overshoot * u \in Int /\ Overshoot * (u + 1) = Overshoot * u + Overshoot
    BY <1>1, OneMore
  <1>5. CASE b.tranches_used = u + 1 /\ b.step_target_usdt = 0
    <2>1. TranchesLeft(b) = TranchesLeft(s)
      BY <1>1, <1>2, <1>5 DEF TranchesLeft
    <2> HIDE DEF u, left
    <2>2. s.cycle_cash_remaining - cost + Overshoot * (u + 1) >= left
      BY <1>1, <1>2, <1>3, <1>4
    <2> QED
      BY <1>2, <1>5, <2>1, <2>2 DEF Covered, left
  <1>6. CASE /\ b.tranches_used = u /\ b.step_target_usdt = s.step_target_usdt
             /\ Remaining(b) = Remaining(s) - cost
    <2>1. TranchesLeft(b) = TranchesLeft(s)
      BY <1>6 DEF TranchesLeft
    <2> HIDE DEF u, left
    <2>2. s.cycle_cash_remaining - cost + Overshoot * u >= left + (Remaining(s) - cost)
      BY <1>1, <1>2, <1>3, <1>4
    <2> QED
      BY <1>6, <2>1, <2>2 DEF Covered, left, u
  <1> QED
    BY <1>5, <1>6

\* A limit order begins a step of at most one tranche.
LEMMA PlacedCovered ==
    ASSUME NEW s, Sound(s), ChaseDue(s), Covered(s), NEW i \in Nat
    PROVE  LET ol == [id |-> i, usdt |-> next_usdt(s), filled_quote_seen |-> 0]
               p == on_limit_placed(s, ol)
           IN  Covered(p) /\ p.open_limit = ol
  <1> DEFINE w == next_usdt(s)
             ol == [id |-> i, usdt |-> w, filled_quote_seen |-> 0]
             p == on_limit_placed(s, ol)
             t == s.tranche_usdt
             u == s.tranches_used
  <1>1. /\ s \in State /\ s.step_target_usdt = 0
        /\ w \in Nat /\ w >= MinNotional
    BY PlacedSound DEF Sound, ChaseDue, can_buy
  <1>2. /\ t \in Int /\ u \in Nat /\ s.cycle_cash_remaining \in Int
        /\ N \in Nat /\ MinNotional \in Nat \ {0} /\ Overshoot \in Nat
    BY <1>1, OvershootBound, ParamsAssumption DEF State
  <1>3. w <= t
    BY <1>2 DEF next_usdt, Smaller
  <1> HIDE DEF w
  <1>4. /\ p.open_limit = ol
        /\ p.cycle_cash_remaining = s.cycle_cash_remaining
        /\ p.tranches_used = u /\ p.tranche_usdt = t
        /\ p.step_target_usdt = w /\ p.step_filled_usdt = 0
    BY <1>1 DEF on_limit_placed, State
  <1> HIDE DEF p
  <1>5. TranchesLeft(s) = N - u /\ TranchesLeft(p) = (N - u) - 1
    BY <1>1, <1>2, <1>4 DEF TranchesLeft
  <1>6. t * ((N - u) - 1) = t * (N - u) - t /\ t * (N - u) \in Int
    BY <1>2, OneMore
  <1>7. Overshoot * u \in Int
    BY <1>2, OneMore
  <1>8. s.cycle_cash_remaining + Overshoot * u >= t * (N - u)
    BY <1>1, <1>2, <1>5, <1>6 DEF Covered
  <1>9. Remaining(p) = w
    BY <1>1, <1>4 DEF Remaining
  <1> HIDE DEF t, u
  <1>10. s.cycle_cash_remaining + Overshoot * u >= t * ((N - u) - 1) + w
    BY <1>1, <1>2, <1>3, <1>6, <1>7, <1>8
  <1>11. Covered(p)
    BY <1>1, <1>2, <1>4, <1>5, <1>9, <1>10 DEF Covered, t, u
  <1> QED
    BY <1>4, <1>11 DEF p, w
-----------------------------------------------------------------------------
(* What the venue and its calls do to the orders                           *)

LEMMA RemembersOld ==
    ASSUME NEW s \in {st, mem, disk}
    PROVE  s.open_limit.id \notin FreshIds
  BY DEF FreshIds

LEMMA OrderedOn ==
    ASSUME ExchangeTypeOK, ExchangeTypeOK', Onward,
           NEW s \in {st, mem, disk}, Good(s), Ordered(s, orders)
    PROVE  Ordered(s, orders')
  <1> SUFFICES ASSUME s.open_limit # NoLimit
               PROVE  Ordered(s, orders')
    BY DEF Ordered
  <1> DEFINE j == s.open_limit.id
  <1>1. j \in OrderIds \ FreshIds
    BY RemembersOld DEF Good
  <1>2. orders[j] \in OrderResult /\ orders'[j] \in OrderResult
    BY <1>1 DEF ExchangeTypeOK
  <1>3. /\ s.open_limit.filled_quote_seen \in Nat /\ s.open_limit.usdt \in Nat
        /\ Overshoot \in Nat
    BY OvershootBound DEF Good, Sound, State, OpenLimit
  <1> QED
    BY <1>1, <1>2, <1>3 DEF Onward, Ordered, OrderResult

\* Taking an order off the book changes nothing of what it has filled.
LEMMA ReleaseAnswers ==
    ASSUME ExchangeTypeOK, NEW i \in OrderIds, Release(i)
    PROVE  \A j \in OrderIds : /\ orders'[j].filled = orders[j].filled
                              /\ orders'[j].left <= orders[j].left
  <1>1. orders' = [orders EXCEPT ![i].status = "canceled", ![i].left = 0]
    BY DEF Release
  <1>2. orders \in [OrderIds -> OrderResult]
    BY DEF ExchangeTypeOK
  <1>3. orders'[i].filled = orders[i].filled /\ orders'[i].left = 0
    BY <1>1, <1>2 DEF OrderResult
  <1>4. \A j \in OrderIds \ {i} : orders'[j] = orders[j]
    BY <1>1, <1>2
  <1>5. \A j \in OrderIds : orders[j].left \in Nat
    BY <1>2 DEF OrderResult
  <1> QED
    BY <1>3, <1>4, <1>5

LEMMA ReleaseOnward ==
    ASSUME ExchangeTypeOK, NEW i \in OrderIds, Release(i)
    PROVE  Onward
  <1>1. \A j \in OrderIds : /\ orders[j].left \in Nat /\ orders[j].filled \in Nat
                            /\ orders'[j].left \in Nat
    BY ReleaseType DEF ExchangeTypeOK, OrderResult
  <1> QED
    BY <1>1, ReleaseAnswers DEF Onward

LEMMA StillOnward ==
    ASSUME ExchangeTypeOK, UNCHANGED orders
    PROVE  Onward
  <1>1. \A j \in OrderIds : orders[j].left \in Nat /\ orders[j].filled \in Nat
    BY DEF ExchangeTypeOK, OrderResult
  <1> QED
    BY <1>1 DEF Onward

LEMMA CancelOnward ==
    ASSUME ExchangeTypeOK, NEW i \in OrderIds, cancel_order(i)
    PROVE  Onward /\ SameAnswers
  <1>1. CASE IsOpen(i)
    BY <1>1, ReleaseOnward, ReleaseAnswers DEF cancel_order, SameAnswers
  <1>2. CASE ~IsOpen(i)
    BY <1>2, StillOnward DEF cancel_order, SameAnswers
  <1> QED
    BY <1>1, <1>2

LEMMA PlaceOnward ==
    ASSUME ExchangeTypeOK, NEW i \in FreshIds, NEW amount, NEW fee,
           place_limit_buy(i, amount, fee)
    PROVE  Onward
  <1>1. \A j \in OrderIds : orders[j].left \in Nat /\ orders[j].filled \in Nat
    BY DEF ExchangeTypeOK, OrderResult
  <1>2. \A j \in OrderIds \ FreshIds : orders'[j] = orders[j]
    BY DEF place_limit_buy, ExchangeTypeOK
  <1> QED
    BY <1>1, <1>2 DEF Onward

LEMMA FillAnswers ==
    ASSUME ExchangeTypeOK, NEW i \in OrderIds,
           NEW d \in FillSizes \cup {orders[i].left}, LimitFill(i, d)
    PROVE  /\ d \in Nat /\ IsOpen(i)
           /\ orders'[i].filled = orders[i].filled + d
           /\ orders'[i].left = orders[i].left - d
           /\ \A j \in OrderIds \ {i} : orders'[j] = orders[j]
           /\ base' = base + d /\ usdt' = usdt - d /\ free' = free /\ moved' = moved
  <1>1. orders[i] \in OrderResult /\ orders \in [OrderIds -> OrderResult]
    BY DEF ExchangeTypeOK
  <1>2. d \in Nat
    BY <1>1, ExchangeAssumption DEF OrderResult
  <1>3. orders' = [orders EXCEPT
                     ![i] = [status |-> IF d = orders[i].left THEN "closed" ELSE "open",
                             left |-> orders[i].left - d,
                             filled |-> orders[i].filled + d]]
    BY DEF LimitFill
  <1> QED
    BY <1>1, <1>2, <1>3 DEF LimitFill

LEMMA VenueOnward ==
    ASSUME ExchangeTypeOK, ExchangeStep
    PROVE  Onward
  <1>1. ASSUME NEW i \in OrderIds, NEW d \in FillSizes \cup {orders[i].left},
               LimitFill(i, d)
        PROVE  Onward
    <2>1. \A j \in OrderIds : orders[j].left \in Nat /\ orders[j].filled \in Nat
      BY DEF ExchangeTypeOK, OrderResult
    <2> QED
      BY <1>1, <2>1, FillAnswers DEF Onward
  <1>2. ASSUME NEW i \in OrderIds, ExpireOrder(i) PROVE Onward
    BY <1>2, ReleaseOnward DEF ExpireOrder
  <1>3. ASSUME NEW f \in FlowSizes, Deposit(f) \/ Withdraw(f) PROVE Onward
    BY <1>3, StillOnward DEF Deposit, Withdraw
  <1> QED
    BY <1>1, <1>2, <1>3 DEF ExchangeStep

\* Folding all that an order has filled, and forgetting the order or not, keeps
\* pace and books what was unseen.
LEMMA FoldPaced ==
    ASSUME ExchangeTypeOK, NEW s, Good(s), Paced(s, orders), s.open_limit # NoLimit,
           NEW r,
           LET f == fold_order_progress(s, s.open_limit.id,
                                        orders[s.open_limit.id].filled)
           IN  r = f \/ r = on_limit_canceled(f)
    PROVE  /\ Paced(r, orders)
           /\ Unseen(s, orders) \in Nat /\ Unseen(r, orders) = 0
           /\ r.position_qty = s.position_qty + Unseen(s, orders)
           /\ r.cycle_cash_remaining = s.cycle_cash_remaining - Unseen(s, orders)
  <1> DEFINE j == s.open_limit.id
             filled == orders[j].filled
             d == filled - s.open_limit.filled_quote_seen
             f == fold_order_progress(s, j, filled)
             c == on_limit_canceled(f)
  <1>1. s \in State /\ j \in OrderIds
    BY DEF Good, Sound
  <1>2. filled \in Nat /\ orders[j].left \in Nat
    BY <1>1 DEF ExchangeTypeOK, OrderResult
  <1>3. /\ s.open_limit.filled_quote_seen \in Nat /\ s.open_limit.usdt \in Nat
        /\ s.open_limit.filled_quote_seen <= filled
        /\ orders[j].left + filled <= s.open_limit.usdt + Overshoot
        /\ Overshoot \in Nat
        /\ Covered(s)
    BY <1>1, OvershootBound DEF State, OpenLimit, Paced, Ordered
  <1>4. d \in Nat /\ Unseen(s, orders) = d
    BY <1>2, <1>3 DEF Unseen
  <1>5. /\ d <= Remaining(s) + Overshoot /\ Remaining(s) \in Int
        /\ s.step_target_usdt > 0
    <2>1. /\ s.step_target_usdt = s.open_limit.usdt /\ s.step_target_usdt > 0
          /\ s.step_filled_usdt = s.open_limit.filled_quote_seen
      BY DEF Good, Sound, StateOK, LimitOK
    <2> QED
      BY <1>2, <1>3, <2>1 DEF Remaining
  <1>6. /\ f.position_qty = s.position_qty + d
        /\ f.cycle_cash_remaining = s.cycle_cash_remaining - d
        /\ f.tranche_usdt = s.tranche_usdt
        /\ \/ /\ f.open_limit = NoLimit
              /\ f.tranches_used = s.tranches_used + 1
              /\ f.step_target_usdt = 0
           \/ /\ f.open_limit.id = s.open_limit.id
              /\ f.open_limit.usdt = s.open_limit.usdt
              /\ f.open_limit.filled_quote_seen = filled
              /\ f.tranches_used = s.tranches_used
              /\ f.step_target_usdt = s.step_target_usdt
              /\ Remaining(f) = Remaining(s) - d
    BY <1>2, <1>3, FoldBooks
  <1>7. f \in State
    BY <1>2, FoldGood DEF Good, Sound
  <1>8. r = c \/ r = f
    OBVIOUS
  <1> HIDE DEF f, d
  <1>9. Covered(f)
    BY <1>1, <1>3, <1>4, <1>5, <1>6, <1>7, FillCovered
  <1>10. Ordered(f, orders) /\ Unseen(f, orders) = 0
    BY <1>2, <1>3, <1>6 DEF Ordered, Unseen
  <1>11. /\ c.open_limit = NoLimit
         /\ c.position_qty = f.position_qty
         /\ c.cycle_cash_remaining = f.cycle_cash_remaining
         /\ Covered(c)
    BY <1>7, <1>9, CanceledBooks, SamePace
  <1>12. Ordered(c, orders) /\ Unseen(c, orders) = 0
    BY <1>11 DEF Ordered, Unseen
  <1> HIDE DEF c
  <1> QED
    BY <1>4, <1>6, <1>8, <1>9, <1>10, <1>11, <1>12 DEF Paced

LEMMA RefreshPaced ==
    ASSUME ExchangeTypeOK, NEW s, Good(s), Paced(s, orders)
    PROVE  LET r == refresh_open_limit(s)
           IN  /\ Paced(r, orders)
               /\ Unseen(r, orders) = 0
               /\ r.position_qty = s.position_qty + Unseen(s, orders)
               /\ r.cycle_cash_remaining = s.cycle_cash_remaining - Unseen(s, orders)
  <1>1. CASE s.open_limit = NoLimit
    <2>1. refresh_open_limit(s) = s /\ Unseen(s, orders) = 0
      BY <1>1 DEF refresh_open_limit, Unseen
    <2>2. s.position_qty \in Nat /\ s.cycle_cash_remaining \in Int
      BY DEF Good, Sound, State
    <2> QED
      BY <2>1, <2>2
  <1>2. CASE s.open_limit # NoLimit
    <2>1. LET f == fold_order_progress(s, s.open_limit.id,
                                       orders[s.open_limit.id].filled)
          IN  refresh_open_limit(s) \in {f, on_limit_canceled(f)}
      BY <1>2 DEF refresh_open_limit
    <2> QED
      BY <1>2, <2>1, FoldPaced
  <1> QED
    BY <1>1, <1>2

\* Both leave the books agreeing if they agreed before.
LEMMA FoldedBooks ==
    ASSUME ExchangeTypeOK, NEW s, Good(s), NEW r, NEW taken, Balanced(s, taken),
           moved - taken \in Int,
           Unseen(s, orders) \in Int, Unseen(r, orders) = 0,
           r.position_qty = s.position_qty + Unseen(s, orders),
           r.cycle_cash_remaining = s.cycle_cash_remaining - Unseen(s, orders)
    PROVE  Balanced(r, taken)
  <1>1. s.position_qty \in Nat /\ s.cycle_cash_remaining \in Int
    BY DEF Good, Sound, State
  <1> QED
    BY <1>1 DEF Balanced, Books

LEMMA UnseenInt ==
    ASSUME ExchangeTypeOK, NEW s, Good(s)
    PROVE  Unseen(s, orders) \in Int
  <1>1. CASE s.open_limit = NoLimit
    BY <1>1 DEF Unseen
  <1>2. CASE s.open_limit # NoLimit
    <2>1. orders[s.open_limit.id].filled \in Nat /\ s.open_limit.filled_quote_seen \in Nat
      BY <1>2 DEF Good, Sound, State, OpenLimit, ExchangeTypeOK, OrderResult
    <2> QED
      BY <1>2, <2>1 DEF Unseen
  <1> QED
    BY <1>1, <1>2

-----------------------------------------------------------------------------
(* What the venue and its calls do to the balances                         *)

\* No order other than i is live.
OnlyOpen(i) == \A j \in OrderIds : IsOpen(j) => j = i

LEMMA TracksOnly ==
    ASSUME NEW s, Tracks(s, orders)
    PROVE  OnlyOpen(s.open_limit.id)
  BY DEF Tracks, OnlyOpen, IsOpen

LEMMA SameReserved ==
    ASSUME Reserved, UNCHANGED <<orders, usdt, free>>
    PROVE  Reserved'
  BY DEF Reserved, IsOpen, NoneOpen

LEMMA ReleaseReserved ==
    ASSUME ExchangeTypeOK, Reserved, NEW i \in OrderIds, IsOpen(i), OnlyOpen(i),
           Release(i), UNCHANGED usdt
    PROVE  Reserved'
  <1>1. NoneOpen(orders')
    BY ReleaseFewer DEF FewerOpen, NoneOpen, OnlyOpen, IsOpen
  <1>2. usdt' = free'
    BY DEF Reserved, Release
  <1> QED
    BY <1>1, <1>2 DEF Reserved, NoneOpen, IsOpen

LEMMA CancelReserved ==
    ASSUME ExchangeTypeOK, Reserved, NEW i \in OrderIds, OnlyOpen(i), cancel_order(i)
    PROVE  Reserved'
  <1>1. CASE IsOpen(i)
    BY <1>1, ReleaseReserved DEF cancel_order
  <1>2. CASE ~IsOpen(i)
    BY <1>2, SameReserved DEF cancel_order
  <1> QED
    BY <1>1, <1>2

LEMMA PlaceReserved ==
    ASSUME ExchangeTypeOK, Reserved, NoneOpen(orders), NEW i \in OrderIds,
           NEW amount \in Nat, NEW fee \in Nat, place_limit_buy(i, amount, fee)
    PROVE  Reserved'
  <1>1. /\ orders' = [orders EXCEPT
                        ![i] = [status |-> "open", left |-> amount + fee, filled |-> 0]]
        /\ free' = free - (amount + fee) /\ usdt' = usdt
    BY DEF place_limit_buy
  <1>2. usdt = free /\ free \in Nat /\ usdt \in Int
    BY DEF Reserved, ExchangeTypeOK
  <1>3. orders'[i].left = amount + fee /\ orders'[i].status = "open"
    BY <1>1 DEF ExchangeTypeOK
  <1>4. \A j \in OrderIds \ {i} : orders'[j].status # "open"
    BY <1>1 DEF ExchangeTypeOK, NoneOpen
  <1> QED
    BY <1>1, <1>2, <1>3, <1>4 DEF Reserved, IsOpen, NoneOpen

LEMMA FillReserved ==
    ASSUME ExchangeTypeOK, Reserved, NEW i \in OrderIds, OnlyOpen(i),
           NEW d \in FillSizes \cup {orders[i].left}, LimitFill(i, d)
    PROVE  Reserved'
  <1>1. /\ d \in Nat /\ IsOpen(i) /\ orders'[i].left = orders[i].left - d
        /\ \A j \in OrderIds \ {i} : orders'[j] = orders[j]
        /\ usdt' = usdt - d /\ free' = free
    BY FillAnswers
  <1>2. usdt = free + orders[i].left /\ free \in Nat /\ orders[i].left \in Nat
    BY <1>1 DEF Reserved, ExchangeTypeOK, OrderResult
  <1>3. \A j \in OrderIds \ {i} : orders'[j].status # "open"
    BY <1>1 DEF OnlyOpen, IsOpen
  <1>4. orders'[i].status # "open" => d = orders[i].left
    BY DEF LimitFill, ExchangeTypeOK
  <1>5. usdt' = free' + orders'[i].left
    BY <1>1, <1>2
  <1> QED
    BY <1>1, <1>2, <1>3, <1>4, <1>5 DEF Reserved, IsOpen, NoneOpen

\* What is spent, earned or transferred is free money.
LEMMA FreeReserved ==
    ASSUME ExchangeTypeOK, Reserved, UNCHANGED orders,
           NEW d \in Int, usdt' = usdt + d, free' = free + d
    PROVE  Reserved'
  <1>1. \A i \in OrderIds : orders[i].left \in Nat
    BY DEF ExchangeTypeOK, OrderResult
  <1> QED
    BY <1>1 DEF Reserved, IsOpen, NoneOpen, ExchangeTypeOK
-----------------------------------------------------------------------------
(* The steps of Bot keep pace and books: the venue and the clock           *)

LEMMA NInvFacts ==
    ASSUME NInv
    PROVE  /\ TInv /\ IInv /\ HistoryTypeOK /\ PaceInv /\ BooksInv
           /\ ExchangeTypeOK /\ PlanOK /\ pc \in Pcs /\ dirty \in BOOLEAN
           /\ Good(st) /\ Good(mem) /\ Good(disk)
           /\ ~dirty => Tracks(Known, orders)
           /\ moved \in Int /\ absorbed["st"] \in Int
           /\ absorbed["mem"] \in Int /\ absorbed["disk"] \in Int
  BY DEF NInv, HInv, TInv, IInv, ControlTypeOK, Tracked, HistoryTypeOK, Copies,
         ExchangeTypeOK

\* While no order that a copy remembers goes back, every copy left alone keeps
\* pace.
LEMMA PacedOn ==
    ASSUME NInv, ExchangeTypeOK', Onward, NEW s \in {st, mem, disk}
    PROVE  Paced(s, orders')
  <1>1. Good(s) /\ Ordered(s, orders) /\ Covered(s)
    BY DEF NInv, HInv, TInv, IInv, PaceInv, Paced
  <1> QED
    BY <1>1, NInvFacts, OrderedOn DEF Paced

\* Answers and balances that stay the same leave the books as they are.
LEMMA SameBooks ==
    ASSUME SameAnswers, NEW s, Good(s), NEW taken, Balanced(s, taken)
    PROVE  Books(s, orders', base', usdt', moved' - taken)

  <1>1. Unseen(s, orders') = Unseen(s, orders)
    BY DEF SameAnswers, Unseen, Good
  <1> QED
    BY <1>1 DEF Balanced, Books, SameAnswers

\* Only a save or a failed poll touches what the other copies have taken.
LEMMA StoredKept ==
    ASSUME HistoryTypeOK, UNCHANGED absorbed \/ TakeCash \/ Carry("disk", {"st"})
    PROVE  absorbed'["mem"] = absorbed["mem"] /\ absorbed'["disk"] = absorbed["disk"]
  BY DEF HistoryTypeOK, TakeCash, Carry, Copies

\* What the steps of a poll or a boot have to show.
LEMMA WorkNInv ==
    ASSUME NInv, HInv', UNCHANGED <<mem, disk>>, pc' \notin {"idle", "down"}, Onward,
           UNCHANGED absorbed \/ TakeCash \/ Carry("disk", {"st"}),
           dirty => dirty',
           unaware' = Copies \/ (unaware' = unaware /\ SameAnswers),
           Paced(st', orders'),
           ~dirty' => WorkBooked'
    PROVE  NInv'
  <1>1. ExchangeTypeOK'
    BY DEF HInv, TInv, IInv
  <1>2. Paced(mem', orders') /\ Paced(disk', orders')
    BY <1>1, PacedOn
  <1>3. PaceInv'
    BY <1>2 DEF PaceInv
  <1>4. ~dirty' => CopiesBooked'
    <2> SUFFICES ASSUME ~dirty' PROVE CopiesBooked'
      OBVIOUS
    <2>1. CopiesBooked
      BY DEF NInv, BooksInv
    <2>2. CASE unaware' = Copies
      BY <2>2 DEF CopiesBooked, Copies
    <2>3. CASE unaware' = unaware /\ SameAnswers
      <3>1. /\ Good(mem) /\ Good(disk)
            /\ absorbed'["mem"] = absorbed["mem"] /\ absorbed'["disk"] = absorbed["disk"]
        BY NInvFacts, StoredKept
      <3>2. Balanced(mem, absorbed["mem"]) => Balanced(mem, absorbed["mem"])'
        BY <2>3, <3>1, SameBooks DEF Balanced
      <3>3. Balanced(disk, absorbed["disk"]) => Balanced(disk, absorbed["disk"])'
        BY <2>3, <3>1, SameBooks DEF Balanced
      <3> QED
        BY <2>1, <2>3, <3>2, <3>3 DEF CopiesBooked, SameAnswers, Booting
    <2> QED
      BY <2>2, <2>3
  <1> QED
    BY <1>3, <1>4 DEF NInv, BooksInv

\* In particular those that leave the venue alone, and its answers booked.
LEMMA StillNInv ==
    ASSUME NInv, HInv', UNCHANGED <<mem, disk, exchangeVars>>,
           pc' \notin {"idle", "down", "newcycle"},
           UNCHANGED absorbed \/ TakeCash \/ Carry("disk", {"st"}),
           dirty => dirty',
           unaware' \in {unaware, Copies},
           Paced(st', orders),
           ~dirty' => Books(st', orders, base, usdt, moved - absorbed'["st"])
    PROVE  NInv'
  <1>1. UNCHANGED <<orders, usdt, free, base, moved>>
    BY DEF exchangeVars
  <1>2. Onward
    BY <1>1, StillOnward, NInvFacts
  <1>3. SameAnswers
    BY <1>1 DEF SameAnswers
  <1>4. ~dirty' => WorkBooked'
    <2> SUFFICES ASSUME ~dirty' PROVE WorkBooked'
      OBVIOUS
    <2>1. Reserved'
      BY <1>1, SameReserved DEF NInv, BooksInv, WorkBooked
    <2>2. Balanced(st, absorbed["st"])'
      BY <1>1 DEF Balanced
    <2> QED
      BY <2>1, <2>2 DEF WorkBooked
  <1> QED
    BY <1>1, <1>2, <1>3, <1>4, WorkNInv

\* A fill of the order that s tracks leaves its books balanced.
LEMMA FillBalanced ==
    ASSUME ExchangeTypeOK, NEW i \in OrderIds,
           NEW d \in FillSizes \cup {orders[i].left}, LimitFill(i, d),
           NEW s, Good(s), Tracks(s, orders),
           NEW taken \in Int, Balanced(s, taken)
    PROVE  Books(s, orders', base', usdt', moved' - taken)
  <1>1. /\ d \in Nat /\ IsOpen(i) /\ orders'[i].filled = orders[i].filled + d
        /\ base' = base + d /\ usdt' = usdt - d /\ moved' = moved
    BY FillAnswers
  <1>2. s.open_limit.id = i /\ s.open_limit # NoLimit
    <2>1. s.open_limit.id = i
      BY <1>1 DEF Tracks, IsOpen
    <2> QED
      BY <2>1, ExchangeAssumption DEF NoLimit
  <1>3. orders[i].filled \in Nat /\ s.open_limit.filled_quote_seen \in Nat
    BY DEF Good, Sound, State, OpenLimit, ExchangeTypeOK, OrderResult
  <1>4. Unseen(s, orders') = Unseen(s, orders) + d /\ Unseen(s, orders) \in Int
    BY <1>1, <1>2, <1>3 DEF Unseen
  <1>5. s.position_qty \in Nat /\ s.cycle_cash_remaining \in Int
    BY DEF Good, Sound, State
  <1> QED
    BY <1>1, <1>4, <1>5 DEF Balanced, Books, ExchangeTypeOK

\* So do an expiry, and a transfer, that is not in the cash of any copy yet.
LEMMA VenueBalanced ==
    ASSUME ExchangeTypeOK, ExchangeStep, NEW s, Good(s), Tracks(s, orders),
           NEW taken \in Int, Balanced(s, taken)
    PROVE  Books(s, orders', base', usdt', moved' - taken)
  <1>1. ASSUME NEW i \in OrderIds, NEW d \in FillSizes \cup {orders[i].left},
               LimitFill(i, d)
        PROVE  Books(s, orders', base', usdt', moved' - taken)
    BY <1>1, FillBalanced
  <1>2. ASSUME NEW i \in OrderIds, ExpireOrder(i)
        PROVE  Books(s, orders', base', usdt', moved' - taken)
    <2>1. SameAnswers
      BY <1>2, ReleaseAnswers DEF ExpireOrder, SameAnswers
    <2> QED
      BY <2>1, SameBooks
  <1>3. ASSUME NEW f \in FlowSizes, Deposit(f) \/ Withdraw(f)
        PROVE  Books(s, orders', base', usdt', moved' - taken)
    <2>1. f \in Int /\ usdt \in Int /\ moved \in Int
      BY ExchangeAssumption DEF ExchangeTypeOK
    <2>2. \E d \in {f, -f} : /\ usdt' = usdt + d /\ moved' = moved + d
                            /\ base' = base /\ orders' = orders
      BY <1>3, <2>1 DEF Deposit, Withdraw
    <2>3. s.cycle_cash_remaining \in Int /\ Unseen(s, orders) \in Int
      BY UnseenInt DEF Good, Sound, State
    <2> QED
      BY <2>1, <2>2, <2>3 DEF Balanced, Books
  <1> QED
    BY <1>1, <1>2, <1>3 DEF ExchangeStep

\* While nothing is open the venue leaves the base balance alone.
LEMMA IdleVenue ==
    ASSUME ExchangeTypeOK, ExchangeStep, NoneOpen(orders)
    PROVE  base' = base
  <1>1. ASSUME NEW i \in OrderIds, NEW d \in FillSizes \cup {orders[i].left}
        PROVE  ~LimitFill(i, d)
    BY DEF LimitFill, IsOpen, NoneOpen
  <1>2. ASSUME NEW i \in OrderIds, ExpireOrder(i) PROVE base' = base
    BY <1>2 DEF ExpireOrder
  <1>3. ASSUME NEW f \in FlowSizes, Deposit(f) \/ Withdraw(f) PROVE base' = base
    BY <1>3 DEF Deposit, Withdraw
  <1> QED
    BY <1>1, <1>2, <1>3 DEF ExchangeStep

LEMMA VenueReserved ==
    ASSUME ExchangeTypeOK, ExchangeStep, Reserved, NEW s, Tracks(s, orders)
    PROVE  Reserved'
  <1>1. ASSUME NEW i \in OrderIds, IsOpen(i) PROVE OnlyOpen(i)
    BY <1>1 DEF Tracks, IsOpen, OnlyOpen
  <1>2. ASSUME NEW i \in OrderIds, NEW d \in FillSizes \cup {orders[i].left},
               LimitFill(i, d)
        PROVE  Reserved'
    BY <1>1, <1>2, FillReserved DEF LimitFill
  <1>3. ASSUME NEW i \in OrderIds, ExpireOrder(i) PROVE Reserved'
    BY <1>1, <1>3, ReleaseReserved DEF ExpireOrder
  <1>4. ASSUME NEW f \in FlowSizes, Deposit(f) PROVE Reserved'
    <2>1. f \in Int
      BY ExchangeAssumption
    <2> QED
      BY <1>4, <2>1, FreeReserved DEF Deposit
  <1>5. ASSUME NEW f \in FlowSizes, Withdraw(f) PROVE Reserved'
    <2>1. -f \in Int /\ f \in Int /\ usdt \in Int /\ free \in Int
      BY ExchangeAssumption DEF ExchangeTypeOK
    <2>2. usdt' = usdt + (-f) /\ free' = free + (-f) /\ orders' = orders
      BY <1>5, <2>1 DEF Withdraw
    <2> QED
      BY <2>1, <2>2, FreeReserved
  <1> QED
    BY <1>2, <1>3, <1>4, <1>5 DEF ExchangeStep

LEMMA VenueNInv ==
    ASSUME NInv, HInv', VenueStep
    PROVE  NInv'
  <1>1. ExchangeStep /\ UNCHANGED <<st, pc, unaware, dirty, absorbed, mem, disk>>
    BY DEF VenueStep, pollVars, historyVars
  <1>2. ExchangeTypeOK' /\ Onward
    BY <1>1, NInvFacts, VenueOnward DEF HInv, TInv, IInv
  <1>3. PaceInv'
    BY <1>1, <1>2, PacedOn DEF PaceInv
  <1>4. ASSUME ~dirty' PROVE WorkBooked' /\ CopiesBooked'
    <2>1. ~dirty /\ WorkBooked /\ CopiesBooked /\ Tracks(Known, orders)
      BY <1>1, <1>4, NInvFacts DEF BooksInv
    <2>2. Reserved'
      BY <1>1, <2>1, NInvFacts, VenueReserved DEF WorkBooked
    <2>3. pc' = "newcycle" => base' = 0
      <3> SUFFICES ASSUME pc = "newcycle" PROVE base' = 0
        BY <1>1
      <3>1. st.open_limit = NoLimit /\ Tracks(st, orders)
        BY <2>1, NInvFacts DEF PlanOK, Known
      <3>2. NoneOpen(orders)
        BY <3>1, NothingTracked
      <3> QED
        BY <1>1, <2>1, <3>2, NInvFacts, IdleVenue DEF WorkBooked
    <2>4. pc' \notin {"down", "newcycle"} => Balanced(st, absorbed["st"])'
      <3> SUFFICES ASSUME pc \notin {"down", "newcycle"}
                   PROVE  Books(st, orders', base', usdt', moved' - absorbed["st"])
        BY <1>1 DEF Balanced
      <3>1. Balanced(st, absorbed["st"]) /\ Tracks(st, orders) /\ Good(st)
        BY <2>1, NInvFacts DEF WorkBooked, Known
      <3> QED
        BY <1>1, <3>1, NInvFacts, VenueBalanced
    <2>5. (~Booting /\ "mem" \notin unaware)' => Balanced(mem, absorbed["mem"])'
      <3> SUFFICES ASSUME ~Booting, "mem" \notin unaware
                   PROVE  Books(mem, orders', base', usdt', moved' - absorbed["mem"])
        BY <1>1 DEF Balanced, Booting
      <3>1. Balanced(mem, absorbed["mem"]) /\ Tracks(mem, orders) /\ Good(mem)
        BY <2>1, NInvFacts DEF CopiesBooked, NInv, HInv, TInv, Tracked
      <3> QED
        BY <1>1, <3>1, NInvFacts, VenueBalanced
    <2>6. ("disk" \notin unaware)' =>
             IF disk' = NoState THEN base' = 0 ELSE Balanced(disk, absorbed["disk"])'
      <3> SUFFICES ASSUME "disk" \notin unaware
                   PROVE  IF disk = NoState THEN base' = 0
                          ELSE Books(disk, orders', base', usdt', moved' - absorbed["disk"])
        BY <1>1 DEF Balanced
      <3>1. Tracks(disk, orders) /\ Good(disk)
        BY <2>1, NInvFacts DEF TInv, Tracked
      <3>2. CASE disk = NoState
        <4>1. NoneOpen(orders)
          BY <3>1, <3>2, NothingTracked DEF NoState, start_cycle
        <4> QED
          BY <1>1, <2>1, <3>2, <4>1, NInvFacts, IdleVenue DEF CopiesBooked
      <3>3. CASE disk # NoState
        <4>1. Balanced(disk, absorbed["disk"])
          BY <2>1, <3>3 DEF CopiesBooked
        <4> QED
          BY <1>1, <3>1, <3>3, <4>1, NInvFacts, VenueBalanced
      <3> QED
        BY <3>2, <3>3
    <2> QED
      BY <2>2, <2>3, <2>4, <2>5, <2>6 DEF WorkBooked, CopiesBooked
  <1> QED
    BY <1>1, <1>3, <1>4 DEF NInv, BooksInv

\* Pace and books look at the amounts and at the limit order only.
LEMMA SameMoney ==
    ASSUME NEW s, NEW r,
           r.open_limit = s.open_limit, r.position_qty = s.position_qty,
           r.cycle_cash_remaining = s.cycle_cash_remaining,
           r.tranche_usdt = s.tranche_usdt, r.tranches_used = s.tranches_used,
           r.step_target_usdt = s.step_target_usdt,
           r.step_filled_usdt = s.step_filled_usdt, NEW taken
    PROVE  /\ Paced(s, orders) => Paced(r, orders)
           /\ Balanced(s, taken) => Balanced(r, taken)
  <1>1. Paced(s, orders) => Paced(r, orders)
    BY SamePace DEF Paced, Ordered, Remaining
  <1> QED
    BY <1>1 DEF Balanced, Books, Unseen

\* A day more changes no amount.
LEMMA AgedBooks ==
    ASSUME NEW s, Good(s), NEW taken
    PROVE  LET a == Aged(s)
           IN  /\ Paced(s, orders) => Paced(a, orders)
               /\ Balanced(s, taken) => Balanced(a, taken)
               /\ a = NoState => s = NoState
  <1> DEFINE a == Aged(s)
             t == IF s.last_fill_time = "recent" THEN "elapsed" ELSE s.last_fill_time
  <1>1. s \in State
    BY DEF Good, Sound
  <1>2. a = [s EXCEPT !.last_fill_time = t]
    BY DEF Aged
  <1>3. a.last_fill_time = t /\ (t = s.last_fill_time => a = s)
    BY <1>1, <1>2 DEF State
  <1>4. a = NoState => s = NoState
    <2> SUFFICES ASSUME a = NoState PROVE s = NoState
      OBVIOUS
    <2>1. t = "none"
      BY <1>3 DEF NoState, start_cycle
    <2>2. t = s.last_fill_time
      BY <2>1
    <2> QED
      BY <1>3, <2>2
  <1> HIDE DEF t
  <1>5. /\ a.open_limit = s.open_limit
        /\ a.step_target_usdt = s.step_target_usdt
        /\ a.step_filled_usdt = s.step_filled_usdt
        /\ a.cycle_cash_remaining = s.cycle_cash_remaining
        /\ a.tranche_usdt = s.tranche_usdt
        /\ a.tranches_used = s.tranches_used
        /\ a.position_qty = s.position_qty
    BY <1>1, <1>2 DEF State
  <1> HIDE DEF a
  <1> QED
    BY <1>4, <1>5, SameMoney DEF a

LEMMA TimeNInv ==
    ASSUME NInv, HInv', TimePasses
    PROVE  NInv'
  <1>1. /\ st' = Aged(st) /\ mem' = Aged(mem) /\ disk' = Aged(disk)
        /\ UNCHANGED <<orders, usdt, free, base, moved, pc, unaware, dirty, absorbed>>
    BY DEF TimePasses, pollVars, exchangeVars, historyVars
  <1>2. Good(st) /\ Good(mem) /\ Good(disk)
    BY NInvFacts
  <1>3. PaceInv'
    BY <1>1, <1>2, AgedBooks DEF NInv, PaceInv
  <1>4. /\ Balanced(st, absorbed["st"]) => Balanced(st, absorbed["st"])'
        /\ Balanced(mem, absorbed["mem"]) => Balanced(mem, absorbed["mem"])'
        /\ Balanced(disk, absorbed["disk"]) => Balanced(disk, absorbed["disk"])'
        /\ disk' = NoState => disk = NoState
        /\ Booting => Booting'
    <2>1. /\ Balanced(st, absorbed["st"]) => Balanced(Aged(st), absorbed["st"])
          /\ Balanced(mem, absorbed["mem"]) => Balanced(Aged(mem), absorbed["mem"])
          /\ Balanced(disk, absorbed["disk"]) => Balanced(Aged(disk), absorbed["disk"])
      BY <1>2, AgedBooks
    <2> QED
      BY <1>1, <1>2, <2>1, AgedBooks, AgedNoState DEF Balanced, Booting
  <1>5. disk = NoState => disk' = NoState
    BY <1>1, AgedNoState
  <1>6. ~dirty' => WorkBooked'
    BY <1>1, <1>4, SameReserved DEF NInv, BooksInv, WorkBooked
  <1>7. ~dirty' => CopiesBooked'
    BY <1>1, <1>4, <1>5 DEF NInv, BooksInv, CopiesBooked
  <1> QED
    BY <1>1, <1>3, <1>6, <1>7 DEF NInv, BooksInv
-----------------------------------------------------------------------------
(* The steps of a poll keep pace and books                                 *)

\* The working copy of a poll, as long as no order is lost.
LEMMA PollFacts ==
    ASSUME NInv, pc # "down"
    PROVE  /\ Paced(st, orders)
           /\ ~dirty => Reserved /\ Tracks(st, orders)
           /\ ~dirty /\ pc # "newcycle" => Balanced(st, absorbed["st"])
           /\ ~dirty /\ pc = "newcycle" => base = 0
  BY NInvFacts DEF PaceInv, BooksInv, WorkBooked, Known

LEMMA ReturnsInto ==
    ASSUME NInv, NEW did \in BOOLEAN, NEW booting, Return(did, booting),
           pc \in {"act", "topup_cancel", "deposit_buy", "newcycle"}
    PROVE  pc' \notin {"idle", "down", "newcycle"}
  BY ReturnTo DEF NInv, HInv, TInv, IInv

LEMMA BeginPollNInv ==
    ASSUME NInv, HInv', BeginPoll
    PROVE  NInv'
  <1>1. /\ pc = "idle" /\ pc' = "topup" /\ st' = refresh_open_limit(st)
        /\ UNCHANGED <<exchangeVars, unaware, absorbed, mem, disk>>
        /\ dirty' = (dirty \/ RestForgotten(st))
    BY DEF BeginPoll, Goto
  <1>2. /\ ExchangeTypeOK /\ Good(st) /\ Paced(st, orders)
        /\ ~dirty => Balanced(st, absorbed["st"])
    BY <1>1, NInvFacts, PollFacts
  <1>3. Paced(st', orders) /\ (~dirty => Balanced(refresh_open_limit(st), absorbed["st"]))
    BY <1>1, <1>2, NInvFacts, RefreshPaced, UnseenInt, FoldedBooks
  <1> QED
    BY <1>1, <1>3, StillNInv DEF Balanced

\* A step that leaves the venue and the amounts of the working copy alone.
LEMMA IdleStep ==
    ASSUME NInv, HInv', UNCHANGED <<mem, disk, exchangeVars, unaware, dirty, absorbed>>,
           pc \notin {"down", "newcycle"}, pc' \notin {"idle", "down", "newcycle"},
           Paced(st, orders) => Paced(st', orders),
           Balanced(st, absorbed["st"])
             => Books(st', orders, base, usdt, moved - absorbed["st"])
    PROVE  NInv'
  BY NInvFacts, PollFacts, StillNInv

LEMMA PendingMoney ==
    ASSUME NEW s \in State, NEW d \in Int, NEW taken
    PROVE  LET p == [s EXCEPT !.pending_topup_delta = d]
           IN  /\ Paced(s, orders) => Paced(p, orders)
               /\ Balanced(s, taken) => Balanced(p, taken)
  <1> DEFINE p == [s EXCEPT !.pending_topup_delta = d]
  <1>1. /\ p.open_limit = s.open_limit /\ p.position_qty = s.position_qty
        /\ p.cycle_cash_remaining = s.cycle_cash_remaining
        /\ p.tranche_usdt = s.tranche_usdt /\ p.tranches_used = s.tranches_used
        /\ p.step_target_usdt = s.step_target_usdt
        /\ p.step_filled_usdt = s.step_filled_usdt
    BY DEF State
  <1> QED
    BY <1>1, SameMoney

LEMMA TopupNInv ==
    ASSUME NInv, HInv', UNCHANGED <<mem, disk, absorbed>>,
           \/ TopupDisabled(Booting) \/ TopupNothing(Booting)
           \/ TopupCandidate(Booting) \/ TopupYieldsToTakeProfit(Booting)
           \/ TopupConfirmed
    PROVE  NInv'
  <1>1. st \in State /\ Delta \in Int
    <2>1. usdt \in Int /\ st \in State
      BY NInvFacts DEF ExchangeTypeOK, Good, Sound
    <2> QED
      BY <2>1 DEF Delta, State
  <1> HIDE DEF Delta
  <1>2. /\ pc = "topup" /\ UNCHANGED <<exchangeVars, unaware, dirty>>
        /\ pc' \in {"save", "decide", "resplit", "topup_cancel"}
    BY DEF TopupDisabled, TopupNothing, TopupCandidate, TopupYieldsToTakeProfit,
           TopupConfirmed, Goto, AfterTopup
  <1>3. \/ st' = st
        \/ st' = [st EXCEPT !.pending_topup_delta = Delta]
        \/ st' = [st EXCEPT !.pending_topup_delta = 0]
    BY DEF TopupDisabled, TopupNothing, TopupCandidate, TopupYieldsToTakeProfit,
           TopupConfirmed
  <1>4. /\ Paced(st, orders) => Paced(st', orders)
        /\ Balanced(st, absorbed["st"])
          => Books(st', orders, base, usdt, moved - absorbed["st"])
    BY <1>1, <1>3, PendingMoney DEF Balanced
  <1> QED
    BY <1>2, <1>4, IdleStep

\* The re-split takes the cash from the venue, and the position as it is.
LEMMA ResplitNInv ==
    ASSUME NInv, HInv', UNCHANGED <<mem, disk>>, TakeCash, Resplit(Booting)
    PROVE  NInv'
  <1> DEFINE split == apply_topup(st, usdt)
             buys == [split EXCEPT !.step_target_usdt = next_usdt(split)]
  <1>1. /\ pc = "resplit" /\ UNCHANGED <<exchangeVars, unaware, dirty>>
        /\ st' \in {split} \cup (IF can_buy(split) THEN {buys} ELSE {})
        /\ pc' \in {"deposit_buy", "decide", "save"}
    BY DEF Resplit, AfterTopup
  <1>2. st \in State /\ Sound(st) /\ st.open_limit = NoLimit /\ usdt \in Int
    BY <1>1, NInvFacts DEF PlanOK, ExchangeTypeOK, Good, Sound
  <1>3. /\ split.open_limit = NoLimit
        /\ split.position_qty = st.position_qty
        /\ split.cycle_cash_remaining = usdt
        /\ split.tranche_usdt = compute_tranche(usdt)
        /\ split.tranches_used = 0
        /\ split.step_target_usdt = 0 /\ split.step_filled_usdt = 0
    BY <1>2 DEF apply_topup, State
  <1>4. split \in State
    BY <1>2, TopupSound DEF Sound
  <1> HIDE DEF split
  <1>5. Covered(split)
    BY <1>2, <1>3, SplitCovered
  <1>6. can_buy(split) =>
          /\ buys.open_limit = NoLimit
          /\ buys.position_qty = st.position_qty
          /\ buys.cycle_cash_remaining = usdt
          /\ Covered(buys)
    <2> SUFFICES ASSUME can_buy(split)
                 PROVE  /\ buys.open_limit = NoLimit
                        /\ buys.position_qty = st.position_qty
                        /\ buys.cycle_cash_remaining = usdt
                        /\ Covered(buys)
      OBVIOUS
    <2> DEFINE w == next_usdt(split)
    <2>1. compute_tranche(usdt) \in Int
      BY <1>2, TrancheBounds
    <2>2. w \in Int /\ w <= compute_tranche(usdt)
      BY <1>2, <1>3, <2>1 DEF next_usdt, Smaller
    <2> HIDE DEF w
    <2>3. /\ buys.open_limit = NoLimit
          /\ buys.position_qty = st.position_qty
          /\ buys.cycle_cash_remaining = usdt
          /\ buys.tranche_usdt = compute_tranche(usdt)
          /\ buys.tranches_used = 0
          /\ buys.step_target_usdt = w /\ buys.step_filled_usdt = 0
      BY <1>3, <1>4 DEF State, w
    <2> HIDE DEF buys
    <2> QED
      BY <1>2, <2>2, <2>3, SplitCovered
  <1> HIDE DEF buys
  <1>7. /\ st'.open_limit = NoLimit
        /\ st'.position_qty = st.position_qty
        /\ st'.cycle_cash_remaining = usdt
        /\ Covered(st')
    BY <1>1, <1>3, <1>5, <1>6
  <1>8. Paced(st', orders)
    BY <1>7 DEF Paced, Ordered
  <1>9. absorbed'["st"] = moved /\ moved \in Int
    BY NInvFacts DEF TakeCash, HistoryTypeOK
  <1>10. ~dirty => Books(st', orders, base, usdt, moved - absorbed'["st"])
    BY <1>1, <1>2, <1>7, <1>9, PollFacts DEF Balanced, Books, Unseen
  <1> QED
    BY <1>1, <1>8, <1>10, StillNInv

LEMMA DecideNInv ==
    ASSUME NInv, HInv', UNCHANGED <<mem, disk, absorbed>>, Decide
    PROVE  NInv'
  <1>1. /\ pc = "decide" /\ pc' \in {"save", "act"}
        /\ UNCHANGED <<exchangeVars, st, unaware, dirty>>
    BY DEF Decide
  <1>2. Balanced(st, absorbed["st"])
          => Books(st', orders, base, usdt, moved - absorbed["st"])
    BY <1>1 DEF Balanced
  <1> QED
    BY <1>1, <1>2, IdleStep

\* What was filled before the cancel is booked, and nothing is open after it.
LEMMA CancelNInv ==
    ASSUME NInv, HInv', UNCHANGED <<mem, disk, absorbed>>, NEW swallowed \in BOOLEAN,
           CancelLimit(Booting, swallowed)
    PROVE  NInv'
  <1> DEFINE j == st.open_limit.id
             f == fold_order_progress(st, j, orders[j].filled)
  <1>1. ExchangeTypeOK /\ PlanOK /\ pc \in Pcs /\ Good(st)
    BY NInvFacts
  <1>2. st.open_limit # NoLimit /\ pc \in {"topup_cancel", "act"} /\ j \in OrderIds
    BY <1>1, CallSites DEF CancelLimit, Good
  <1>3. /\ IF swallowed THEN UNCHANGED exchangeVars ELSE cancel_order(j)
        /\ st' = on_limit_canceled(f)
        /\ dirty' = (dirty \/ (swallowed /\ IsOpen(j)))
        /\ unaware' = unaware
        /\ Return(TRUE, Booting)
    BY DEF CancelLimit, cancel_order_swallowed
  <1>4. pc' \notin {"idle", "down", "newcycle"}
    BY <1>2, <1>3, ReturnsInto
  <1>5. Onward /\ SameAnswers
    <2>1. CASE swallowed
      BY <1>1, <1>3, <2>1, StillOnward DEF exchangeVars, SameAnswers
    <2>2. CASE ~swallowed
      BY <1>1, <1>2, <1>3, <2>2, CancelOnward
    <2> QED
      BY <2>1, <2>2
  <1>6. Paced(st, orders) /\ (~dirty => Balanced(st, absorbed["st"]) /\ Reserved /\ Tracks(st, orders))
    BY <1>2, PollFacts
  <1>7. /\ Paced(st', orders) /\ (~dirty => Balanced(on_limit_canceled(f), absorbed["st"]))
        /\ st'.open_limit = NoLimit
    <2>1. f = f \/ f = on_limit_canceled(f)
      OBVIOUS
    <2>2. orders[j].filled \in Nat
      BY <1>1, <1>2 DEF ExchangeTypeOK, OrderResult
    <2>3. on_limit_canceled(f).open_limit = NoLimit
      BY <1>1, <2>2, FoldGood
    <2> HIDE DEF f
    <2>4. LET r == on_limit_canceled(f)
          IN  /\ Paced(r, orders)
              /\ Unseen(st, orders) \in Nat /\ Unseen(r, orders) = 0
              /\ r.position_qty = st.position_qty + Unseen(st, orders)
              /\ r.cycle_cash_remaining = st.cycle_cash_remaining - Unseen(st, orders)
      BY <1>1, <1>2, <1>6, FoldPaced DEF f
    <2> QED
      BY <1>1, <1>3, <1>6, <2>3, <2>4, NInvFacts, FoldedBooks DEF f
  <1>8. Paced(st', orders')
    BY <1>7 DEF Paced, Ordered
  <1>9. ASSUME ~dirty' PROVE WorkBooked'
    <2>1. ~dirty
      BY <1>3, <1>9
    <2>2. Books(st', orders', base', usdt', moved' - absorbed'["st"])
      BY <1>3, <1>5, <1>7, <2>1 DEF Balanced, Books, Unseen, SameAnswers
    <2>3. Reserved'
      <3>1. CASE swallowed
        BY <1>3, <1>6, <2>1, <3>1, SameReserved DEF exchangeVars
      <3>2. CASE ~swallowed
        BY <1>1, <1>2, <1>3, <1>6, <2>1, <3>2, TracksOnly, CancelReserved
      <3> QED
        BY <3>1, <3>2
    <2> QED
      BY <1>4, <2>2, <2>3 DEF WorkBooked, Balanced
  <1> QED
    BY <1>3, <1>4, <1>5, <1>8, <1>9, WorkNInv

LEMMA MarketBuyNInv ==
    ASSUME NInv, HInv', UNCHANGED <<mem, disk, absorbed>>, MarketBuy(Booting)
    PROVE  NInv'
  <1>1. ExchangeTypeOK /\ PlanOK /\ pc \in Pcs /\ Good(st) /\ st \in State
    BY NInvFacts DEF Good, Sound
  <1>2. /\ st.open_limit = NoLimit /\ pc \in {"deposit_buy", "act"}
        /\ Return(TRUE, Booting) /\ unaware' = Copies /\ dirty' = dirty
        /\ Remaining(st) >= MinNotional
    BY <1>1, CallSites DEF MarketBuy, SendsOrder, AmountToBuy
  <1>3. pc' \notin {"idle", "down", "newcycle"}
    BY <1>2, ReturnsInto
  <1>4. PICK cost \in MarketCosts(Remaining(st)) :
          market_buy_quote(cost) /\ st' = apply_buy_fill(st, cost)
    BY DEF MarketBuy, AmountToBuy
  <1>5. cost \in Nat /\ cost # 0 /\ cost <= Remaining(st) + Overshoot
    <2>1. PICK e \in CostErrors : cost = Remaining(st) + e
      BY DEF MarketCosts
    <2>2. cost \in Nat /\ cost # 0
      BY <1>1 DEF MarketCosts, ExchangeTypeOK
    <2>3. e <= Overshoot /\ e \in Int /\ Overshoot \in Nat /\ Remaining(st) \in Int
      BY <1>1, OvershootBound, ExchangeAssumption DEF Remaining, State, Excesses
    <2> QED
      BY <2>1, <2>2, <2>3
  <1>6. /\ orders' = orders /\ moved' = moved
        /\ usdt' = usdt - cost /\ free' = free - cost /\ base' = base + cost
    BY <1>4 DEF market_buy_quote
  <1>7. /\ st'.position_qty = st.position_qty + cost
        /\ st'.cycle_cash_remaining = st.cycle_cash_remaining - cost
        /\ st'.tranche_usdt = st.tranche_usdt
        /\ st'.open_limit = NoLimit
        /\ \/ /\ st'.tranches_used = st.tranches_used + 1
              /\ st'.step_target_usdt = 0
           \/ /\ st'.tranches_used = st.tranches_used
              /\ st'.step_target_usdt = st.step_target_usdt
              /\ Remaining(st') = Remaining(st) - cost
    BY <1>1, <1>2, <1>4, <1>5, BuyFillBooks
  <1>8. Paced(st, orders) /\ (~dirty => Balanced(st, absorbed["st"]) /\ Reserved)
    BY <1>2, PollFacts
  <1>9. Paced(st', orders')
    <2>1. st' \in State
      BY DEF HInv, TInv, IInv, Good, Sound
    <2>2. st.step_target_usdt > 0
      BY <1>1, <1>2, ParamsAssumption DEF Remaining, State
    <2>3. Covered(st')
      BY <1>1, <1>5, <1>7, <1>8, <2>1, <2>2, FillCovered DEF Paced
    <2> QED
      BY <1>7, <2>3 DEF Paced, Ordered
  <1>10. ASSUME ~dirty' PROVE WorkBooked'
    <2>1. Balanced(st, absorbed["st"]) /\ Reserved
      BY <1>2, <1>8, <1>10
    <2>2. usdt \in Int /\ free \in Int /\ -cost \in Int
      BY <1>1, <1>5 DEF ExchangeTypeOK
    <2>3. Reserved'
      <3>1. usdt' = usdt + (-cost) /\ free' = free + (-cost)
        BY <1>5, <1>6, <2>2
      <3> QED
        BY <1>1, <1>6, <2>1, <2>2, <3>1, FreeReserved
    <2>4. Books(st', orders', base', usdt', moved' - absorbed'["st"])
      <3>1. st.position_qty \in Nat /\ st.cycle_cash_remaining \in Int
            /\ moved - absorbed["st"] \in Int
        BY <1>1, NInvFacts DEF State
      <3> QED
        BY <1>2, <1>5, <1>6, <1>7, <2>1, <3>1 DEF Balanced, Books, Unseen
    <2> QED
      BY <1>3, <2>3, <2>4 DEF WorkBooked, Balanced
  <1>11. Onward
    BY <1>1, <1>6, StillOnward
  <1> QED
    BY <1>2, <1>3, <1>9, <1>10, <1>11, WorkNInv

LEMMA NothingToBuyNInv ==
    ASSUME NInv, HInv', UNCHANGED <<mem, disk, absorbed>>, NothingToBuy(Booting)
    PROVE  NInv'
  <1>1. /\ pc \in {"deposit_buy", "act"} /\ Return(FALSE, Booting)
        /\ UNCHANGED <<exchangeVars, st, unaware, dirty>>
    BY NInvFacts, CallSites DEF NothingToBuy
  <1>2. pc' \notin {"idle", "down", "newcycle"}
    BY <1>1, ReturnsInto
  <1>3. Balanced(st, absorbed["st"])
          => Books(st', orders, base, usdt, moved - absorbed["st"])
    BY <1>1 DEF Balanced
  <1> QED
    BY <1>1, <1>2, <1>3, IdleStep

LEMMA PlaceNInv ==
    ASSUME NInv, HInv', UNCHANGED <<mem, disk, absorbed>>,
           NEW i \in FreshIds, PlaceLimitBuy(i)
    PROVE  NInv'
  <1> DEFINE w == next_usdt(st)
             ol == [id |-> i, usdt |-> w, filled_quote_seen |-> 0]
  <1>1. ExchangeTypeOK /\ PlanOK /\ pc \in Pcs /\ Good(st)
    BY NInvFacts
  <1>2. pc = "act" /\ ChaseDue(st) /\ st.open_limit = NoLimit
    BY <1>1, CallSites DEF PlaceLimitBuy, ChaseDue
  <1>3. /\ st' = on_limit_placed(st, ol)
        /\ Return(TRUE, FALSE) /\ unaware' = Copies /\ dirty' = dirty
        /\ \E fee \in LimitFees : place_limit_buy(i, w, fee)
    BY DEF PlaceLimitBuy, SendsOrder
  <1> PICK fee \in LimitFees : place_limit_buy(i, w, fee)
    BY <1>3
  <1>4. fee \in Nat /\ fee <= Overshoot /\ Overshoot \in Nat
    BY OvershootBound, ExchangeAssumption DEF Excesses
  <1>5. i \in OrderIds /\ i \in Nat
    BY ExchangeAssumption DEF FreshIds
  <1>6. pc' \notin {"idle", "down", "newcycle"}
    BY <1>2, <1>3, ReturnsInto
  <1>7. Paced(st, orders) /\ (~dirty => Balanced(st, absorbed["st"]) /\ Reserved /\ Tracks(st, orders))
    BY <1>2, PollFacts
  <1>8. Covered(st') /\ st'.open_limit = ol
    BY <1>1, <1>2, <1>3, <1>5, <1>7, PlacedCovered DEF Good, Paced
  <1>9. w \in Nat
    BY <1>1, <1>2, <1>5, PlacedSound DEF Good
  <1>10. /\ st'.position_qty = st.position_qty
        /\ st'.cycle_cash_remaining = st.cycle_cash_remaining
    BY <1>1, <1>3 DEF on_limit_placed, Good, Sound, State
  <1> HIDE DEF w
  <1>11. /\ orders'[i].left = w + fee /\ orders'[i].filled = 0
         /\ UNCHANGED <<base, usdt, moved>>
    BY <1>1, <1>5 DEF place_limit_buy, ExchangeTypeOK
  <1>12. st'.open_limit.id = i /\ st'.open_limit.usdt = w
         /\ st'.open_limit.filled_quote_seen = 0
    BY <1>8
  <1>13. Paced(st', orders')
    BY <1>8, <1>9, <1>11, <1>12, <1>4 DEF Paced, Ordered
  <1>14. ASSUME ~dirty' PROVE WorkBooked'
    <2>1. Balanced(st, absorbed["st"]) /\ Reserved /\ Tracks(st, orders)
      BY <1>3, <1>7, <1>14
    <2>2. NoneOpen(orders)
      BY <1>2, <2>1, NothingTracked
    <2>3. Reserved'
      BY <1>1, <1>5, <1>9, <1>4, <2>1, <2>2, PlaceReserved
    <2>4. Unseen(st', orders') = 0
      BY <1>11, <1>12 DEF Unseen
    <2>5. Books(st', orders', base', usdt', moved' - absorbed'["st"])
      BY <1>2, <1>10, <1>11, <2>1, <2>4 DEF Balanced, Books, Unseen
    <2> QED
      BY <1>6, <2>3, <2>5 DEF WorkBooked, Balanced
  <1>15. Onward
    BY <1>1, PlaceOnward
  <1> QED
    BY <1>3, <1>6, <1>13, <1>14, <1>15, WorkNInv

LEMMA SellAllNInv ==
    ASSUME NInv, HInv', UNCHANGED <<mem, disk, absorbed>>, SellAll
    PROVE  NInv'
  <1>1. ExchangeTypeOK /\ PlanOK /\ pc \in Pcs
    BY NInvFacts
  <1>2. /\ pc = "act" /\ pc' = "newcycle" /\ unaware' = Copies
        /\ UNCHANGED <<st, dirty, orders>> /\ base' = 0
        /\ usdt' = usdt + SaleProceeds /\ free' = free + SaleProceeds
    BY <1>1, CallSites DEF SellAll, market_sell_all
  <1>3. Paced(st', orders') /\ (~dirty => Reserved)
    BY <1>2, PollFacts
  <1>4. SaleProceeds \in Int
    BY <1>1, ExchangeAssumption DEF SaleProceeds, ExchangeTypeOK
  <1> HIDE DEF SaleProceeds
  <1>5. ~dirty' => WorkBooked'
    BY <1>1, <1>2, <1>3, <1>4, FreeReserved DEF WorkBooked
  <1>6. Onward
    BY <1>1, <1>2, StillOnward
  <1> QED
    BY <1>2, <1>3, <1>5, <1>6, WorkNInv

\* A new cycle begins with nothing bought and with all the money there is: no
\* order is open, so all of it is free.
LEMMA StartNewCycleNInv ==
    ASSUME NInv, HInv', UNCHANGED <<mem, disk>>, TakeCash, StartNewCycle
    PROVE  NInv'
  <1>1. /\ pc = "newcycle" /\ Return(TRUE, FALSE) /\ unaware' = Copies
        /\ UNCHANGED <<exchangeVars, dirty>>
        /\ st' = start_cycle(free, st.cycle_id + 1)
    BY DEF StartNewCycle, SendsOrder
  <1>2. pc' \notin {"idle", "down", "newcycle"}
    BY <1>1, ReturnsInto
  <1>3. free \in Nat /\ st.cycle_id + 1 \in Nat
    BY NInvFacts DEF ExchangeTypeOK, Good, Sound, State
  <1>4. /\ Covered(st') /\ st'.open_limit = NoLimit
        /\ st'.position_qty = 0 /\ st'.cycle_cash_remaining = free
    BY <1>1, <1>3, StartCycleCovered DEF start_cycle
  <1>5. Paced(st', orders)
    BY <1>4 DEF Paced, Ordered
  <1>6. absorbed'["st"] = moved /\ moved \in Int
    BY NInvFacts DEF TakeCash, HistoryTypeOK
  <1>7. ASSUME ~dirty' PROVE Books(st', orders, base, usdt, moved - absorbed'["st"])
    <2>1. Reserved /\ Tracks(st, orders) /\ base = 0
      BY <1>1, <1>7, PollFacts
    <2>2. NoneOpen(orders)
      BY <1>1, <2>1, NInvFacts, NothingTracked DEF PlanOK
    <2>3. usdt = free
      BY <2>1, <2>2 DEF Reserved
    <2> QED
      BY <1>3, <1>4, <1>6, <2>1, <2>3 DEF Books, Unseen
  <1> QED
    BY <1>1, <1>2, <1>5, <1>7, StillNInv

-----------------------------------------------------------------------------
(* The steps of Bot keep pace and books: saves, failures and boots         *)

LEMMA NoStatePaced ==
    ASSUME NEW os
    PROVE  Paced(NoState, os)
  BY StartCycleCovered DEF NoState, Paced, Ordered

\* The row a dead process leaves is balanced unless it is unaware of an order.
LEMMA DiesNInv ==
    ASSUME NInv, HInv', Dies, Onward,
           ~dirty' => ~dirty /\ "disk" \notin unaware /\ SameAnswers /\ Reserved'
    PROVE  NInv'
  <1>1. /\ st' = NoState /\ mem' = NoState /\ disk' = disk
        /\ pc' = "down" /\ unaware' = {} /\ absorbed' = absorbed
    BY DEF Dies, Leave
  <1>2. PaceInv'
    BY <1>1, NoStatePaced, PacedOn DEF PaceInv, HInv, TInv, IInv
  <1>3. ASSUME ~dirty' PROVE WorkBooked' /\ CopiesBooked'
    <2>1. IF disk = NoState THEN base = 0 ELSE Balanced(disk, absorbed["disk"])
      BY <1>3 DEF NInv, BooksInv, CopiesBooked
    <2>2. Balanced(disk, absorbed["disk"]) => Balanced(disk, absorbed["disk"])'
      BY <1>1, <1>3, NInvFacts, SameBooks DEF Balanced
    <2>3. base' = base
      BY <1>3 DEF SameAnswers
    <2> QED
      BY <1>1, <1>3, <2>1, <2>2, <2>3 DEF WorkBooked, CopiesBooked, Booting
  <1> QED
    BY <1>1, <1>2, <1>3 DEF NInv, BooksInv

\* A poll that raises goes on with mem, whose books are balanced likewise.
LEMMA RaisesNInv ==
    ASSUME NInv, HInv', NEW sent \in BOOLEAN, Raises(sent), Onward,
           ~sent => SameAnswers,
           ~sent /\ ~dirty => Reserved'
    PROVE  NInv'
  <1>1. ASSUME PollRaises, dirty' = (dirty \/ sent \/ "mem" \in unaware)
        PROVE  NInv'
    <2>1. /\ ~Booting /\ st' = mem /\ mem' = mem /\ disk' = disk
          /\ pc' = "idle" /\ unaware' = unaware \ {"mem"}
          /\ absorbed'["st"] = absorbed["mem"]
          /\ absorbed'["mem"] = absorbed["mem"] /\ absorbed'["disk"] = absorbed["disk"]
      BY <1>1, NInvFacts DEF PollRaises, Leave, Carry, HistoryTypeOK, Copies
    <2>2. PaceInv'
      BY <2>1, PacedOn DEF PaceInv, HInv, TInv, IInv
    <2>3. ASSUME ~dirty' PROVE WorkBooked' /\ CopiesBooked'
      <3>1. ~dirty /\ ~sent /\ "mem" \notin unaware
        BY <1>1, <2>3
      <3>2. /\ Balanced(mem, absorbed["mem"])
            /\ "disk" \notin unaware =>
                 IF disk = NoState THEN base = 0 ELSE Balanced(disk, absorbed["disk"])
        BY <2>1, <3>1 DEF NInv, BooksInv, CopiesBooked
      <3>3. /\ Books(mem, orders', base', usdt', moved' - absorbed["mem"])
            /\ Balanced(disk, absorbed["disk"]) => Balanced(disk, absorbed["disk"])'
        BY <2>1, <3>1, <3>2, NInvFacts, SameBooks DEF Balanced
      <3>4. base' = base /\ Reserved'
        BY <3>1 DEF SameAnswers
      <3> QED
        BY <2>1, <3>2, <3>3, <3>4 DEF WorkBooked, CopiesBooked, Balanced
    <2> QED
      BY <2>1, <2>2, <2>3 DEF NInv, BooksInv
  <1>2. ASSUME Dies, dirty' = (dirty \/ sent \/ "disk" \in unaware)
        PROVE  NInv'
    BY <1>2, DiesNInv
  <1> QED
    BY <1>1, <1>2 DEF Raises

LEMMA FailureNInv ==
    ASSUME NInv, HInv', FailureStep
    PROVE  NInv'
  <1>1. ExchangeTypeOK /\ PlanOK /\ pc \in Pcs /\ Good(st)
    BY NInvFacts
  <1>2. ~dirty => Reserved
    BY DEF NInv, BooksInv, WorkBooked
  <1>3. ASSUME CallRaises(FreshIds), Raises(FALSE) PROVE NInv'
    <2>1. UNCHANGED <<orders, usdt, free, base, moved>>
      BY <1>3 DEF CallRaises, exchangeVars
    <2>2. Onward /\ SameAnswers
      BY <1>1, <2>1, StillOnward DEF SameAnswers
    <2> QED
      BY <1>2, <1>3, <2>1, <2>2, SameReserved, RaisesNInv
  <1>4. ASSUME CancelThenRaises, Raises(FALSE) PROVE NInv'
    <2>1. st.open_limit # NoLimit /\ pc # "down" /\ cancel_order(st.open_limit.id)
      BY <1>1, <1>4, CallSites DEF CancelThenRaises
    <2>2. st.open_limit.id \in OrderIds
      BY <1>1, <2>1 DEF Good
    <2>3. Onward /\ SameAnswers
      BY <1>1, <2>1, <2>2, CancelOnward
    <2>4. ~dirty => Reserved'
      BY <1>1, <1>2, <2>1, <2>2, PollFacts, TracksOnly, CancelReserved
    <2> QED
      BY <1>4, <2>3, <2>4, RaisesNInv
  <1>5. ASSUME OrderLost(FreshIds), Raises(TRUE) PROVE NInv'
    <2>1. ASSUME NEW cost, market_buy_quote(cost) PROVE Onward
      BY <1>1, <2>1, StillOnward DEF market_buy_quote
    <2>2. ASSUME NEW i \in FreshIds, NEW fee, place_limit_buy(i, next_usdt(st), fee)
          PROVE  Onward
      BY <1>1, <2>2, PlaceOnward
    <2>3. ASSUME market_sell_all PROVE Onward
      BY <1>1, <2>3, StillOnward DEF market_sell_all
    <2>4. Onward
      BY <1>5, <2>1, <2>2, <2>3 DEF OrderLost
    <2> QED
      BY <1>5, <2>4, RaisesNInv
  <1> QED
    BY <1>3, <1>4, <1>5 DEF FailureStep

LEMMA SaveNInv ==
    ASSUME NInv, HInv', Save
    PROVE  NInv'
  <1>1. /\ pc = "save" /\ disk' = st /\ unaware' = {} /\ dirty' = dirty
        /\ UNCHANGED <<orders, usdt, free, base, moved>>
        /\ \/ st' = NoState /\ mem' = NoState /\ pc' = "down"
           \/ st' = st /\ mem' = st /\ pc' = "idle"
        /\ absorbed'["st"] = absorbed["st"]
        /\ absorbed'["mem"] = absorbed["st"] /\ absorbed'["disk"] = absorbed["st"]
    BY NInvFacts DEF Save, Leave, exchangeVars, Carry, HistoryTypeOK, Copies
  <1>2. Paced(st, orders) /\ (~dirty => Balanced(st, absorbed["st"]) /\ Reserved)
    BY <1>1, PollFacts
  <1>3. PaceInv'
    BY <1>1, <1>2, NoStatePaced DEF PaceInv
  <1>4. st = NoState /\ Balanced(st, absorbed["st"]) => base = 0
    BY DEF Balanced, Books, Unseen, NoState, start_cycle
  <1>5. ASSUME ~dirty' PROVE WorkBooked' /\ CopiesBooked'
    <2>1. Balanced(st, absorbed["st"]) /\ Reserved'
      BY <1>1, <1>2, <1>5, SameReserved
    <2> QED
      BY <1>1, <1>4, <2>1 DEF WorkBooked, CopiesBooked, Balanced, Booting
  <1> QED
    BY <1>1, <1>3, <1>5 DEF NInv, BooksInv

LEMMA SaveFailsNInv ==
    ASSUME NInv, HInv', SaveFails
    PROVE  NInv'
  <1>1. pc = "save" /\ UNCHANGED <<orders, usdt, free, base, moved>>
    BY DEF SaveFails, exchangeVars
  <1>2. Onward /\ SameAnswers /\ (~dirty => Reserved')
    BY <1>1, NInvFacts, StillOnward, SameReserved
    DEF SameAnswers, NInv, BooksInv, WorkBooked
  <1>3. CASE Booting
    <2>1. Dies /\ dirty' = (dirty \/ "disk" \in unaware)
      BY <1>3 DEF SaveFails
    <2> QED
      BY <1>2, <2>1, DiesNInv
  <1>4. CASE ~Booting
    <2>1. /\ mem' = st /\ st' = st /\ disk' = disk /\ pc' = "idle"
          /\ unaware' = unaware \ {"mem"} /\ dirty' = dirty
          /\ absorbed'["st"] = absorbed["st"]
          /\ absorbed'["mem"] = absorbed["st"] /\ absorbed'["disk"] = absorbed["disk"]
      BY <1>4, NInvFacts DEF SaveFails, Leave, Carry, HistoryTypeOK, Copies
    <2>2. PaceInv'
      BY <1>1, <2>1 DEF NInv, PaceInv
    <2>3. ASSUME ~dirty' PROVE WorkBooked' /\ CopiesBooked'
      BY <1>1, <1>2, <2>1, <2>3
      DEF NInv, BooksInv, WorkBooked, CopiesBooked, Balanced
    <2> QED
      BY <2>1, <2>2, <2>3 DEF NInv, BooksInv
  <1> QED
    BY <1>3, <1>4

LEMMA StopNInv ==
    ASSUME NInv, HInv', Stop
    PROVE  NInv'
  <1>1. /\ pc = "idle" /\ disk' = mem /\ st' = NoState /\ mem' = NoState
        /\ pc' = "down" /\ unaware' = {} /\ dirty' = dirty
        /\ UNCHANGED <<orders, usdt, free, base, moved>>
        /\ absorbed'["disk"] = absorbed["mem"]
    BY NInvFacts DEF Stop, Leave, exchangeVars, Carry, HistoryTypeOK, Copies
  <1>2. st = mem
    BY <1>1 DEF NInv, HInv, TInv, Rested
  <1>3. Paced(st, orders) /\ (~dirty => Balanced(mem, absorbed["mem"]) /\ Reserved)
    BY <1>1, <1>2, PollFacts DEF NInv, BooksInv
  <1>4. PaceInv'
    BY <1>1, <1>2, <1>3, NoStatePaced DEF PaceInv
  <1>5. mem = NoState /\ Balanced(mem, absorbed["mem"]) => base = 0
    BY DEF Balanced, Books, Unseen, NoState, start_cycle
  <1>6. ASSUME ~dirty' PROVE WorkBooked' /\ CopiesBooked'
    <2>1. Balanced(mem, absorbed["mem"]) /\ Reserved'
      BY <1>1, <1>3, <1>6, SameReserved
    <2> QED
      BY <1>1, <1>5, <2>1 DEF WorkBooked, CopiesBooked, Balanced, Booting
  <1> QED
    BY <1>1, <1>4, <1>6 DEF NInv, BooksInv

LEMMA CrashNInv ==
    ASSUME NInv, HInv', Crash
    PROVE  NInv'
  <1>1. Dies /\ dirty' = (dirty \/ "disk" \in unaware)
    BY DEF Crash
  <1>2. UNCHANGED <<orders, usdt, free, base, moved>>
    BY DEF Crash, exchangeVars
  <1>3. Onward /\ SameAnswers /\ (~dirty => Reserved')
    BY <1>2, NInvFacts, StillOnward, SameReserved
    DEF SameAnswers, NInv, BooksInv, WorkBooked
  <1> QED
    BY <1>1, <1>3, DiesNInv

LEMMA HaltedMoney ==
    ASSUME NEW s \in State, NEW taken
    PROVE  /\ Paced(s, orders) => Paced(Halted(s), orders)
           /\ Balanced(s, taken) => Balanced(Halted(s), taken)
  <1> DEFINE h == Halted(s)
  <1>1. /\ h.open_limit = s.open_limit /\ h.position_qty = s.position_qty
        /\ h.cycle_cash_remaining = s.cycle_cash_remaining
        /\ h.tranche_usdt = s.tranche_usdt /\ h.tranches_used = s.tranches_used
        /\ h.step_target_usdt = s.step_target_usdt
        /\ h.step_filled_usdt = s.step_filled_usdt
    BY DEF Halted, State
  <1> QED
    BY <1>1, SameMoney

\* While the process is down the row is what there is, and it knows of all
\* orders.
LEMMA DownFacts ==
    ASSUME NInv, pc = "down"
    PROVE  /\ Paced(disk, orders)
           /\ ~dirty => /\ Reserved /\ Tracks(disk, orders)
                        /\ IF disk = NoState THEN base = 0 ELSE Balanced(disk, absorbed["disk"])
  BY NInvFacts DEF PaceInv, BooksInv, WorkBooked, CopiesBooked, Known

LEMMA BootNInv ==
    ASSUME NInv, HInv', BootStep
    PROVE  NInv'
  <1>1. ExchangeTypeOK /\ Good(st) /\ Good(disk) /\ st \in State /\ disk \in State
    BY NInvFacts DEF Good, Sound
  <1>2. /\ UNCHANGED <<mem, disk, exchangeVars, unaware>>
        /\ pc' \notin {"idle", "down", "newcycle"}
        /\ UNCHANGED absorbed \/ TakeCash \/ Carry("disk", {"st"})
    BY DEF BootStep, BootFresh, BootFetchOrder, BootFetchFails, BootCheckBalance, Goto,
           historyVars
  <1>3. ASSUME BootFresh PROVE NInv'
    <2> DEFINE c == start_cycle(free, 1)
    <2>1. /\ pc = "down" /\ disk = NoState /\ dirty' = dirty /\ st' \in {Halted(c), c}
      BY <1>3 DEF BootFresh
    <2>2. free \in Nat
      BY <1>1 DEF ExchangeTypeOK
    <2>3. Paced(c, orders) /\ c \in State
      BY <2>2, StartCycleCovered, StartCycleSound DEF Paced, Ordered, Sound
    <2>4. ~dirty => Balanced(c, moved)
      <3> SUFFICES ASSUME ~dirty PROVE Balanced(c, moved)
        OBVIOUS
      <3>1. Reserved /\ Tracks(disk, orders) /\ base = 0
        BY <2>1, DownFacts
      <3>2. NoneOpen(orders)
        BY <2>1, <3>1, NothingTracked DEF NoState, start_cycle
      <3>3. usdt = free
        BY <3>1, <3>2 DEF Reserved
      <3>4. c.open_limit = NoLimit /\ c.position_qty = 0 /\ c.cycle_cash_remaining = free
        BY DEF start_cycle
      <3> QED
        BY <2>2, <3>1, <3>3, <3>4, NInvFacts DEF Balanced, Books, Unseen
    <2> HIDE DEF c
    <2>5. Paced(st', orders) /\ (~dirty => Books(st', orders, base, usdt, moved - moved))
      BY <2>1, <2>3, <2>4, HaltedMoney DEF Balanced
    <2>6. absorbed'["st"] = moved
      BY <1>3, NInvFacts DEF BootFresh, TakeCash, HistoryTypeOK
    <2> QED
      BY <1>2, <2>1, <2>5, <2>6, StillNInv
  <1>4. ASSUME BootFetchOrder PROVE NInv'
    <2>1. /\ pc = "down" /\ disk # NoState /\ st' = refresh_open_limit(disk)
          /\ dirty' = (dirty \/ RestForgotten(disk))
          /\ absorbed'["st"] = absorbed["disk"]
      BY <1>4, NInvFacts DEF BootFetchOrder, Carry, HistoryTypeOK, Copies
    <2>2. Paced(disk, orders) /\ (~dirty => Balanced(disk, absorbed["disk"]))
      BY <2>1, DownFacts
    <2>3. /\ Paced(st', orders)
          /\ ~dirty => Balanced(refresh_open_limit(disk), absorbed["disk"])
      BY <1>1, <2>1, <2>2, NInvFacts, RefreshPaced, UnseenInt, FoldedBooks
    <2> QED
      BY <1>2, <2>1, <2>3, StillNInv DEF Balanced
  <1>5. ASSUME BootFetchFails PROVE NInv'
    <2>1. /\ pc = "down" /\ disk # NoState /\ st' = Halted(disk) /\ dirty' = dirty
          /\ absorbed'["st"] = absorbed["disk"]
      BY <1>5, NInvFacts DEF BootFetchFails, Carry, HistoryTypeOK, Copies
    <2>2. /\ Paced(st', orders)
          /\ ~dirty => Books(st', orders, base, usdt, moved - absorbed["disk"])
      BY <1>1, <2>1, DownFacts, HaltedMoney DEF Balanced
    <2> QED
      BY <1>2, <2>1, <2>2, StillNInv
  <1>6. ASSUME BootCheckBalance PROVE NInv'
    <2>1. /\ pc = "boot_balance" /\ st' \in {st, Halted(st)} /\ dirty' = dirty
          /\ UNCHANGED absorbed
      BY <1>6 DEF BootCheckBalance, historyVars
    <2>2. /\ Paced(st, orders) => Paced(st', orders)
          /\ Balanced(st, absorbed["st"])
               => Books(st', orders, base, usdt, moved - absorbed["st"])
      BY <1>1, <2>1, HaltedMoney DEF Balanced
    <2> QED
      BY <1>2, <2>1, <2>2, IdleStep
  <1> QED
    BY <1>3, <1>4, <1>5, <1>6 DEF BootStep

-----------------------------------------------------------------------------
(* The theorems                                                            *)

LEMMA InitNInv == Init => NInv
  <1> SUFFICES ASSUME Init PROVE NInv
    OBVIOUS
  <1>1. TInv /\ HistoryTypeOK
    BY InitTracked DEF Init, HistoryTypeOK
  <1>2. PaceInv
    BY NoStatePaced DEF Init, PaceInv
  <1>3. BooksInv
    BY DEF Init, ExchangeInit, BooksInv, WorkBooked, CopiesBooked, Reserved, IsOpen,
           Booting
  <1> QED
    BY <1>1, <1>2, <1>3 DEF NInv, HInv

LEMMA NextNInv == NInv /\ [Next]_vars => NInv'
  <1> SUFFICES ASSUME NInv, [Next]_vars PROVE NInv'
    OBVIOUS
  <1>1. HInv'
    BY NextTracked, HistoryKept, NInvFacts DEF HInv
  <1>2. CASE PollStep
    <2>1. /\ UNCHANGED <<mem, disk>>
          /\ IF pc \in {"resplit", "newcycle"} THEN TakeCash ELSE UNCHANGED absorbed
      BY <1>2 DEF PollStep
    <2>2. CASE Resplit(Booting)
      BY <1>1, <2>1, <2>2, ResplitNInv DEF Resplit
    <2>3. CASE StartNewCycle
      BY <1>1, <2>1, <2>3, StartNewCycleNInv DEF StartNewCycle
    <2>4. ASSUME Call \in Actions \cup {"topup", "decide"} PROVE UNCHANGED absorbed
      BY <2>1, <2>4 DEF Call, Actions
    <2>5. CASE \/ TopupDisabled(Booting) \/ TopupNothing(Booting)
               \/ TopupCandidate(Booting) \/ TopupYieldsToTakeProfit(Booting)
               \/ TopupConfirmed
      <3>1. pc = "topup"
        BY <2>5 DEF TopupDisabled, TopupNothing, TopupCandidate,
                    TopupYieldsToTakeProfit, TopupConfirmed
      <3> QED
        BY <1>1, <2>1, <2>5, <3>1, TopupNInv
    <2>6. CASE Decide
      BY <1>1, <2>1, <2>6, DecideNInv DEF Decide
    <2>7. ASSUME NEW swallowed \in BOOLEAN, CancelLimit(Booting, swallowed) PROVE NInv'
      BY <1>1, <2>1, <2>4, <2>7, CancelNInv DEF CancelLimit, Actions
    <2>8. CASE MarketBuy(Booting)
      BY <1>1, <2>1, <2>4, <2>8, MarketBuyNInv DEF MarketBuy, Actions
    <2>9. CASE NothingToBuy(Booting)
      BY <1>1, <2>1, <2>4, <2>9, NothingToBuyNInv DEF NothingToBuy, Actions
    <2>10. ASSUME NEW i \in FreshIds, PlaceLimitBuy(i) PROVE NInv'
      BY <1>1, <2>1, <2>4, <2>10, PlaceNInv DEF PlaceLimitBuy, Actions
    <2>11. CASE SellAll
      BY <1>1, <2>1, <2>4, <2>11, SellAllNInv DEF SellAll, Actions
    <2> QED
      BY <1>2, <2>2, <2>3, <2>5, <2>6, <2>7, <2>8, <2>9, <2>10, <2>11 DEF PollStep
  <1>3. CASE ToggleKill \/ UNCHANGED vars
    <2>1. /\ UNCHANGED <<orders, usdt, free, base, moved, st, pc, mem, disk>>
          /\ UNCHANGED <<unaware, dirty, absorbed>>
      BY <1>3 DEF ToggleKill, vars, pollVars, exchangeVars, historyVars
    <2>2. PaceInv'
      BY <2>1 DEF NInv, PaceInv
    <2>3. WorkBooked => WorkBooked'
      BY <2>1, SameReserved DEF WorkBooked, Balanced
    <2>4. CopiesBooked => CopiesBooked'
      BY <2>1 DEF CopiesBooked, Balanced, Booting
    <2> QED
      BY <1>1, <2>1, <2>2, <2>3, <2>4 DEF NInv, BooksInv
  <1> QED
    BY <1>1, <1>2, <1>3, BeginPollNInv, FailureNInv, SaveNInv, SaveFailsNInv, StopNInv,
       CrashNInv, BootNInv, VenueNInv, TimeNInv
    DEF Next

THEOREM BooksInvariance == Spec => []NInv
  BY InitNInv, NextNInv, PTL DEF Spec

\* Unless an order was lost, the position and what the known order has filled
\* beyond it add up to the base balance at every moment: each fill is booked
\* exactly once, whichever of polls, cancels, discarded polls, crashes and
\* boots meets it first.
THEOREM PositionIsBase == Spec => []BaseBooks
  <1>1. NInv => BaseBooks
    <2> SUFFICES ASSUME NInv, ~dirty, pc # "newcycle"
                 PROVE  base = Known.position_qty + Unfolded
      BY DEF BaseBooks
    <2>1. CASE pc = "down"
      <3>1. CASE disk = NoState
        <4>1. Unfolded = 0 /\ Known.position_qty = 0
          BY <2>1, <3>1 DEF Unfolded, Unseen, Known, NoState, start_cycle
        <4> QED
          BY <2>1, <3>1, <4>1, DownFacts
      <3>2. CASE disk # NoState
        BY <2>1, <3>2, DownFacts DEF Unfolded, Known, Balanced, Books
      <3> QED
        BY <3>1, <3>2
    <2>2. CASE pc # "down"
      BY <2>2, PollFacts DEF Unfolded, Known, Balanced, Books
    <2> QED
      BY <2>1, <2>2
  <1> QED
    BY <1>1, BooksInvariance, PTL

\* Likewise the cash of the cycle is the USDT at the venue, after any number of
\* deposits and withdrawals: they differ by the transfers since the known state
\* last read its cash from the account, each of them once.  A sale, a new cycle
\* and a re-split take over exactly what is there, and a poll that is discarded
\* gives back the transfers it had taken.
THEOREM CashIsUsdt == Spec => []CashBooks
  <1>1. NInv => CashBooks
    <2> SUFFICES ASSUME NInv, ~dirty, pc # "newcycle", Known # NoState
                 PROVE  usdt = Known.cycle_cash_remaining - Unfolded + Unabsorbed
      BY DEF CashBooks
    <2>1. CASE pc = "down"
      BY <2>1, DownFacts DEF Unfolded, Unabsorbed, Known, Balanced, Books
    <2>2. CASE pc # "down"
      BY <2>2, PollFacts DEF Unfolded, Unabsorbed, Known, Balanced, Books
    <2> QED
      BY <2>1, <2>2
  <1> QED
    BY <1>1, BooksInvariance, PTL

\* In every copy the cash of the cycle covers the rest of the step in progress
\* and every tranche that is still to come, whatever failed, up to one overshoot
\* for every completed step: the fee of its limit buy, or the fee and rounding
\* of its market buy.
THEOREM CashCoversTheTranches == Spec => []TranchesAreCovered
  <1>1. NInv => TranchesAreCovered
    BY DEF NInv, PaceInv, Paced, TranchesAreCovered
  <1> QED
    BY <1>1, BooksInvariance, PTL
=============================================================================
