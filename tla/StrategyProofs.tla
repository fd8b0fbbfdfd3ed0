--------------------------- MODULE StrategyProofs ---------------------------
(***************************************************************************)
(* Every reducer of Strategy keeps the type and the soundness of a State.  *)
(* Nothing here depends on the venue: these are the lemmas on which the    *)
(* invariance proofs of BotProofs rest.                                    *)
(***************************************************************************)
EXTENDS Strategy, TLAPS

\* A State of the right type that is sound.
Sound(s) == s \in State /\ StateOK(s)

\* A tranche of a non-negative amount is non-negative and no larger than it.
LEMMA TrancheBounds ==
    ASSUME NEW cash \in Int
    PROVE  /\ compute_tranche(cash) \in Int
           /\ cash >= 0 => compute_tranche(cash) \in Nat /\ compute_tranche(cash) <= cash
  <1>1. N \in Nat /\ N > 0
    BY ParamsAssumption
  <1>2. cash \div N \in Int
    BY <1>1
  <1>3. cash >= 0 => cash \div N >= 0 /\ cash \div N <= cash
    BY <1>1, SMTT(30)
  <1> QED
    BY <1>2, <1>3 DEF compute_tranche

\* start_cycle returns a sound state: its bootstrap step is one tranche of the
\* cash, with all N tranches still to go.
LEMMA StartCycleSound ==
    ASSUME NEW cash \in Nat, NEW c \in Nat
    PROVE  Sound(start_cycle(cash, c))
  <1>1. compute_tranche(cash) \in Nat /\ compute_tranche(cash) <= cash
    BY TrancheBounds
  <1>2. N > 0
    BY ParamsAssumption
  <1>3. start_cycle(cash, c) \in State
    BY <1>1 DEF start_cycle, State, Status, Timer, OpenLimit, NoLimit
  <1>4. StateOK(start_cycle(cash, c))
    BY <1>1, <1>2
    DEF start_cycle, StateOK, StepOK, FundedOK, TimerOK, LimitOK, ExhaustedOK,
        Remaining, NoLimit
  <1> QED
    BY <1>3, <1>4 DEF Sound

\* Completing a step returns a State.
LEMMA CompleteStepType ==
    ASSUME NEW s \in State
    PROVE  CompleteStep(s) \in State
  <1>1. ASSUME NEW v \in Status, NEW u \in Nat, NEW t \in Timer, NEW o \in OpenLimit
        PROVE  [s EXCEPT !.ref = TRUE, !.last_fill_time = t, !.tranches_used = u,
                         !.step_target_usdt = 0, !.step_filled_usdt = 0,
                         !.open_limit = o, !.status = v] \in State
    BY DEF State
  <1>2. s.tranches_used + 1 \in Nat
    BY DEF State
  <1>3. NoLimit \in OpenLimit /\ "recent" \in Timer
        /\ "CASH_EXHAUSTED" \in Status /\ "RUNNING" \in Status
    BY DEF NoLimit, OpenLimit, Timer, Status
  <1> QED
    BY <1>1, <1>2, <1>3 DEF CompleteStep

\* Booking a fill on a step in progress keeps a sound state sound, apart from
\* the limit that has still to be told what was seen of it.
LEMMA BuyFillSound ==
    ASSUME NEW s \in State, StepOK(s), FundedOK(s), TimerOK(s), ExhaustedOK(s),
           s.step_target_usdt > 0,
           NEW cost \in Nat \ {0}
    PROVE  LET b == apply_buy_fill(s, cost)
           IN  /\ b \in State
               /\ StepOK(b) /\ FundedOK(b) /\ TimerOK(b) /\ ExhaustedOK(b)
               /\ \/ b.open_limit = NoLimit /\ b.step_target_usdt = 0
                  \/ /\ b.open_limit = s.open_limit
                     /\ b.step_target_usdt = s.step_target_usdt
                     /\ b.step_filled_usdt = s.step_filled_usdt + cost
                     /\ b.ref = s.ref
  <1> DEFINE k == BookFill(s, cost)
             b == apply_buy_fill(s, cost)
  <1>0. /\ s.position_qty + cost \in Nat
        /\ s.cycle_cash_remaining - cost \in Int
        /\ s.step_filled_usdt + cost \in Nat
    BY DEF State
  <1>1. k \in State
    BY <1>0 DEF BookFill, State
  <1>2. /\ k.step_target_usdt = s.step_target_usdt
        /\ k.step_filled_usdt = s.step_filled_usdt + cost
        /\ k.cycle_cash_remaining = s.cycle_cash_remaining - cost
        /\ k.tranches_used = s.tranches_used
        /\ k.ref = s.ref
        /\ k.last_fill_time = s.last_fill_time
        /\ k.status = s.status
        /\ k.open_limit = s.open_limit
    BY DEF BookFill, State
  <1>3. MinNotional \in Nat \ {0} /\ N \in Nat \ {0}
    BY ParamsAssumption
  <1>4. CASE Remaining(k) < MinNotional
    <2>1. b = CompleteStep(k)
      BY <1>4 DEF apply_buy_fill
    <2>2. b \in State
      BY <1>1, <2>1, CompleteStepType
    <2>3. /\ b.step_target_usdt = 0
          /\ b.open_limit = NoLimit
          /\ b.ref = TRUE
          /\ b.last_fill_time = "recent"
      BY <1>1, <2>1 DEF CompleteStep, State
    <2> QED
      BY <2>2, <2>3 DEF StepOK, FundedOK, TimerOK, ExhaustedOK
  <1>5. CASE ~(Remaining(k) < MinNotional)
    <2>1. b = k
      BY <1>5 DEF apply_buy_fill
    <2>2. Remaining(k) = Remaining(s) - cost /\ Remaining(k) >= MinNotional
      BY <1>1, <1>2, <1>3, <1>5 DEF Remaining, State
    <2>3. StepOK(k)
      BY <1>2, <1>3, <2>2 DEF StepOK, Remaining, State
    <2>4. FundedOK(k)
      BY <1>2, <2>2 DEF FundedOK, Remaining, State
    <2>5. TimerOK(k) /\ ExhaustedOK(k)
      BY <1>2 DEF TimerOK, ExhaustedOK
    <2> QED
      BY <1>1, <1>2, <2>1, <2>3, <2>4, <2>5
  <1> QED
    BY <1>4, <1>5

\* Folding what the known limit order filled returns a sound state.  The state
\* either still knows the order, seen as far as it is filled, or has completed
\* the step.
LEMMA FoldSound ==
    ASSUME NEW s, Sound(s), NEW filled \in Nat
    PROVE  Sound(fold_order_progress(s, s.open_limit.id, filled))
  <1> DEFINE d == filled - s.open_limit.filled_quote_seen
             f == fold_order_progress(s, s.open_limit.id, filled)
  <1>1. CASE s.open_limit = NoLimit \/ d <= 0
    BY <1>1 DEF fold_order_progress
  <1>2. CASE s.open_limit # NoLimit /\ ~(d <= 0)
    <2> DEFINE b == apply_buy_fill(s, d)
    <2>1. /\ s \in State /\ StepOK(s) /\ FundedOK(s) /\ TimerOK(s) /\ ExhaustedOK(s)
          /\ s.step_target_usdt > 0
          /\ s.step_target_usdt = s.open_limit.usdt
          /\ s.step_filled_usdt = s.open_limit.filled_quote_seen
          /\ s.ref
      BY <1>2 DEF Sound, StateOK, LimitOK
    <2>2. d \in Nat \ {0}
      BY <1>2, <2>1 DEF State
    <2>3. /\ b \in State
          /\ StepOK(b) /\ FundedOK(b) /\ TimerOK(b) /\ ExhaustedOK(b)
          /\ \/ b.open_limit = NoLimit /\ b.step_target_usdt = 0
             \/ /\ b.open_limit = s.open_limit
                /\ b.step_target_usdt = s.step_target_usdt
                /\ b.step_filled_usdt = s.step_filled_usdt + d
                /\ b.ref = s.ref
      BY <2>1, <2>2, BuyFillSound
    <2>4. f = update_limit_seen(b, filled)
      BY <1>2 DEF fold_order_progress
    <2> HIDE DEF b, f
    <2>5. ASSUME b.open_limit = NoLimit PROVE Sound(f)
      BY <2>3, <2>4, <2>5
      DEF update_limit_seen, Sound, StateOK, LimitOK
    <2>6. ASSUME b.open_limit # NoLimit PROVE Sound(f)
      <3>1. f = [b EXCEPT !.open_limit.filled_quote_seen = filled]
        BY <2>4, <2>6 DEF update_limit_seen
      <3>2. f \in State
        BY <2>3, <3>1 DEF State, OpenLimit
      <3>3. /\ f.open_limit.usdt = b.open_limit.usdt
            /\ f.open_limit.filled_quote_seen = filled
            /\ f.step_target_usdt = b.step_target_usdt
            /\ f.step_filled_usdt = b.step_filled_usdt
            /\ f.cycle_cash_remaining = b.cycle_cash_remaining
            /\ f.tranches_used = b.tranches_used
            /\ f.ref = b.ref
            /\ f.last_fill_time = b.last_fill_time
            /\ f.status = b.status
        BY <2>3, <3>1 DEF State, OpenLimit
      <3>4. b.step_filled_usdt = filled
        <4>1. s.open_limit.filled_quote_seen \in Nat
          BY <2>1 DEF State, OpenLimit
        <4>2. b.step_filled_usdt = s.open_limit.filled_quote_seen + d
          BY <2>1, <2>3, <2>6
        <4> QED
          BY <4>1, <4>2
      <3>5. LimitOK(f)
        BY <2>1, <2>3, <2>6, <3>3, <3>4 DEF LimitOK
      <3>6. StepOK(f) /\ FundedOK(f) /\ TimerOK(f) /\ ExhaustedOK(f)
        BY <2>3, <3>3 DEF StepOK, FundedOK, TimerOK, ExhaustedOK, Remaining
      <3> QED
        BY <3>2, <3>5, <3>6 DEF Sound, StateOK
    <2> QED
      BY <2>5, <2>6 DEF f
  <1> QED
    BY <1>1, <1>2

\* A fold forgets the order or keeps its id.
LEMMA FoldKeepsId ==
    ASSUME NEW s, Sound(s), NEW filled \in Nat
    PROVE  LET f == fold_order_progress(s, s.open_limit.id, filled)
           IN  f.open_limit = NoLimit \/ f.open_limit.id = s.open_limit.id
  <1> DEFINE d == filled - s.open_limit.filled_quote_seen
             b == apply_buy_fill(s, d)
             f == fold_order_progress(s, s.open_limit.id, filled)
  <1>1. CASE s.open_limit = NoLimit \/ d <= 0
    BY <1>1 DEF fold_order_progress
  <1>2. CASE s.open_limit # NoLimit /\ ~(d <= 0)
    <2>1. f = update_limit_seen(b, filled)
      BY <1>2 DEF fold_order_progress
    <2>2. /\ s \in State /\ StepOK(s) /\ FundedOK(s) /\ TimerOK(s) /\ ExhaustedOK(s)
          /\ s.step_target_usdt > 0
      BY <1>2 DEF Sound, StateOK, LimitOK
    <2>3. d \in Nat \ {0}
      BY <1>2, <2>2 DEF State, OpenLimit
    <2>4. b \in State /\ (b.open_limit = NoLimit \/ b.open_limit = s.open_limit)
      BY <2>2, <2>3, BuyFillSound
    <2> HIDE DEF b, f
    <2>5. f.open_limit = NoLimit \/ f.open_limit.id = s.open_limit.id
      BY <2>1, <2>4 DEF update_limit_seen, State, OpenLimit
    <2> QED
      BY <2>5 DEF f
  <1> QED
    BY <1>1, <1>2

\* Forgetting the limit order keeps the step, to be completed by the fallback.
LEMMA CanceledSound ==
    ASSUME NEW s, Sound(s)
    PROVE  Sound(on_limit_canceled(s)) /\ on_limit_canceled(s).open_limit = NoLimit
  <1> DEFINE c == on_limit_canceled(s)
  <1>1. s \in State /\ StateOK(s)
    BY DEF Sound
  <1>2. NoLimit \in OpenLimit
    BY DEF NoLimit, OpenLimit
  <1>3. c \in State
    BY <1>1, <1>2 DEF on_limit_canceled, State
  <1>4. /\ c.open_limit = NoLimit
        /\ c.step_target_usdt = s.step_target_usdt
        /\ c.step_filled_usdt = s.step_filled_usdt
        /\ c.cycle_cash_remaining = s.cycle_cash_remaining
        /\ c.tranches_used = s.tranches_used
        /\ c.ref = s.ref
        /\ c.last_fill_time = s.last_fill_time
        /\ c.status = s.status
    BY <1>1 DEF on_limit_canceled, State
  <1> HIDE DEF c
  <1>5. StateOK(c)
    BY <1>1, <1>4
    DEF StateOK, StepOK, FundedOK, TimerOK, LimitOK, ExhaustedOK, Remaining
  <1> QED
    BY <1>3, <1>4, <1>5 DEF Sound, c

\* A limit order placed when the chase is due is a step of at least a minimum
\* order, with a tranche left and the cash for it.
LEMMA PlacedSound ==
    ASSUME NEW s, Sound(s), ChaseDue(s), NEW i \in Nat
    PROVE  /\ next_usdt(s) \in Nat
           /\ Sound(on_limit_placed(s, [id |-> i, usdt |-> next_usdt(s),
                                        filled_quote_seen |-> 0]))
  <1> DEFINE u == next_usdt(s)
             ol == [id |-> i, usdt |-> u, filled_quote_seen |-> 0]
             p == on_limit_placed(s, ol)
  <1>1. s \in State /\ StateOK(s)
    BY DEF Sound
  <1>2. MinNotional \in Nat \ {0}
    BY ParamsAssumption
  <1>3. /\ u \in Nat /\ u >= MinNotional /\ u <= s.cycle_cash_remaining
        /\ s.tranches_used < N
        /\ s.ref
        /\ s.status = "RUNNING"
    BY <1>1, <1>2 DEF ChaseDue, can_buy, next_usdt, Smaller, State
  <1> HIDE DEF u
  <1>4. ol \in OpenLimit
    BY <1>3 DEF OpenLimit
  <1>5. /\ ol.usdt = u
        /\ ol.filled_quote_seen = 0
    OBVIOUS
  <1> HIDE DEF ol
  <1>6. p \in State
    BY <1>1, <1>3, <1>4, <1>5 DEF on_limit_placed, State
  <1>7. /\ p.open_limit = ol
        /\ p.step_target_usdt = u
        /\ p.step_filled_usdt = 0
        /\ p.cycle_cash_remaining = s.cycle_cash_remaining
        /\ p.tranches_used = s.tranches_used
        /\ p.ref = s.ref
        /\ p.last_fill_time = s.last_fill_time
        /\ p.status = s.status
    BY <1>1, <1>5 DEF on_limit_placed, State
  <1> HIDE DEF p
  <1>8. StateOK(p)
    BY <1>1, <1>2, <1>3, <1>5, <1>7
    DEF StateOK, StepOK, FundedOK, TimerOK, LimitOK, ExhaustedOK, Remaining
  <1> QED
    BY <1>3, <1>6, <1>8 DEF Sound, u, ol, p

\* The fields a re-split replaces keep their types.
LEMMA SplitType ==
    ASSUME NEW s \in State, NEW e \in Status, NEW t \in Int,
           NEW available \in Int, NEW used \in Nat, NEW delta \in Int
    PROVE  [s EXCEPT !.status = e, !.tranche_usdt = t, !.tranches_used = used,
                     !.cycle_cash_remaining = available,
                     !.step_target_usdt = used, !.step_filled_usdt = used,
                     !.pending_topup_delta = delta] \in State
  BY DEF State

\* The re-split of a state without a limit order returns a sound state, with
\* or without the immediate buy of one tranche.
LEMMA TopupSound ==
    ASSUME NEW s, Sound(s), s.open_limit = NoLimit, NEW available \in Int
    PROVE  LET split == apply_topup(s, available)
           IN  /\ Sound(split) /\ split.open_limit = NoLimit
               /\ can_buy(split) =>
                    LET buys == [split EXCEPT !.step_target_usdt = next_usdt(split)]
                    IN  Sound(buys) /\ buys.open_limit = NoLimit
  <1> DEFINE t == compute_tranche(available)
             e == IF available < MinNotional /\ s.position_qty > 0
                  THEN "CASH_EXHAUSTED" ELSE "RUNNING"
             split == apply_topup(s, available)
             u == next_usdt(split)
             buys == [split EXCEPT !.step_target_usdt = u]
  <1>1. s \in State /\ StateOK(s)
    BY DEF Sound
  <1>2. t \in Int /\ e \in Status
    BY TrancheBounds DEF Status
  <1>3. MinNotional \in Nat \ {0} /\ N \in Nat \ {0}
    BY ParamsAssumption
  <1>4. e = "CASH_EXHAUSTED" => available < MinNotional
    OBVIOUS
  <1>5. split = [s EXCEPT !.status = e, !.tranche_usdt = t, !.tranches_used = 0,
                          !.cycle_cash_remaining = available,
                          !.step_target_usdt = 0, !.step_filled_usdt = 0,
                          !.pending_topup_delta = 0]
    BY DEF apply_topup
  <1> HIDE DEF t, e, split
  <1>6. split \in State
    <2>1. 0 \in Nat /\ 0 \in Int
      OBVIOUS
    <2>2. [s EXCEPT !.status = e, !.tranche_usdt = t, !.tranches_used = 0,
                    !.cycle_cash_remaining = available,
                    !.step_target_usdt = 0, !.step_filled_usdt = 0,
                    !.pending_topup_delta = 0] \in State
      BY <1>1, <1>2, <2>1, SplitType, Zenon
    <2> QED
      BY <1>5, <2>2
  <1>7. /\ split.open_limit = NoLimit
        /\ split.step_target_usdt = 0
        /\ split.step_filled_usdt = 0
        /\ split.cycle_cash_remaining = available
        /\ split.tranches_used = 0
        /\ split.ref = s.ref
        /\ split.last_fill_time = s.last_fill_time
        /\ split.status = e
    BY <1>1, <1>2, <1>5 DEF State
  <1>8. StateOK(split)
    BY <1>1, <1>7
    DEF StateOK, StepOK, FundedOK, TimerOK, LimitOK, ExhaustedOK, Remaining
  <1>9. ASSUME can_buy(split) PROVE Sound(buys) /\ buys.open_limit = NoLimit
    <2>1. u \in Nat /\ u >= MinNotional /\ u <= available
      BY <1>3, <1>6, <1>7, <1>9 DEF can_buy, next_usdt, Smaller, State
    <2> HIDE DEF u
    <2>2. buys \in State
      BY <1>6, <2>1 DEF State
    <2>3. /\ buys.open_limit = NoLimit
          /\ buys.step_target_usdt = u
          /\ buys.step_filled_usdt = 0
          /\ buys.cycle_cash_remaining = available
          /\ buys.tranches_used = 0
          /\ buys.ref = s.ref
          /\ buys.last_fill_time = s.last_fill_time
          /\ buys.status = e
      BY <1>6, <1>7, <2>1 DEF State
    <2> HIDE DEF buys
    <2>4. StateOK(buys)
      <3>1. e # "CASH_EXHAUSTED"
        BY <1>3, <1>4, <2>1
      <3> QED
        BY <1>1, <1>3, <2>1, <2>3, <3>1
        DEF StateOK, StepOK, FundedOK, TimerOK, LimitOK, ExhaustedOK, Remaining
    <2> QED
      BY <2>2, <2>3, <2>4 DEF Sound
  <1> QED
    BY <1>6, <1>7, <1>8, <1>9 DEF Sound, split, buys, u
=============================================================================
