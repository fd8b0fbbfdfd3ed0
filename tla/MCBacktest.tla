----------------------------- MODULE MCBacktest -----------------------------
(***************************************************************************)
(* The instance of Backtest for TLC.                                       *)
(***************************************************************************)
EXTENDS Backtest

\* A calm day and one that moves, in four days without and with a gap, of which
\* the first is calm, or in too few for an ATR.
Calm == [high |-> 110, low |-> 95, close |-> 100]
Wild == [high |-> 140, low |-> 90, close |-> 130]

MCDays == {<<1>>, <<1, 2, 3, 4>>, <<1, 3, 4, 5>>}
MCDates == {4, 5}

MCDailySeries ==
    UNION {{[i \in DOMAIN days |->
                [date |-> days[i], high |-> kinds[i].high, low |-> kinds[i].low,
                 close |-> kinds[i].close]] :
                kinds \in {k \in [DOMAIN days -> {Calm, Wild}] : k[1] = Calm}} :
           days \in MCDays}

\* The smaller seed cannot pay for one order.
MCSeeds == {600, 9000}

MCCloses == {80, 100, 140}
MCWicks == {0, 40}

\* The width of the chase stays below the whole price, and a lot costs less
\* than the minimum order, at every price of the instance.
ASSUME InstanceIsTame ==
    /\ \A daily0 \in MCDailySeries : \A day \in MCDates : \A p \in MCCloses :
          LET x == compute_x(AtrOf(daily0, day), p) IN x.num < x.den
    /\ \A p \in MCCloses : 2 * p < MinNotional

\* The hypotheses of TakeProfitGains, at the tranche of the larger seed.
ASSUME InstanceCovers ==
    LET least == compute_tranche(9000)
    IN  /\ \A p \in MCCloses : Covers(least, p)
        /\ \A seed \in MCSeeds : Reaches(seed, least)
=============================================================================
