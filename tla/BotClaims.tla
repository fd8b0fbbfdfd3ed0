----------------------------- MODULE BotClaims -----------------------------
(***************************************************************************)
(* What comments and the README say of the bot and the code does not do.   *)
(* Each of these is refuted by a run; the README of this project tells the *)
(* story of each counterexample.  TransfersAbsorbed of Bot is the sixth.   *)
(***************************************************************************)
EXTENDS Bot

\* strategy.py:305, a step is complete when "nothing more can be bought with
\* the rest": a bot that remembers no limit order has none live.
NothingLiveBehindStep == Known.open_limit = NoLimit => OpenOrders = {}

\* main.py:182, "fail-safe: when uncertain, stop and notify": a bot that does
\* not know what it ordered does not go on ordering.
StopsWhenUncertain == dirty => Call \notin Actions

\* README, kill switch: with the KILL file in place the bot stops at the next
\* poll, so it neither buys nor cancels nor sells.
KillStopsTrading ==
    kill => Call \notin Actions

\* strategy.py:205-206, while ref is None the rest of the step is bought to
\* the end, which closes the gap where the bot would stop without ref and
\* timer: between polls a running bot without a reference has a step to buy.
BootstrapNeverStuck ==
    pc = "idle" /\ st.status = "RUNNING" /\ ~st.ref => Remaining(st) > 0

\* executor.py:127, the bot's own fills are kept apart from transfers, with no
\* false detection: without a transfer nothing is split anew.
ResplitNeedsTransfer == flows = 0 => pc \notin {"topup_cancel", "resplit"}
=============================================================================
