------------------------------- MODULE MCBot -------------------------------
(***************************************************************************)
(* Instances of Bot for TLC.                                               *)
(***************************************************************************)
EXTENDS BotClaims

\* The process dies anywhere, reads and saves raise, orders expire, and the
\* operator moves USDT and the KILL file.
CrashEvents == {"crash", "read_error", "save_error", "expire", "deposit",
                "withdraw", "kill"}

\* For liveness: the process is not stopped from outside.
DepositEvents == {"expire", "deposit"}
WithdrawEvents == {"withdraw"}

\* For the claims that fail: no more than each counterexample needs.
NoEvents == {}
ReadEvents == {"read_error"}
KillEvents == {"kill", "deposit"}
RestartEvents == {"stop", "withdraw"}

\* Everything that may go wrong.
AllEvents == {"read_error", "order_error", "order_lost", "cancel_error",
              "save_error", "crash", "expire", "stop", "deposit", "withdraw"}

\* Exploration ends where an order is lost: past that point the books are void.
UntilOrderLost == ~dirty

\* An order costs what was asked for, or also a fee on top of it; a market buy may
\* fall short of it by as much as makes a second buy necessary.
Exact == {0}
WithFee == {0, 1}
Undershoot == {-2, 0}
=============================================================================
