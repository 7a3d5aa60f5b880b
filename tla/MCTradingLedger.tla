---------------------------- MODULE MCTradingLedger ----------------------------
(* Instances of TradingLedger for TLC. A run explores three families of    *)
(* behaviours: "mixed", every operation over few orders; "commands",       *)
(* deposits, withdrawals and buy and sell commands of overlapping          *)
(* requests; "serial", the same with one request at a time.                *)
EXTENDS TradingLedger, FiniteSets, TLC

CONSTANT MixedOrders  \* orders of a mixed behaviour

VARIABLE mode

MCSymmetry == Permutations(OrderIds) \cup Permutations(Threads)

MCInit == Init /\ mode \in {"mixed", "commands", "serial"}

Mixed == \E t \in Threads : Start(t)
CashAndCommands == \E t \in Threads : Cash(t) \/ Commands(t)

MCNext ==
  /\ UNCHANGED mode
  /\ \/ Crash
     \/ \E t \in Threads : Step(t)
     \/ mode = "mixed" /\ Mixed
     \/ mode = "commands" /\ CashAndCommands
     \/ mode = "serial" /\ AtRest /\ CashAndCommands

MCSpec == MCInit /\ [][MCNext]_<<vars, mode>>

\* A mixed behaviour has few orders and at most one payment before its trades.
MCConstraint ==
  mode = "mixed" => Cardinality(Rows \cup purged) <= MixedOrders /\ Len(flows) <= Len(trades) + 1

\* One request at a time: the balance check before a withdrawal and before a
\* purchase keeps the cash of an account from being overdrawn; and, if the
\* process does not crash, a position is what the trades of its account and
\* symbol add up to (_cash_balance, _apply_trade_position_change).
SerialLedger ==
  mode = "serial" =>
    /\ CashCovered
    /\ crashes = 0 => PositionsFollowTrades
=============================================================================
