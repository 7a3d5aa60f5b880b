------------------------------- MODULE OrderBook -------------------------------
(***************************************************************************)
(* What clients of trading_account rely on for an order: its life. It is   *)
(* submitted once, amended only while it is pending, then filled or        *)
(* cancelled; a cancelled order may be deleted, for ever; a filled one is  *)
(* executed by one trade of its account, symbol and side, which moves its  *)
(* cash once. TradingLedger implements it.                                 *)
(***************************************************************************)
EXTENDS Integers

CONSTANTS Accounts, Symbols, OrderIds, Quantities, Prices, NoTerms

VARIABLES
  stage,  \* where each order is in its life
  terms,  \* what each order says
  trade,  \* what the trade that executes it says
  cash    \* the cash that trade has moved

book == <<stage, terms, trade, cash>>

Terms == [account: Accounts, symbol: Symbols, side: {"BUY", "SELL"}, quantity: Quantities,
          price: Prices]

\* A purchase takes cash, a sale brings it.
Moved(tr) == IF tr.side = "BUY" THEN -(tr.quantity * tr.price) ELSE tr.quantity * tr.price

Init ==
  /\ stage = [o \in OrderIds |-> "new"]
  /\ terms = [o \in OrderIds |-> NoTerms]
  /\ trade = [o \in OrderIds |-> NoTerms]
  /\ cash = [o \in OrderIds |-> 0]

Turn(o, from, to) == stage[o] = from /\ stage' = [stage EXCEPT ![o] = to]

Submit(o) ==
  /\ Turn(o, "new", "pending")
  /\ \E tr \in Terms : terms' = [terms EXCEPT ![o] = tr]
  /\ UNCHANGED <<trade, cash>>

Amend(o) ==
  /\ Turn(o, "pending", "pending")
  /\ \E q \in Quantities, p \in Prices :
       terms' = [terms EXCEPT ![o] = [@ EXCEPT !.quantity = q, !.price = p]]
  /\ UNCHANGED <<trade, cash>>

Close(o) ==
  /\ Turn(o, "pending", "filled") \/ Turn(o, "pending", "cancelled")
  /\ UNCHANGED <<terms, trade, cash>>

\* The quantity and price of a command's trade are those of the command, which
\* the order may have been amended away from.
Execute(o) ==
  /\ Turn(o, "filled", "executed")
  /\ \E q \in Quantities, p \in Prices :
       trade' = [trade EXCEPT ![o] = [terms[o] EXCEPT !.quantity = q, !.price = p]]
  /\ UNCHANGED <<terms, cash>>

Settle(o) ==
  /\ Turn(o, "executed", "settled")
  /\ cash' = [cash EXCEPT ![o] = Moved(trade[o])]
  /\ UNCHANGED <<terms, trade>>

Delete(o) ==
  /\ Turn(o, "cancelled", "deleted")
  /\ terms' = [terms EXCEPT ![o] = NoTerms]
  /\ UNCHANGED <<trade, cash>>

Next ==
  \E o \in OrderIds :
    Submit(o) \/ Amend(o) \/ Close(o) \/ Execute(o) \/ Settle(o) \/ Delete(o)

Spec == Init /\ [][Next]_book
=============================================================================
