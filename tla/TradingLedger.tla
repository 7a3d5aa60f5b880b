----------------------------- MODULE TradingLedger -----------------------------
(***************************************************************************)
(* The ledger of trading_account: accounts, orders, trades, cash flows and *)
(* positions, as TradingAccountService keeps them over PostgreSQL. Each    *)
(* repository call is a transaction of its own (the service's unit of work *)
(* does nothing over that repository), so a request is a sequence of steps *)
(* that the requests of other threads and a crash interleave with.         *)
(***************************************************************************)
EXTENDS Integers, Sequences, SequencesExt

CONSTANTS
  Accounts,     \* account ids
  Symbols,      \* traded symbols
  OrderIds,     \* uuid4 values handed to new orders, each used once
  Quantities,   \* quantities of orders
  Prices,       \* prices of orders
  Amounts,      \* amounts of deposits and withdrawals, and initial capitals
  Keys,         \* (administrator, idempotency key) pairs of the batch operations
  Threads,      \* request threads
  NoKey,        \* a batch operation without idempotency key
  NoOrder,      \* no order
  NoAccount,    \* no account
  NoSymbol,     \* no symbol
  MaxBatch,     \* bound: trades of one batch execution
  MaxPayments,  \* bound: cash flows after which no deposit or withdrawal starts
  MaxCrash      \* bound: crashes of the server process

ASSUME AmountsAssumption ==
  /\ Quantities \subseteq Nat \ {0}
  /\ Prices \subseteq Nat \ {0}
  /\ Amounts \subseteq Nat \ {0}
ASSUME BoundsAssumption == MaxBatch \in Nat /\ MaxPayments \in Nat /\ MaxCrash \in Nat
ASSUME AbsentAssumption ==
  /\ NoKey \notin Keys
  /\ NoOrder \notin OrderIds
  /\ NoAccount \notin Accounts
  /\ NoSymbol \notin Symbols

VARIABLES
  accounts,   \* the accounts that exist
  orders,     \* order table: OrderIds -> row or NoOrder
  purged,     \* ids of the orders deleted from the table
  trades,     \* trade table, in the order of insertion
  flows,      \* cash flow table, in the order of insertion
  positions,  \* position table: quantity by account and symbol, 0 when there is no row
  records,    \* keys of finished batch operations, in the memory of the process
  thread,     \* the request each thread is in
  crashes     \* number of crashes so far

vars == <<accounts, orders, purged, trades, flows, positions, records, thread, crashes>>
tables == <<accounts, orders, purged, trades, flows, positions>>

Sides == {"BUY", "SELL"}
Order == [account: Accounts, symbol: Symbols, side: Sides, quantity: Quantities,
          price: Prices, status: {"pending", "filled", "cancelled"}]

\* What a trade says; order is the order it executes.
Trade == [account: Accounts, symbol: Symbols, side: Sides, quantity: Quantities,
          price: Prices, order: OrderIds]

\* A flow of a trade names it by its place in trades; other flows have trade 0.
CashFlow == [account: Accounts, amount: Int, trade: Nat]

ASSUME NoRowAssumption == NoOrder \notin Order

Rows == {o \in OrderIds : orders[o] # NoOrder}
InStatus(status) == {o \in Rows : orders[o].status = status}

\* Signed amount of a trade: a purchase takes cash, a sale brings it.
SignedAmount(tr) == IF tr.side = "BUY" THEN -(tr.quantity * tr.price) ELSE tr.quantity * tr.price

CashBalance(a) ==
  FoldSeq(LAMBDA f, sum : IF f.account = a THEN sum + f.amount ELSE sum, 0, flows)

-----------------------------------------------------------------------------
(* Requests. A thread is idle or at the next step of its request: job says *)
(* which code the step returns to.                                         *)

NoTrade == [account |-> NoAccount, symbol |-> NoSymbol, side |-> "BUY", quantity |-> 0,
            price |-> 0, order |-> NoOrder]

Idle == [at |-> "idle", job |-> "single", account |-> NoAccount, amount |-> 0,
         trade |-> NoTrade, number |-> 0, held |-> 0, todo |-> {}, more |-> 0, key |-> NoKey]

Request(t) == thread[t] = Idle
Goto(t, step) == thread' = [thread EXCEPT ![t] = step]
At(t, step) == thread[t].at = step

InsertOrder(o, a, s, side, q, p) ==
  /\ orders[o] = NoOrder
  /\ o \notin purged
  /\ orders' = [orders EXCEPT ![o] = [account |-> a, symbol |-> s, side |-> side,
                                      quantity |-> q, price |-> p, status |-> "pending"]]

\* Mutant: the update without the condition on the status
TransitionAnyway(o, from, to) == o \in Rows /\ orders' = [orders EXCEPT ![o].status = to]

\* The conditional UPDATE of transition_order_status when it finds its row.
Transition(o, from, to) ==
  /\ o \in InStatus(from)
  /\ orders' = [orders EXCEPT ![o].status = to]

\* transition_order_status that finds no such row
NoTransition(o, from) == o \notin InStatus(from)

TradeOf(o) == [account |-> orders[o].account, symbol |-> orders[o].symbol,
               side |-> orders[o].side, quantity |-> orders[o].quantity,
               price |-> orders[o].price, order |-> o]

-----------------------------------------------------------------------------
(* Accounts and cash                                                       *)

CreateAccount(t, a) ==
  /\ Request(t)
  /\ a \notin accounts
  /\ accounts' = accounts \cup {a}
  /\ \/ Goto(t, Idle)
     \/ \E capital \in Amounts : Goto(t, [Idle EXCEPT !.at = "deposit", !.account = a, !.amount = capital])
  /\ UNCHANGED <<orders, purged, trades, flows, positions, records, crashes>>

InsertFlow(a, amount, number) ==
  flows' = Append(flows, [account |-> a, amount |-> amount, trade |-> number])

Deposit(t, a, amount) ==
  /\ Request(t)
  /\ a \in accounts
  /\ Len(flows) < MaxPayments
  /\ InsertFlow(a, amount, 0)
  /\ UNCHANGED <<accounts, orders, purged, trades, positions, records, thread, crashes>>

DepositCapital(t) ==
  /\ At(t, "deposit")
  /\ InsertFlow(thread[t].account, thread[t].amount, 0)
  /\ Goto(t, Idle)
  /\ UNCHANGED <<accounts, orders, purged, trades, positions, records, crashes>>

Withdraw(t, a, amount) ==
  /\ Request(t)
  /\ a \in accounts
  /\ Len(flows) < MaxPayments
  /\ CashBalance(a) >= amount
  /\ Goto(t, [Idle EXCEPT !.at = "withdraw", !.account = a, !.amount = amount])
  /\ UNCHANGED <<tables, records, crashes>>

WithdrawSave(t) ==
  /\ At(t, "withdraw")
  /\ InsertFlow(thread[t].account, -thread[t].amount, 0)
  /\ Goto(t, Idle)
  /\ UNCHANGED <<accounts, orders, purged, trades, positions, records, crashes>>

-----------------------------------------------------------------------------
(* Orders of a user                                                        *)

SubmitOrder(t, o, a, s, side, q, p) ==
  /\ Request(t)
  /\ a \in accounts
  /\ InsertOrder(o, a, s, side, q, p)
  /\ UNCHANGED <<accounts, purged, trades, flows, positions, records, thread, crashes>>

\* Mutant: the update of any order
UpdateAny(t, o, q, p) ==
  /\ Request(t)
  /\ o \in Rows
  /\ orders' = [orders EXCEPT ![o].quantity = q, ![o].price = p]
  /\ UNCHANGED <<accounts, purged, trades, flows, positions, records, thread, crashes>>

UpdateOrder(t, o, q, p) ==
  /\ Request(t)
  /\ o \in InStatus("pending")
  /\ orders' = [orders EXCEPT ![o].quantity = q, ![o].price = p]
  /\ UNCHANGED <<accounts, purged, trades, flows, positions, records, thread, crashes>>

CancelOrder(t, o) ==
  /\ Request(t)
  /\ Transition(o, "pending", "cancelled")
  /\ UNCHANGED <<accounts, purged, trades, flows, positions, records, thread, crashes>>

\* delete_order reads the row, and cancels it if it still has the status it read.
DeleteOrder(t, o) ==
  /\ Request(t)
  /\ o \in InStatus("pending")
  /\ Goto(t, [Idle EXCEPT !.at = "delete", !.todo = {o}])
  /\ UNCHANGED <<tables, records, crashes>>

DeleteOrderSave(t) ==
  /\ At(t, "delete")
  /\ \E o \in thread[t].todo : \/ Transition(o, "pending", "cancelled")
                               \/ NoTransition(o, "pending") /\ UNCHANGED orders
  /\ Goto(t, Idle)
  /\ UNCHANGED <<accounts, purged, trades, flows, positions, records, crashes>>

\* Mutant: a fill that only sets the status
FillOnly(t, o) ==
  /\ Request(t)
  /\ Transition(o, "pending", "filled")
  /\ UNCHANGED <<accounts, purged, trades, flows, positions, records, thread, crashes>>

\* fill_order: the trade copies the row the conditional update returned.
FillOrder(t, o) ==
  /\ Request(t)
  /\ Transition(o, "pending", "filled")
  /\ Goto(t, [Idle EXCEPT !.at = "trade", !.trade = TradeOf(o)])
  /\ UNCHANGED <<accounts, purged, trades, flows, positions, records, crashes>>

-----------------------------------------------------------------------------
(* Buy and sell commands: check, submit, fill, trade, flow, position       *)

\* Mutant: the balance is compared with the price of one unit
CoveredPerUnit(tr) ==
  IF tr.side = "BUY" THEN CashBalance(tr.account) >= tr.price
                     ELSE positions[<<tr.account, tr.symbol>>] >= tr.quantity

\* The check before the order: cash for a purchase, a position for a sale.
Covered(tr) ==
  IF tr.side = "BUY" THEN CashBalance(tr.account) >= tr.quantity * tr.price
                     ELSE positions[<<tr.account, tr.symbol>>] >= tr.quantity

TradeCommand(t, a, s, side, q, p) ==
  LET tr == [NoTrade EXCEPT !.account = a, !.symbol = s, !.side = side, !.quantity = q, !.price = p]
  IN /\ Request(t)
     /\ a \in accounts
     /\ Covered(tr)
     /\ Goto(t, [Idle EXCEPT !.at = "submit", !.job = "command", !.trade = tr])
     /\ UNCHANGED <<tables, records, crashes>>

CommandSubmit(t, o) ==
  LET tr == thread[t].trade
  IN /\ At(t, "submit")
     /\ InsertOrder(o, tr.account, tr.symbol, tr.side, tr.quantity, tr.price)
     /\ Goto(t, [thread[t] EXCEPT !.at = "fill", !.trade = [@ EXCEPT !.order = o]])
     /\ UNCHANGED <<accounts, purged, trades, flows, positions, records, crashes>>

\* The trade of a command says what the request said, not what the row says.
CommandFill(t) ==
  /\ At(t, "fill")
  /\ thread[t].job = "command"
  /\ \/ /\ Transition(thread[t].trade.order, "pending", "filled")
        /\ Goto(t, [thread[t] EXCEPT !.at = "trade"])
     \/ /\ NoTransition(thread[t].trade.order, "pending")
        /\ UNCHANGED orders
        /\ Goto(t, Idle)
  /\ UNCHANGED <<accounts, purged, trades, flows, positions, records, crashes>>

SaveTrade(t) ==
  /\ At(t, "trade")
  /\ trades' = Append(trades, thread[t].trade)
  /\ Goto(t, [thread[t] EXCEPT !.at = "flow", !.number = Len(trades) + 1])
  /\ UNCHANGED <<accounts, orders, purged, flows, positions, records, crashes>>

\* After the flow a command goes on to the position; a batch goes on to its
\* next trade; a fill request is done.
AfterFlow(th) ==
  CASE th.job = "command" -> [th EXCEPT !.at = "load"]
    [] th.job = "single" -> Idle
    [] OTHER -> [th EXCEPT !.at = "next", !.trade = NoTrade, !.number = 0]

\* Mutant: the flow takes its amount from the order row instead of the trade
FlowOfRow(t) ==
  /\ At(t, "flow")
  /\ InsertFlow(thread[t].trade.account, SignedAmount(TradeOf(thread[t].trade.order)), thread[t].number)
  /\ Goto(t, AfterFlow(thread[t]))
  /\ UNCHANGED <<accounts, orders, purged, trades, positions, records, crashes>>

SaveCashFlow(t) ==
  /\ At(t, "flow")
  /\ InsertFlow(thread[t].trade.account, SignedAmount(thread[t].trade), thread[t].number)
  /\ Goto(t, AfterFlow(thread[t]))
  /\ UNCHANGED <<accounts, orders, purged, trades, positions, records, crashes>>

\* _apply_trade_position_change: read the row; a sale it does not cover raises.
LoadPosition(t) ==
  LET tr == thread[t].trade
      quantity == positions[<<tr.account, tr.symbol>>]
  IN /\ At(t, "load")
     /\ IF tr.side = "SELL" /\ quantity < tr.quantity
        THEN Goto(t, Idle)
        ELSE Goto(t, [thread[t] EXCEPT !.at = "store", !.held = quantity])
     /\ UNCHANGED <<tables, records, crashes>>

\* The quantity the trade leaves, from the row as it was read
Remaining(held, tr) == IF tr.side = "BUY" THEN held + tr.quantity ELSE held - tr.quantity

\* Mutant: a purchase writes its own quantity over the position
StoreTraded(t) ==
  LET tr == thread[t].trade
  IN /\ At(t, "store")
     /\ positions' = [positions EXCEPT ![<<tr.account, tr.symbol>>] = tr.quantity]
     /\ Goto(t, Idle)
     /\ UNCHANGED <<accounts, orders, purged, trades, flows, records, crashes>>

StorePosition(t) ==
  LET tr == thread[t].trade
  IN /\ At(t, "store")
     /\ positions' = [positions EXCEPT ![<<tr.account, tr.symbol>>] = Remaining(thread[t].held, tr)]
     /\ Goto(t, Idle)
     /\ UNCHANGED <<accounts, orders, purged, trades, flows, records, crashes>>

-----------------------------------------------------------------------------
(* Batch operations of an administrator. A key that finished is replayed:  *)
(* nothing happens. The keys of the three operations share one dictionary. *)

Unseen(key) == key \notin records

\* Which of the pending orders come first by creation is not kept.
ProcessPendingTrades(t, todo, key) ==
  /\ Request(t)
  /\ Unseen(key)
  /\ todo \subseteq InStatus("pending")
  /\ Goto(t, [Idle EXCEPT !.at = "next", !.job = "process", !.todo = todo, !.key = key])
  /\ UNCHANGED <<tables, records, crashes>>

\* One order of the list; one that cannot be filled any more counts as failed.
ProcessNext(t, o) ==
  LET rest == [thread[t] EXCEPT !.todo = @ \ {o}]
  IN /\ At(t, "next")
     /\ thread[t].job = "process"
     /\ o \in thread[t].todo
     /\ \/ /\ Transition(o, "pending", "filled")
           /\ Goto(t, [rest EXCEPT !.at = "trade", !.trade = TradeOf(o)])
        \/ /\ NoTransition(o, "pending")
           /\ UNCHANGED orders
           /\ Goto(t, rest)
     /\ UNCHANGED <<accounts, purged, trades, flows, positions, records, crashes>>

BatchExecuteTrades(t, n, key) ==
  /\ Request(t)
  /\ Unseen(key)
  /\ Goto(t, [Idle EXCEPT !.at = "next", !.job = "batch", !.more = n, !.key = key])
  /\ UNCHANGED <<tables, records, crashes>>

BatchSubmit(t, o, a, s, side, q, p) ==
  /\ At(t, "next")
  /\ thread[t].more > 0
  /\ a \in accounts
  /\ InsertOrder(o, a, s, side, q, p)
  /\ Goto(t, [thread[t] EXCEPT !.at = "fill", !.trade = [@ EXCEPT !.order = o], !.more = @ - 1])
  /\ UNCHANGED <<accounts, purged, trades, flows, positions, records, crashes>>

\* A request of the batch that raises: no account of the user, no more ids
BatchSkip(t) ==
  /\ At(t, "next")
  /\ thread[t].more > 0
  /\ Goto(t, [thread[t] EXCEPT !.more = @ - 1])
  /\ UNCHANGED <<tables, records, crashes>>

BatchFill(t) ==
  LET o == thread[t].trade.order
  IN /\ At(t, "fill")
     /\ thread[t].job = "batch"
     /\ \/ /\ Transition(o, "pending", "filled")
           /\ Goto(t, [thread[t] EXCEPT !.at = "trade", !.trade = TradeOf(o)])
        \/ /\ NoTransition(o, "pending")
           /\ UNCHANGED orders
           /\ Goto(t, [thread[t] EXCEPT !.at = "next", !.trade = NoTrade])
     /\ UNCHANGED <<accounts, purged, trades, flows, positions, records, crashes>>

\* cleanup_account_history: old is the part of the cancelled orders before the cutoff.
CleanupAccountHistory(t, old, key) ==
  /\ Request(t)
  /\ Unseen(key)
  /\ old \subseteq InStatus("cancelled")
  /\ Goto(t, [Idle EXCEPT !.at = "next", !.job = "cleanup", !.todo = old, !.key = key])
  /\ UNCHANGED <<tables, records, crashes>>

\* DELETE by id, whatever the status of the row by now
CleanupNext(t, o) ==
  /\ At(t, "next")
  /\ thread[t].job = "cleanup"
  /\ o \in thread[t].todo
  /\ orders' = [orders EXCEPT ![o] = NoOrder]
  /\ purged' = purged \cup {o}
  /\ Goto(t, [thread[t] EXCEPT !.todo = @ \ {o}])
  /\ UNCHANGED <<accounts, trades, flows, positions, records, crashes>>

BatchDone(t) ==
  /\ At(t, "next")
  /\ thread[t].todo = {} /\ thread[t].more = 0
  /\ records' = records \cup ({thread[t].key} \ {NoKey})
  /\ Goto(t, Idle)
  /\ UNCHANGED <<tables, crashes>>

-----------------------------------------------------------------------------
\* The process stops and starts again: requests and memory are gone.
Crash ==
  /\ crashes < MaxCrash
  /\ crashes' = crashes + 1
  /\ thread' = [t \in Threads |-> Idle]
  /\ records' = {}
  /\ UNCHANGED tables

Init ==
  /\ accounts = {} /\ orders = [o \in OrderIds |-> NoOrder] /\ purged = {}
  /\ trades = <<>> /\ flows = <<>> /\ positions = [x \in Accounts \X Symbols |-> 0]
  /\ records = {} /\ thread = [t \in Threads |-> Idle] /\ crashes = 0

Cash(t) ==
  \E a \in Accounts :
    \/ CreateAccount(t, a)
    \/ \E amount \in Amounts : Deposit(t, a, amount) \/ Withdraw(t, a, amount)

Orders(t) ==
  \E o \in OrderIds :
    \/ \E a \in Accounts, s \in Symbols, side \in Sides, q \in Quantities, p \in Prices :
         SubmitOrder(t, o, a, s, side, q, p)
    \/ \E q \in Quantities, p \in Prices : UpdateOrder(t, o, q, p)
    \/ CancelOrder(t, o)
    \/ DeleteOrder(t, o)
    \/ FillOrder(t, o)

Commands(t) ==
  \E a \in Accounts, s \in Symbols, side \in Sides, q \in Quantities, p \in Prices :
    TradeCommand(t, a, s, side, q, p)

Batches(t) ==
  \E key \in Keys \cup {NoKey} :
    \/ \E todo \in SUBSET OrderIds :
         ProcessPendingTrades(t, todo, key) \/ CleanupAccountHistory(t, todo, key)
    \/ \E n \in 1..MaxBatch : BatchExecuteTrades(t, n, key)

Start(t) == Cash(t) \/ Orders(t) \/ Commands(t) \/ Batches(t)

\* The steps of a request that was started
Step(t) ==
  \/ DepositCapital(t) \/ WithdrawSave(t) \/ DeleteOrderSave(t)
  \/ \E o \in OrderIds :
       \/ CommandSubmit(t, o) \/ ProcessNext(t, o) \/ CleanupNext(t, o)
       \/ \E a \in Accounts, s \in Symbols, side \in Sides, q \in Quantities, p \in Prices :
            BatchSubmit(t, o, a, s, side, q, p)
  \/ CommandFill(t) \/ SaveTrade(t) \/ SaveCashFlow(t) \/ LoadPosition(t) \/ StorePosition(t)
  \/ BatchSkip(t) \/ BatchFill(t) \/ BatchDone(t)

Next == Crash \/ \E t \in Threads : Start(t) \/ Step(t)

Spec == Init /\ [][Next]_vars

-----------------------------------------------------------------------------
(* Properties                                                              *)

Steps == {"idle", "deposit", "withdraw", "delete", "submit", "fill", "trade", "flow", "load",
          "store", "next"}
Draft == [account: Accounts \cup {NoAccount}, symbol: Symbols \cup {NoSymbol}, side: Sides,
          quantity: Nat, price: Nat, order: OrderIds \cup {NoOrder}]
Local == [at: Steps, job: {"single", "command", "process", "batch", "cleanup"},
          account: Accounts \cup {NoAccount}, amount: Nat, trade: Draft, number: Nat, held: Nat,
          todo: SUBSET OrderIds, more: Nat, key: Keys \cup {NoKey}]

\* Every table and every request in progress holds values of its kind; the
\* quantities of positions stay natural numbers.
TypeOK ==
  /\ accounts \subseteq Accounts
  /\ orders \in [OrderIds -> Order \cup {NoOrder}]
  /\ purged \subseteq OrderIds
  /\ trades \in Seq(Trade)
  /\ flows \in Seq(CashFlow)
  /\ positions \in [Accounts \X Symbols -> Nat]
  /\ records \subseteq Keys
  /\ thread \in [Threads -> Local]
  /\ crashes \in Nat

AtRest == \A t \in Threads : Request(t)
TradesOf(o) == {i \in DOMAIN trades : trades[i].order = o}
FlowsOf(i) == {j \in DOMAIN flows : flows[j].trade = i}

\* An order is executed at most once, and only while its row says filled; a
\* trade moves cash at most once. Two fills of one order, a fill against a
\* cancellation, a batch against a user, and the clean-up of old orders race
\* for the row (fill_order, cancel_order, process_pending_trades,
\* cleanup_account_history).
FilledOnce ==
  /\ \A i \in DOMAIN trades : trades[i].order \in InStatus("filled")
  /\ \A i, j \in DOMAIN trades : trades[i].order = trades[j].order => i = j
  /\ \A i, j \in DOMAIN flows : flows[i].trade = flows[j].trade => i = j \/ flows[i].trade = 0

\* The flow of a trade moves the trade's notional on the trade's account, with
\* the sign of its side, whatever happened to the order after the trade.
FlowsMatchTrades ==
  \A j \in DOMAIN flows : flows[j].trade # 0 =>
    /\ flows[j].trade \in DOMAIN trades
    /\ flows[j].account = trades[flows[j].trade].account
    /\ flows[j].amount = SignedAmount(trades[flows[j].trade])

\* As long as the process does not stop, no filled order loses its trade and
\* no trade its cash flow: what is missing is the next step of some request.
FilledTracked ==
  crashes = 0 =>
    /\ \A o \in InStatus("filled") :
         TradesOf(o) # {} \/ \E t \in Threads : At(t, "trade") /\ thread[t].trade.order = o
    /\ \A i \in DOMAIN trades :
         FlowsOf(i) # {} \/ \E t \in Threads : At(t, "flow") /\ thread[t].number = i

\* Every filled order is booked as a trade and a flow that say the same of it.
TradesBooked == FlowsMatchTrades /\ FilledTracked

\* The order book the tables stand for: where an order is in its life, what it
\* says, what its trade says and the cash that trade moved.
TermsOf(r) == [account |-> r.account, symbol |-> r.symbol, side |-> r.side,
               quantity |-> r.quantity, price |-> r.price]

Execution(o) == CHOOSE i \in DOMAIN trades : trades[i].order = o
Settlement(i) == CHOOSE j \in DOMAIN flows : flows[j].trade = i
Paid(o) == TradesOf(o) # {} /\ FlowsOf(Execution(o)) # {}

Stage(o) ==
  IF o \notin Rows THEN IF o \in purged THEN "deleted" ELSE "new"
  ELSE IF TradesOf(o) = {} THEN orders[o].status
  ELSE IF Paid(o) THEN "settled" ELSE "executed"
OrderTerms(o) == IF o \in Rows THEN TermsOf(orders[o]) ELSE NoOrder
TradeTerms(o) == IF TradesOf(o) # {} THEN TermsOf(trades[Execution(o)]) ELSE NoOrder
CashMoved(o) == IF Paid(o) THEN flows[Settlement(Execution(o))].amount ELSE 0

Stages == [o \in OrderIds |-> Stage(o)]
TermsBook == [o \in OrderIds |-> OrderTerms(o)]
TradeBook == [o \in OrderIds |-> TradeTerms(o)]
CashBook == [o \in OrderIds |-> CashMoved(o)]

Book == INSTANCE OrderBook WITH
  NoTerms <- NoOrder, stage <- Stages, terms <- TermsBook, trade <- TradeBook, cash <- CashBook

\* Whatever the requests, the batches and the clean-up overwrite and wherever
\* the process stops, an order lives as in OrderBook: one order a step; amended
\* only while pending, filled or cancelled once, deleted only once cancelled
\* and then for ever; the row of a filled order never changes, and the one
\* trade of it is on its account, symbol and side and moves its cash once.
ImplementsBook == Book!Spec

\* The cash of an account covers its withdrawals and the commands' purchases.
CashCovered == \A a \in Accounts : CashBalance(a) >= 0

TradedQuantity(a, s) ==
  FoldSeq(LAMBDA tr, sum : IF tr.account = a /\ tr.symbol = s THEN Remaining(sum, tr) ELSE sum,
          0, trades)

\* When no command is in progress, a position is what its trades add up to.
PositionsFollowTrades ==
  AtRest => \A a \in Accounts, s \in Symbols : positions[<<a, s>>] = TradedQuantity(a, s)
=============================================================================
