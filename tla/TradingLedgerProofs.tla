-------------------------- MODULE TradingLedgerProofs --------------------------
(***************************************************************************)
(* The safety properties of TradingLedger for every set of accounts,       *)
(* orders and threads. Each action is first shown to be one of six kinds   *)
(* of step of the ledger; the invariants are then shown of the kinds. With *)
(* them each step is read as a step of OrderBook, or of none. The          *)
(* balance of an account and the quantity traded are folds over tables of  *)
(* any length: that a fold is a sum, and what one more row adds to it, is  *)
(* shown by a smallest counterexample (Sums). With it the checks of one    *)
(* request at a time are shown to keep cash covered and positions exact.   *)
(***************************************************************************)
EXTENDS MCTradingLedger, FiniteSetTheorems, TLAPS

Filled == InStatus("filled")
Cancelled == InStatus("cancelled")

\* What a request holds fits the step it is at.
Formed(th) ==
  /\ th \in Local
  /\ th.at \in {"deposit", "withdraw"} => th.account \in Accounts
  /\ th.at = "submit" => th.job = "command"
  /\ th.at \in {"load", "store"} => th.job = "command"
  /\ th.at = "next" => th.job # "command"
  /\ th.at = "submit" \/ (th.job = "command" /\ th.at # "idle") =>
       /\ th.trade.account \in Accounts /\ th.trade.symbol \in Symbols
       /\ th.trade.quantity \in Quantities /\ th.trade.price \in Prices
  /\ th.at = "fill" => th.trade.order \in OrderIds
  /\ th.at \in {"trade", "flow", "load", "store"} => th.trade \in Trade
  /\ th.at = "store" /\ th.trade.side = "SELL" => th.held >= th.trade.quantity
  /\ th.at \in {"trade", "flow"} => th.job # "cleanup"

ThreadInv == \A t \in Threads : Formed(thread[t])

\* A trade about to be saved is of a filled order, which has no trade and no
\* other thread.
SavingInv ==
  \A t \in Threads : At(t, "trade") =>
    /\ thread[t].trade.order \in Filled
    /\ \A i \in DOMAIN trades : trades[i].order # thread[t].trade.order
    /\ \A u \in Threads \ {t} : At(u, "trade") => thread[u].trade.order # thread[t].trade.order

\* A flow about to be saved is of a trade that has no flow and no other thread.
FlowingInv ==
  \A t \in Threads : At(t, "flow") =>
    /\ thread[t].number \in DOMAIN trades
    /\ trades[thread[t].number] = thread[t].trade
    /\ \A j \in DOMAIN flows : flows[j].trade # thread[t].number
    /\ \A u \in Threads \ {t} : At(u, "flow") => thread[u].number # thread[t].number

\* The clean-up deletes orders that are cancelled or already deleted.
CleanupInv ==
  /\ \A t \in Threads : thread[t].job = "cleanup" => thread[t].todo \subseteq Cancelled \cup purged
  /\ \A o \in purged : orders[o] = NoOrder

IInv ==
  /\ TypeOK
  /\ ThreadInv
  /\ SavingInv
  /\ FlowingInv
  /\ CleanupInv
  /\ FilledOnce
  /\ FlowsMatchTrades
  /\ FilledTracked

-----------------------------------------------------------------------------
(* Kinds of steps                                                          *)

\* Rows may appear as pending, change while pending, be cancelled, or go from
\* cancelled to deleted.
RowsKept ==
  /\ Filled' = Filled
  /\ Cancelled \subseteq Cancelled' \cup purged'
  /\ purged \subseteq purged'
  /\ \A o \in purged' : orders'[o] = NoOrder

Others(t) == \A u \in Threads \ {t} : thread'[u] = thread[u]

\* The list of a clean-up after the step is cancelled or deleted after it.
Listed(t) == thread'[t].job = "cleanup" => thread'[t].todo \subseteq Cancelled' \cup purged'

\* A step of thread t outside the writing of trades and flows
QuietStep(t) ==
  /\ RowsKept
  /\ UNCHANGED <<trades, flows, crashes>>
  /\ Others(t)
  /\ thread[t].at \notin {"trade", "flow"} /\ thread'[t].at \notin {"trade", "flow"}
  /\ Listed(t)

\* Thread t fills order o and is about to save its trade.
FillStep(t, o) ==
  /\ o \in OrderIds \ Filled
  /\ Filled' = Filled \cup {o}
  /\ Cancelled' = Cancelled
  /\ o \notin purged /\ purged' = purged
  /\ \A p \in purged : orders'[p] = NoOrder
  /\ UNCHANGED <<trades, flows, crashes>>
  /\ Others(t)
  /\ thread[t].at \notin {"trade", "flow"}
  /\ thread'[t].at = "trade" /\ thread'[t].trade.order = o
  /\ Listed(t)

\* Thread t saves its trade.
TradeStep(t) ==
  /\ At(t, "trade")
  /\ trades' = Append(trades, thread[t].trade)
  /\ UNCHANGED <<orders, purged, flows, crashes>>
  /\ Others(t)
  /\ thread'[t].at = "flow" /\ thread'[t].trade = thread[t].trade
  /\ thread'[t].number = Len(trades) + 1
  /\ Listed(t)

\* Thread t saves the flow of its trade.
TradeFlowStep(t) ==
  /\ At(t, "flow")
  /\ flows' = Append(flows, [account |-> thread[t].trade.account,
                             amount |-> SignedAmount(thread[t].trade), trade |-> thread[t].number])
  /\ UNCHANGED <<orders, purged, trades, crashes>>
  /\ Others(t)
  /\ thread'[t].at \notin {"trade", "flow"}
  /\ Listed(t)

\* A payment: a flow that names no trade
PaymentStep(t, a, amount) ==
  /\ flows' = Append(flows, [account |-> a, amount |-> amount, trade |-> 0])
  /\ UNCHANGED <<orders, purged, trades, crashes>>
  /\ Others(t)
  /\ thread[t].at \notin {"trade", "flow"} /\ thread'[t].at \notin {"trade", "flow"}
  /\ Listed(t)

LedgerStep ==
  \/ UNCHANGED vars
  \/ Crash
  \/ \E t \in Threads :
       \/ QuietStep(t)
       \/ \E o \in OrderIds : FillStep(t, o)
       \/ TradeStep(t)
       \/ TradeFlowStep(t)
       \/ \E a \in Accounts, amount \in Int : PaymentStep(t, a, amount)

-----------------------------------------------------------------------------
(* The invariants of the kinds of steps                                    *)

\* What Append does to a table.
LEMMA Appended ==
  ASSUME NEW S, NEW s \in Seq(S), NEW e \in S
  PROVE  /\ Append(s, e) \in Seq(S)
         /\ DOMAIN Append(s, e) = DOMAIN s \cup {Len(s) + 1}
         /\ \A i \in DOMAIN s : Append(s, e)[i] = s[i]
         /\ Append(s, e)[Len(s) + 1] = e
         /\ Len(s) + 1 \notin DOMAIN s
         /\ Len(s) + 1 \in Nat \ {0}
OBVIOUS

\* The flow of a trade is a flow, of a signed integer amount.
LEMMA SignedInt ==
  ASSUME NEW tr \in Trade
  PROVE  SignedAmount(tr) \in Int
<1>1. tr.quantity \in Nat /\ tr.price \in Nat
  BY AmountsAssumption DEF Trade
<1>2. tr.quantity * tr.price \in Nat
  BY <1>1
<1>3. QED BY <1>2 DEF SignedAmount

LEMMA FlowRecord ==
  ASSUME NEW tr \in Trade, NEW n \in Nat
  PROVE  [account |-> tr.account, amount |-> SignedAmount(tr), trade |-> n] \in CashFlow
BY SignedInt DEF CashFlow, Trade

LEMMA FilledOnceStep ==
  ASSUME IInv, TypeOK', LedgerStep
  PROVE  SavingInv' /\ FlowingInv' /\ FilledOnce'
<1> USE DEF IInv, At, Filled, InStatus, Rows
<1>1. CASE UNCHANGED vars
  BY <1>1 DEF vars, SavingInv, FlowingInv, FilledOnce
<1>2. CASE Crash
  BY <1>2 DEF Crash, tables, SavingInv, FlowingInv, FilledOnce, Idle
<1>3. ASSUME NEW t \in Threads, QuietStep(t) PROVE SavingInv' /\ FlowingInv' /\ FilledOnce'
  BY <1>3 DEF QuietStep, RowsKept, Others, SavingInv, FlowingInv, FilledOnce
<1>4. ASSUME NEW t \in Threads, NEW o \in OrderIds, FillStep(t, o)
      PROVE  SavingInv' /\ FlowingInv' /\ FilledOnce'
  BY <1>4 DEF FillStep, Others, SavingInv, FlowingInv, FilledOnce
<1>5. ASSUME NEW t \in Threads, TradeStep(t) PROVE SavingInv' /\ FlowingInv' /\ FilledOnce'
  <2> DEFINE tr == thread[t].trade
  <2>1. tr \in Trade /\ trades \in Seq(Trade)
    BY <1>5 DEF TradeStep, ThreadInv, Formed, TypeOK
  <2>2. PICK n \in Nat \ {0} : n = Len(trades) + 1
    BY <2>1, Appended
  <2>3. /\ DOMAIN trades' = DOMAIN trades \cup {n} /\ n \notin DOMAIN trades
        /\ \A i \in DOMAIN trades : trades'[i] = trades[i]
        /\ trades'[n] = tr
    BY <1>5, <2>1, <2>2, Appended DEF TradeStep
  <2>4. \A j \in DOMAIN flows : flows[j].trade # n
    BY <2>2, <2>3 DEF FlowsMatchTrades
  <2>5. SavingInv'
    BY <1>5, <2>3 DEF TradeStep, Others, SavingInv
  <2>6. FlowingInv'
    BY <1>5, <2>2, <2>3, <2>4 DEF TradeStep, Others, FlowingInv
  <2>7. FilledOnce'
    BY <1>5, <2>3 DEF TradeStep, SavingInv, FilledOnce
  <2>8. QED BY <2>5, <2>6, <2>7
<1>6. ASSUME NEW t \in Threads, TradeFlowStep(t) PROVE SavingInv' /\ FlowingInv' /\ FilledOnce'
  <2>1. PICK f \in CashFlow : /\ f.trade = thread[t].number
                              /\ flows' = Append(flows, f)
    BY <1>6, FlowRecord DEF TradeFlowStep, ThreadInv, Formed, TypeOK, Local
  <2>2. PICK n \in Nat \ {0} : n = Len(flows) + 1
    BY Appended DEF TypeOK
  <2>3. /\ DOMAIN flows' = DOMAIN flows \cup {n} /\ n \notin DOMAIN flows
        /\ \A j \in DOMAIN flows : flows'[j] = flows[j]
        /\ flows'[n] = f
    BY <2>1, <2>2, Appended DEF TypeOK
  <2>4. SavingInv'
    BY <1>6 DEF TradeFlowStep, Others, SavingInv
  <2>5. FlowingInv'
    BY <1>6, <2>1, <2>3 DEF TradeFlowStep, Others, FlowingInv
  <2>6. FilledOnce'
    BY <1>6, <2>1, <2>3 DEF TradeFlowStep, FlowingInv, FilledOnce
  <2>7. QED BY <2>4, <2>5, <2>6
<1>7. ASSUME NEW t \in Threads, NEW a \in Accounts, NEW amount \in Int, PaymentStep(t, a, amount)
      PROVE  SavingInv' /\ FlowingInv' /\ FilledOnce'
  <2>1. PICK f \in CashFlow : f.trade = 0 /\ flows' = Append(flows, f)
    BY <1>7 DEF PaymentStep, CashFlow
  <2>2. PICK n \in Nat \ {0} : n = Len(flows) + 1
    BY Appended DEF TypeOK
  <2>3. /\ DOMAIN flows' = DOMAIN flows \cup {n} /\ n \notin DOMAIN flows
        /\ \A j \in DOMAIN flows : flows'[j] = flows[j]
        /\ flows'[n] = f
    BY <2>1, <2>2, Appended DEF TypeOK
  <2>4. 0 \notin DOMAIN trades
    BY DEF TypeOK
  <2>5. SavingInv' /\ FlowingInv'
    BY <1>7, <2>1, <2>3, <2>4 DEF PaymentStep, Others, SavingInv, FlowingInv
  <2>6. FilledOnce'
    BY <1>7, <2>1, <2>3 DEF PaymentStep, FilledOnce
  <2>7. QED BY <2>5, <2>6
<1>8. QED BY <1>1, <1>2, <1>3, <1>4, <1>5, <1>6, <1>7 DEF LedgerStep

LEMMA FlowsMatchStep ==
  ASSUME IInv, TypeOK', LedgerStep
  PROVE  FlowsMatchTrades' /\ FilledTracked'
<1> USE DEF IInv, At, Filled, InStatus, Rows
<1>1. CASE UNCHANGED vars
  BY <1>1 DEF vars, FlowsMatchTrades, FilledTracked, TradesOf, FlowsOf
<1>2. CASE Crash
  BY <1>2 DEF Crash, tables, FlowsMatchTrades, FilledTracked, TypeOK
<1>3. ASSUME NEW t \in Threads, QuietStep(t) PROVE FlowsMatchTrades' /\ FilledTracked'
  BY <1>3 DEF QuietStep, RowsKept, Others, FlowsMatchTrades, FilledTracked, TradesOf, FlowsOf
<1>4. ASSUME NEW t \in Threads, NEW o \in OrderIds, FillStep(t, o)
      PROVE  FlowsMatchTrades' /\ FilledTracked'
  BY <1>4 DEF FillStep, Others, FlowsMatchTrades, FilledTracked, TradesOf, FlowsOf
<1>5. ASSUME NEW t \in Threads, TradeStep(t) PROVE FlowsMatchTrades' /\ FilledTracked'
  <2> DEFINE tr == thread[t].trade
  <2>1. tr \in Trade /\ trades \in Seq(Trade)
    BY <1>5 DEF TradeStep, ThreadInv, Formed, TypeOK
  <2>2. PICK n \in Nat \ {0} : n = Len(trades) + 1
    BY <2>1, Appended
  <2>3. /\ DOMAIN trades' = DOMAIN trades \cup {n}
        /\ \A i \in DOMAIN trades : trades'[i] = trades[i]
        /\ trades'[n] = tr
    BY <1>5, <2>1, <2>2, Appended DEF TradeStep
  <2>4. FlowsMatchTrades'
    BY <1>5, <2>3 DEF TradeStep, FlowsMatchTrades
  <2>5. FilledTracked'
    BY <1>5, <2>2, <2>3 DEF TradeStep, Others, FilledTracked, TradesOf, FlowsOf
  <2>6. QED BY <2>4, <2>5
<1>6. ASSUME NEW t \in Threads, TradeFlowStep(t) PROVE FlowsMatchTrades' /\ FilledTracked'
  <2>1. PICK f \in CashFlow : /\ f.trade = thread[t].number
                              /\ f.account = thread[t].trade.account
                              /\ f.amount = SignedAmount(thread[t].trade)
                              /\ flows' = Append(flows, f)
    BY <1>6, FlowRecord DEF TradeFlowStep, ThreadInv, Formed, TypeOK, Local
  <2>2. PICK n \in Nat \ {0} : n = Len(flows) + 1
    BY Appended DEF TypeOK
  <2>3. /\ DOMAIN flows' = DOMAIN flows \cup {n}
        /\ \A j \in DOMAIN flows : flows'[j] = flows[j]
        /\ flows'[n] = f
    BY <2>1, <2>2, Appended DEF TypeOK
  <2>4. FlowsMatchTrades'
    BY <1>6, <2>1, <2>3 DEF TradeFlowStep, FlowingInv, FlowsMatchTrades
  <2>5. FilledTracked'
    BY <1>6, <2>1, <2>3 DEF TradeFlowStep, Others, FilledTracked, TradesOf, FlowsOf
  <2>6. QED BY <2>4, <2>5
<1>7. ASSUME NEW t \in Threads, NEW a \in Accounts, NEW amount \in Int, PaymentStep(t, a, amount)
      PROVE  FlowsMatchTrades' /\ FilledTracked'
  <2>1. PICK f \in CashFlow : f.trade = 0 /\ flows' = Append(flows, f)
    BY <1>7 DEF PaymentStep, CashFlow
  <2>2. PICK n \in Nat \ {0} : n = Len(flows) + 1
    BY Appended DEF TypeOK
  <2>3. /\ DOMAIN flows' = DOMAIN flows \cup {n}
        /\ \A j \in DOMAIN flows : flows'[j] = flows[j]
        /\ flows'[n] = f
    BY <2>1, <2>2, Appended DEF TypeOK
  <2>4. FlowsMatchTrades'
    BY <1>7, <2>1, <2>3 DEF PaymentStep, FlowsMatchTrades
  <2>5. FilledTracked'
    BY <1>7, <2>1, <2>3 DEF PaymentStep, Others, FilledTracked, TradesOf, FlowsOf
  <2>6. QED BY <2>4, <2>5
<1>8. QED BY <1>1, <1>2, <1>3, <1>4, <1>5, <1>6, <1>7 DEF LedgerStep

LEMMA CleanupStep ==
  ASSUME IInv, TypeOK', LedgerStep
  PROVE  CleanupInv'
<1> USE DEF IInv, At, Filled, Cancelled, InStatus, Rows
<1>1. CASE UNCHANGED vars
  BY <1>1 DEF vars, CleanupInv
<1>2. CASE Crash
  BY <1>2 DEF Crash, tables, CleanupInv, Idle
<1>3. ASSUME NEW t \in Threads, QuietStep(t) PROVE CleanupInv'
  BY <1>3 DEF QuietStep, RowsKept, Others, Listed, CleanupInv
<1>4. ASSUME NEW t \in Threads, NEW o \in OrderIds, FillStep(t, o) PROVE CleanupInv'
  BY <1>4 DEF FillStep, Others, Listed, CleanupInv
<1>5. ASSUME NEW t \in Threads, TradeStep(t) \/ TradeFlowStep(t) PROVE CleanupInv'
  BY <1>5 DEF TradeStep, TradeFlowStep, Others, Listed, CleanupInv
<1>6. ASSUME NEW t \in Threads, NEW a \in Accounts, NEW amount \in Int, PaymentStep(t, a, amount)
      PROVE  CleanupInv'
  BY <1>6 DEF PaymentStep, Others, Listed, CleanupInv
<1>7. QED BY <1>1, <1>2, <1>3, <1>4, <1>5, <1>6 DEF LedgerStep

-----------------------------------------------------------------------------
(* The actions are steps of these kinds and keep types                     *)

Good == LedgerStep /\ ThreadInv' /\ TypeOK'

\* Moving a thread to a well-formed step.
LEMMA Moved ==
  ASSUME IInv, NEW t \in Threads, NEW x, Formed(x), Goto(t, x)
  PROVE  /\ thread' \in [Threads -> Local]
         /\ ThreadInv'
         /\ thread'[t] = x
         /\ Others(t)
BY DEF IInv, TypeOK, ThreadInv, Formed, Goto, Others

LEMMA IdleFormed == Formed(Idle) /\ Idle.at = "idle" /\ Idle.job = "single"
BY DEF Formed, Idle, NoTrade, Local, Draft, Steps, Sides

LEMMA RequestAt ==
  ASSUME NEW t \in Threads, Request(t)
  PROVE  thread[t].at = "idle" /\ thread[t] = Idle
BY DEF Request, Idle

\* A new order, an order that changes while pending, and a cancelled order
\* leave the filled and the cancelled rows.
LEMMA InsertKeeps ==
  ASSUME IInv, NEW o \in OrderIds, NEW a \in Accounts, NEW s \in Symbols, NEW side \in Sides,
         NEW q \in Quantities, NEW p \in Prices, InsertOrder(o, a, s, side, q, p), purged' = purged
  PROVE  RowsKept /\ Cancelled' = Cancelled /\ orders' \in [OrderIds -> Order \cup {NoOrder}]
<1> DEFINE r == [account |-> a, symbol |-> s, side |-> side, quantity |-> q, price |-> p,
                 status |-> "pending"]
<1>1. r \in Order /\ r.status = "pending"
  BY DEF Order
<1>2. orders[o] = NoOrder /\ o \notin purged /\ orders' = [orders EXCEPT ![o] = r]
  BY DEF InsertOrder
<1>3. r # NoOrder
  BY <1>1, NoRowAssumption
<1> HIDE DEF r
<1>4. QED
  BY <1>1, <1>2, <1>3 DEF IInv, TypeOK, RowsKept, Filled, Cancelled, InStatus, Rows, CleanupInv

LEMMA TransitionKeeps ==
  ASSUME IInv, NEW o \in OrderIds, Transition(o, "pending", "cancelled"), purged' = purged
  PROVE  RowsKept /\ orders' \in [OrderIds -> Order \cup {NoOrder}]
<1> DEFINE r == [orders[o] EXCEPT !.status = "cancelled"]
<1>1. orders[o] \in Order /\ orders[o].status = "pending" /\ orders[o] # NoOrder
  BY DEF Transition, InStatus, Rows, IInv, TypeOK
<1>2. r \in Order /\ r.status = "cancelled"
  BY <1>1 DEF Order
<1>3. orders' = [orders EXCEPT ![o] = r]
  BY DEF Transition
<1>4. r # NoOrder
  BY <1>2, NoRowAssumption
<1> HIDE DEF r
<1>5. QED
  BY <1>1, <1>2, <1>3, <1>4 DEF IInv, TypeOK, RowsKept, Filled, Cancelled, InStatus, Rows, CleanupInv

LEMMA FillKeeps ==
  ASSUME IInv, NEW o \in OrderIds, Transition(o, "pending", "filled"), purged' = purged
  PROVE  /\ o \notin Filled /\ o \notin purged /\ Filled' = Filled \cup {o} /\ Cancelled' = Cancelled
         /\ \A p \in purged : orders'[p] = NoOrder
         /\ orders' \in [OrderIds -> Order \cup {NoOrder}]
         /\ TradeOf(o) \in Trade /\ TradeOf(o).order = o
<1> DEFINE r == [orders[o] EXCEPT !.status = "filled"]
<1>1. orders[o] \in Order /\ orders[o].status = "pending" /\ orders[o] # NoOrder
  BY DEF Transition, InStatus, Rows, IInv, TypeOK
<1>2. r \in Order /\ r.status = "filled"
  BY <1>1 DEF Order
<1>3. orders' = [orders EXCEPT ![o] = r]
  BY DEF Transition
<1>4. r # NoOrder
  BY <1>2, NoRowAssumption
<1>5. TradeOf(o) \in Trade /\ TradeOf(o).order = o
  BY <1>1 DEF TradeOf, Trade, Order
<1> HIDE DEF r
<1>6. QED
  BY <1>1, <1>2, <1>3, <1>4, <1>5
  DEF IInv, TypeOK, Filled, Cancelled, InStatus, Rows, CleanupInv, Order

\* Rows that do not change.
LEMMA SameKeeps ==
  ASSUME IInv, UNCHANGED <<orders, purged>>
  PROVE  RowsKept /\ Cancelled' = Cancelled
BY DEF IInv, RowsKept, Filled, Cancelled, InStatus, Rows, CleanupInv

LEMMA Stays ==
  ASSUME IInv, NEW t \in Threads, Request(t), thread' = thread
  PROVE  Goto(t, Idle)
BY DEF IInv, TypeOK, Request, Goto

Outside(th) == th.at \notin {"trade", "flow"}

\* A thread that moves outside the writing of trades and flows.
LEMMA QuietGood ==
  ASSUME IInv, NEW t \in Threads, NEW x, Formed(x), Goto(t, x), Outside(x), Outside(thread[t]),
         x.job = "cleanup" => x.todo \subseteq Cancelled' \cup purged',
         RowsKept, UNCHANGED <<trades, flows, crashes>>,
         accounts' \subseteq Accounts, orders' \in [OrderIds -> Order \cup {NoOrder}],
         purged' \subseteq OrderIds, positions' \in [Accounts \X Symbols -> Nat], records' \subseteq Keys
  PROVE  Good
<1>1. /\ thread' \in [Threads -> Local] /\ ThreadInv'
      /\ thread'[t] = x /\ Others(t)
  BY Moved
<1>2. QuietStep(t)
  BY <1>1 DEF QuietStep, Outside, Listed
<1>3. TypeOK'
  BY <1>1 DEF TypeOK, IInv
<1>4. QED BY <1>1, <1>2, <1>3 DEF Good, LedgerStep

\* A thread that moves while the tables stay.
LEMMA ReadGood ==
  ASSUME IInv, NEW t \in Threads, NEW x, Formed(x), Goto(t, x), Outside(x), Outside(thread[t]),
         x.job = "cleanup" => x.todo \subseteq Cancelled \cup purged,
         UNCHANGED <<orders, purged, trades, flows, positions, crashes>>,
         accounts' \subseteq Accounts, records' \subseteq Keys
  PROVE  Good
<1>1. RowsKept /\ Cancelled' = Cancelled
  BY SameKeeps
<1>2. QED BY <1>1, QuietGood DEF IInv, TypeOK

\* A thread that fills an order.
LEMMA FillGood ==
  ASSUME IInv, NEW t \in Threads, NEW x, Formed(x), Goto(t, x), Outside(thread[t]),
         NEW o \in OrderIds, Transition(o, "pending", "filled"),
         x.at = "trade", x.trade.order = o,
         UNCHANGED <<accounts, purged, trades, flows, positions, records, crashes>>
  PROVE  Good
<1>1. /\ thread' \in [Threads -> Local] /\ ThreadInv'
      /\ thread'[t] = x /\ Others(t)
  BY Moved
<1>2. x.job # "cleanup"
  BY DEF Formed
<1>3. FillStep(t, o)
  BY <1>1, <1>2, FillKeeps DEF FillStep, Outside, Listed
<1>4. TypeOK'
  BY <1>1, FillKeeps DEF TypeOK, IInv
<1>5. QED BY <1>1, <1>3, <1>4 DEF Good, LedgerStep

\* A payment of a thread that ends its request.
LEMMA PaymentGood ==
  ASSUME IInv, NEW t \in Threads, NEW a \in Accounts, NEW amount \in Int, InsertFlow(a, amount, 0),
         Goto(t, Idle), Outside(thread[t]),
         UNCHANGED <<accounts, orders, purged, trades, positions, records, crashes>>
  PROVE  Good
<1>1. /\ thread' \in [Threads -> Local] /\ ThreadInv'
      /\ thread'[t] = Idle /\ Others(t)
  BY Moved, IdleFormed
<1>2. PaymentStep(t, a, amount)
  BY <1>1, IdleFormed DEF PaymentStep, Outside, Listed, InsertFlow
<1>3. [account |-> a, amount |-> amount, trade |-> 0] \in CashFlow
  BY DEF CashFlow
<1>4. TypeOK'
  BY <1>1, <1>3, Appended DEF TypeOK, IInv, InsertFlow
<1>5. QED BY <1>1, <1>2, <1>4 DEF Good, LedgerStep

\* An account with its initial capital still to come, and a withdrawal.
LEMMA PayingFormed ==
  ASSUME NEW a \in Accounts, NEW amount \in Amounts, NEW step \in {"deposit", "withdraw"}
  PROVE  LET x == [Idle EXCEPT !.at = step, !.account = a, !.amount = amount]
         IN  Formed(x) /\ Outside(x) /\ x.job = "single"
BY AmountsAssumption DEF Formed, Outside, Idle, NoTrade, Local, Draft, Steps, Sides

LEMMA CashGood ==
  ASSUME IInv, NEW t \in Threads, Cash(t) \/ DepositCapital(t) \/ WithdrawSave(t)
  PROVE  Good
<1>1. ASSUME NEW a \in Accounts, CreateAccount(t, a) PROVE Good
  <2>1. PICK x : Formed(x) /\ Outside(x) /\ x.job = "single" /\ Goto(t, x)
    BY <1>1, IdleFormed, PayingFormed DEF CreateAccount, Outside
  <2>2. accounts' \subseteq Accounts /\ records' \subseteq Keys
    BY <1>1 DEF CreateAccount, IInv, TypeOK
  <2>3. QED BY <1>1, <2>1, <2>2, RequestAt, ReadGood DEF CreateAccount, Outside
<1>2. ASSUME NEW a \in Accounts, NEW amount \in Amounts, Deposit(t, a, amount) PROVE Good
  <2>1. Goto(t, Idle) /\ Outside(thread[t])
    BY <1>2, Stays, RequestAt DEF Deposit, Outside
  <2>2. QED BY <1>2, <2>1, AmountsAssumption, PaymentGood DEF Deposit
<1>3. ASSUME NEW a \in Accounts, NEW amount \in Amounts, Withdraw(t, a, amount) PROVE Good
  <2>1. PICK x : Formed(x) /\ Outside(x) /\ x.job = "single" /\ Goto(t, x)
    BY <1>3, PayingFormed DEF Withdraw
  <2>2. QED
    BY <1>3, <2>1, RequestAt, ReadGood DEF Withdraw, Outside, tables, IInv, TypeOK
<1>4. CASE DepositCapital(t) \/ WithdrawSave(t)
  <2>1. thread[t].account \in Accounts /\ thread[t].amount \in Nat /\ Outside(thread[t])
    BY <1>4 DEF DepositCapital, WithdrawSave, At, IInv, ThreadInv, Formed, Local, Outside
  <2>2. -thread[t].amount \in Int
    BY <2>1
  <2>3. QED BY <1>4, <2>1, <2>2, PaymentGood DEF DepositCapital, WithdrawSave
<1>5. QED BY <1>1, <1>2, <1>3, <1>4 DEF Cash

\* Amending a pending order.
LEMMA UpdateKeeps ==
  ASSUME IInv, NEW t, NEW o \in OrderIds, NEW q \in Quantities, NEW p \in Prices,
         UpdateOrder(t, o, q, p)
  PROVE  RowsKept /\ orders' \in [OrderIds -> Order \cup {NoOrder}]
<1> DEFINE r == [orders[o] EXCEPT !.quantity = q, !.price = p]
<1>1. orders[o] \in Order /\ orders[o].status = "pending" /\ orders[o] # NoOrder
  BY DEF UpdateOrder, InStatus, Rows, IInv, TypeOK
<1>2. r \in Order /\ r.status = "pending"
  BY <1>1 DEF Order
<1>3. orders' = [orders EXCEPT ![o] = r] /\ purged' = purged
  BY <1>1 DEF UpdateOrder, IInv, TypeOK, Order
<1>4. r # NoOrder
  BY <1>2, NoRowAssumption
<1> HIDE DEF r
<1>5. QED
  BY <1>1, <1>2, <1>3, <1>4 DEF IInv, TypeOK, RowsKept, Filled, Cancelled, InStatus, Rows, CleanupInv

LEMMA OrdersGood ==
  ASSUME IInv, NEW t \in Threads, Orders(t) \/ DeleteOrderSave(t)
  PROVE  Good
<1> USE DEF Outside
<1>1. ASSUME NEW o \in OrderIds, NEW a \in Accounts, NEW s \in Symbols, NEW side \in Sides,
             NEW q \in Quantities, NEW p \in Prices, SubmitOrder(t, o, a, s, side, q, p)
      PROVE  Good
  <2>1. RowsKept /\ orders' \in [OrderIds -> Order \cup {NoOrder}]
    BY <1>1, InsertKeeps DEF SubmitOrder
  <2>2. QED
    BY <1>1, <2>1, Stays, RequestAt, IdleFormed, QuietGood DEF SubmitOrder, IInv, TypeOK
<1>2. ASSUME NEW o \in OrderIds, NEW q \in Quantities, NEW p \in Prices, UpdateOrder(t, o, q, p)
      PROVE  Good
  BY <1>2, UpdateKeeps, Stays, RequestAt, IdleFormed, QuietGood DEF UpdateOrder, IInv, TypeOK
<1>3. ASSUME NEW o \in OrderIds, CancelOrder(t, o) PROVE Good
  <2>1. RowsKept /\ orders' \in [OrderIds -> Order \cup {NoOrder}]
    BY <1>3, TransitionKeeps DEF CancelOrder
  <2>2. QED
    BY <1>3, <2>1, Stays, RequestAt, IdleFormed, QuietGood DEF CancelOrder, IInv, TypeOK
<1>4. ASSUME NEW o \in OrderIds, DeleteOrder(t, o) PROVE Good
  <2> DEFINE x == [Idle EXCEPT !.at = "delete", !.todo = {o}]
  <2>1. Formed(x) /\ Outside(x) /\ x.job = "single"
    BY DEF Formed, Idle, NoTrade, Local, Draft, Steps, Sides
  <2>2. Goto(t, x)
    BY <1>4 DEF DeleteOrder
  <2> HIDE DEF x
  <2>3. QED
    BY <1>4, <2>1, <2>2, RequestAt, ReadGood DEF DeleteOrder, tables, IInv, TypeOK
<1>5. ASSUME NEW o \in OrderIds, FillOrder(t, o) PROVE Good
  <2> DEFINE x == [Idle EXCEPT !.at = "trade", !.trade = TradeOf(o)]
  <2>1. TradeOf(o) \in Trade /\ TradeOf(o).order = o
    BY <1>5, FillKeeps DEF FillOrder
  <2>2. Formed(x) /\ x.at = "trade" /\ x.trade.order = o
    BY <2>1, AmountsAssumption DEF Formed, Idle, Local, Steps, Trade, Draft
  <2>3. Goto(t, x)
    BY <1>5 DEF FillOrder
  <2> HIDE DEF x
  <2>4. QED
    BY <1>5, <2>2, <2>3, RequestAt, FillGood DEF FillOrder
<1>6. CASE DeleteOrderSave(t)
  <2>1. Outside(thread[t]) /\ Goto(t, Idle)
    BY <1>6 DEF DeleteOrderSave, At
  <2>2. PICK o \in thread[t].todo : \/ Transition(o, "pending", "cancelled")
                                    \/ UNCHANGED orders
    BY <1>6 DEF DeleteOrderSave
  <2>3. o \in OrderIds
    BY DEF IInv, TypeOK, Local
  <2>4. RowsKept /\ orders' \in [OrderIds -> Order \cup {NoOrder}]
    BY <1>6, <2>2, <2>3, TransitionKeeps, SameKeeps DEF DeleteOrderSave, IInv, TypeOK
  <2>5. QED
    BY <1>6, <2>1, <2>4, IdleFormed, QuietGood DEF DeleteOrderSave, IInv, TypeOK
<1>7. QED BY <1>1, <1>2, <1>3, <1>4, <1>5, <1>6 DEF Orders

LEMMA CommandsGood ==
  ASSUME IInv, NEW t \in Threads, Commands(t)
  PROVE  Good
<1>1. PICK a \in Accounts, s \in Symbols, side \in Sides, q \in Quantities, p \in Prices :
        TradeCommand(t, a, s, side, q, p)
  BY DEF Commands
<1> DEFINE tr == [NoTrade EXCEPT !.account = a, !.symbol = s, !.side = side, !.quantity = q, !.price = p]
           x == [Idle EXCEPT !.at = "submit", !.job = "command", !.trade = tr]
<1>2. tr \in Draft /\ tr.account = a /\ tr.symbol = s /\ tr.quantity = q /\ tr.price = p
  BY AmountsAssumption DEF NoTrade, Draft
<1> HIDE DEF tr
<1>3. Formed(x) /\ Outside(x) /\ x.job = "command"
  BY <1>2 DEF Formed, Outside, Idle, Local, Steps
<1>4. Goto(t, x)
  BY <1>1 DEF TradeCommand, tr
<1> HIDE DEF x
<1>5. QED
  BY <1>1, <1>3, <1>4, RequestAt, ReadGood DEF TradeCommand, tables, IInv, TypeOK, Outside

LEMMA CommandStepsGood ==
  ASSUME IInv, NEW t \in Threads,
         \/ \E o \in OrderIds : CommandSubmit(t, o)
         \/ CommandFill(t) \/ LoadPosition(t) \/ StorePosition(t)
  PROVE  Good
<1> USE DEF Outside, At
<1>0. Formed(thread[t])
  BY DEF IInv, ThreadInv
<1>1. ASSUME NEW o \in OrderIds, CommandSubmit(t, o) PROVE Good
  <2> DEFINE tr == thread[t].trade
             x == [thread[t] EXCEPT !.at = "fill", !.trade = [@ EXCEPT !.order = o]]
  <2>1. /\ tr.account \in Accounts /\ tr.symbol \in Symbols /\ tr.side \in Sides
        /\ tr.quantity \in Quantities /\ tr.price \in Prices
    BY <1>0, <1>1 DEF CommandSubmit, Formed, Local, Draft
  <2>2. RowsKept /\ orders' \in [OrderIds -> Order \cup {NoOrder}]
    BY <1>1, <2>1, InsertKeeps DEF CommandSubmit
  <2>3. Formed(x) /\ Outside(x) /\ x.job = "command"
    BY <1>0, <1>1 DEF CommandSubmit, Formed, Local, Draft, Steps
  <2>4. Goto(t, x) /\ Outside(thread[t])
    BY <1>1 DEF CommandSubmit
  <2> HIDE DEF x
  <2>5. QED
    BY <1>1, <2>2, <2>3, <2>4, QuietGood DEF CommandSubmit, IInv, TypeOK
<1>2. CASE CommandFill(t)
  <2> DEFINE o == thread[t].trade.order
             x == [thread[t] EXCEPT !.at = "trade"]
  <2>1. o \in OrderIds /\ Outside(thread[t])
    BY <1>0, <1>2 DEF CommandFill, Formed
  <2>2. CASE Transition(o, "pending", "filled") /\ Goto(t, x)
    <3>1. Formed(x) /\ x.at = "trade" /\ x.trade.order = o
      BY <1>0, <1>2 DEF CommandFill, Formed, Local, Draft, Trade, Steps
    <3> HIDE DEF x
    <3>2. QED BY <1>2, <2>1, <2>2, <3>1, FillGood DEF CommandFill
  <2>3. CASE UNCHANGED orders /\ Goto(t, Idle)
    BY <1>2, <2>1, <2>3, IdleFormed, ReadGood DEF CommandFill, IInv, TypeOK
  <2>4. QED BY <1>2, <2>2, <2>3 DEF CommandFill
<1>3. CASE LoadPosition(t)
  <2> DEFINE tr == thread[t].trade
  <2>1. tr \in Trade /\ Outside(thread[t]) /\ tr.quantity \in Nat
    BY <1>0, <1>3, AmountsAssumption DEF LoadPosition, Formed, Trade
  <2>2. PICK held \in Nat : held = positions[<<tr.account, tr.symbol>>]
    BY <2>1 DEF IInv, TypeOK, Trade
  <2> DEFINE x == [thread[t] EXCEPT !.at = "store", !.held = held]
  <2>3. CASE Goto(t, Idle)
    BY <1>3, <2>1, <2>3, IdleFormed, ReadGood DEF LoadPosition, tables, IInv, TypeOK
  <2>4. CASE Goto(t, x) /\ ~(tr.side = "SELL" /\ held < tr.quantity)
    <3>1. ~(tr.side = "SELL" /\ held < tr.quantity)
      BY <2>4
    <3>2. PICK q \in Nat : q = tr.quantity
      BY <2>1
    <3>3. tr.side = "SELL" => held >= q
      BY <3>1, <3>2
    <3>4. Formed(x) /\ Outside(x) /\ x.job = "command"
      BY <1>0, <1>3, <2>2, <3>2, <3>3 DEF LoadPosition, Formed, Local, Draft, Trade, Steps
    <3> HIDE DEF x
    <3>5. QED BY <1>3, <2>1, <2>4, <3>4, ReadGood DEF LoadPosition, tables, IInv, TypeOK
  <2>5. QED BY <1>3, <2>2, <2>3, <2>4 DEF LoadPosition
<1>4. CASE StorePosition(t)
  <2> DEFINE tr == thread[t].trade
  <2>1. /\ tr \in Trade /\ Outside(thread[t]) /\ thread[t].held \in Nat
        /\ tr.side = "SELL" => thread[t].held >= tr.quantity
    BY <1>0, <1>4 DEF StorePosition, Formed, Local
  <2>2. tr.quantity \in Nat /\ tr.side \in Sides /\ <<tr.account, tr.symbol>> \in Accounts \X Symbols
    BY <2>1, AmountsAssumption DEF Trade
  <2>3. PICK n \in Nat : n = Remaining(thread[t].held, tr)
    BY <2>1, <2>2 DEF Remaining, Sides
  <2>4. positions' = [positions EXCEPT ![<<tr.account, tr.symbol>>] = n]
    BY <1>4, <2>3 DEF StorePosition
  <2>5. positions' \in [Accounts \X Symbols -> Nat]
    BY <2>4 DEF IInv, TypeOK
  <2>6. RowsKept
    BY <1>4, SameKeeps DEF StorePosition
  <2>7. QED
    BY <1>4, <2>1, <2>5, <2>6, IdleFormed, QuietGood DEF StorePosition, IInv, TypeOK
<1>5. QED BY <1>1, <1>2, <1>3, <1>4

LEMMA SavesGood ==
  ASSUME IInv, NEW t \in Threads, SaveTrade(t) \/ SaveCashFlow(t)
  PROVE  Good
<1> USE DEF Outside, At
<1>0. Formed(thread[t])
  BY DEF IInv, ThreadInv
<1>1. CASE SaveTrade(t)
  <2>1. thread[t].trade \in Trade /\ thread[t].job # "cleanup" /\ trades \in Seq(Trade)
    BY <1>0, <1>1 DEF SaveTrade, Formed, IInv, TypeOK
  <2>2. PICK n \in Nat \ {0} : n = Len(trades) + 1
    BY <2>1, Appended
  <2> DEFINE x == [thread[t] EXCEPT !.at = "flow", !.number = n]
  <2>3. Formed(x) /\ x.at = "flow" /\ x.trade = thread[t].trade /\ x.number = n /\ x.job # "cleanup"
    BY <1>0, <1>1, <2>1 DEF SaveTrade, Formed, Local, Steps
  <2>4. Goto(t, x)
    BY <1>1, <2>2 DEF SaveTrade
  <2> HIDE DEF x
  <2>5. /\ thread' \in [Threads -> Local] /\ ThreadInv'
        /\ thread'[t] = x /\ Others(t)
    BY <2>3, <2>4, Moved
  <2>6. TradeStep(t)
    BY <1>1, <2>2, <2>3, <2>5 DEF SaveTrade, TradeStep, Listed
  <2>7. TypeOK'
    BY <1>1, <2>1, <2>5, Appended DEF SaveTrade, TypeOK, IInv
  <2>8. QED BY <2>5, <2>6, <2>7 DEF Good, LedgerStep
<1>2. CASE SaveCashFlow(t)
  <2> DEFINE tr == thread[t].trade
             f == [account |-> tr.account, amount |-> SignedAmount(tr), trade |-> thread[t].number]
  <2>1. tr \in Trade /\ thread[t].job # "cleanup" /\ thread[t].number \in Nat
    BY <1>0, <1>2 DEF SaveCashFlow, Formed, Local
  <2>2. PICK x : x = AfterFlow(thread[t])
    OBVIOUS
  <2>3. Formed(x) /\ Outside(x) /\ x.job # "cleanup"
    <3>1. CASE thread[t].job = "command"
      <4>1. x = [thread[t] EXCEPT !.at = "load"]
        BY <2>2, <3>1 DEF AfterFlow
      <4>2. QED BY <1>0, <1>2, <2>1, <3>1, <4>1 DEF SaveCashFlow, Formed, Local, Steps
    <3>2. CASE thread[t].job = "single"
      BY <2>2, <3>2, IdleFormed DEF AfterFlow
    <3>3. CASE thread[t].job \notin {"command", "single"}
      <4>1. x = [thread[t] EXCEPT !.at = "next", !.trade = NoTrade, !.number = 0]
        BY <2>2, <3>3 DEF AfterFlow
      <4>2. NoTrade \in Draft
        BY DEF NoTrade, Draft, Sides
      <4>3. QED BY <1>0, <2>1, <3>3, <4>1, <4>2 DEF Formed, Local, Steps
    <3>4. QED BY <3>1, <3>2, <3>3
  <2>4. Goto(t, x)
    BY <1>2, <2>2 DEF SaveCashFlow
  <2>5. /\ thread' \in [Threads -> Local] /\ ThreadInv'
        /\ thread'[t] = x /\ Others(t)
    BY <2>3, <2>4, Moved
  <2>6. TradeFlowStep(t)
    BY <1>2, <2>3, <2>5 DEF SaveCashFlow, TradeFlowStep, Listed, InsertFlow
  <2>7. f \in CashFlow
    BY <2>1, FlowRecord
  <2>8. TypeOK'
    BY <1>2, <2>5, <2>7, Appended DEF SaveCashFlow, InsertFlow, TypeOK, IInv
  <2>9. QED BY <2>5, <2>6, <2>8 DEF Good, LedgerStep
<1>3. QED BY <1>1, <1>2

LEMMA BatchStartsGood ==
  ASSUME IInv, NEW t \in Threads, Batches(t)
  PROVE  Good
<1> USE DEF Outside
<1>1. PICK key \in Keys \cup {NoKey} :
        \/ \E todo \in SUBSET OrderIds :
             ProcessPendingTrades(t, todo, key) \/ CleanupAccountHistory(t, todo, key)
        \/ \E n \in 1..MaxBatch : BatchExecuteTrades(t, n, key)
  BY DEF Batches
<1>2. ASSUME NEW todo \in SUBSET OrderIds, ProcessPendingTrades(t, todo, key) PROVE Good
  <2> DEFINE x == [Idle EXCEPT !.at = "next", !.job = "process", !.todo = todo, !.key = key]
  <2>1. Formed(x) /\ Outside(x) /\ x.job = "process"
    BY DEF Formed, Idle, NoTrade, Local, Draft, Steps, Sides
  <2>2. Goto(t, x)
    BY <1>2 DEF ProcessPendingTrades
  <2> HIDE DEF x
  <2>3. QED
    BY <1>2, <2>1, <2>2, RequestAt, ReadGood DEF ProcessPendingTrades, tables, IInv, TypeOK
<1>3. ASSUME NEW todo \in SUBSET OrderIds, CleanupAccountHistory(t, todo, key) PROVE Good
  <2> DEFINE x == [Idle EXCEPT !.at = "next", !.job = "cleanup", !.todo = todo, !.key = key]
  <2>1. Formed(x) /\ Outside(x) /\ x.todo = todo
    BY DEF Formed, Idle, NoTrade, Local, Draft, Steps, Sides
  <2>2. Goto(t, x) /\ todo \subseteq Cancelled
    BY <1>3 DEF CleanupAccountHistory, Cancelled
  <2> HIDE DEF x
  <2>3. QED
    BY <1>3, <2>1, <2>2, RequestAt, ReadGood DEF CleanupAccountHistory, tables, IInv, TypeOK
<1>4. ASSUME NEW n \in 1..MaxBatch, BatchExecuteTrades(t, n, key) PROVE Good
  <2> DEFINE x == [Idle EXCEPT !.at = "next", !.job = "batch", !.more = n, !.key = key]
  <2>0. n \in Nat
    BY BoundsAssumption
  <2>1. Formed(x) /\ Outside(x) /\ x.job = "batch"
    BY <2>0 DEF Formed, Idle, NoTrade, Local, Draft, Steps, Sides
  <2>2. Goto(t, x)
    BY <1>4 DEF BatchExecuteTrades
  <2> HIDE DEF x
  <2>3. QED
    BY <1>4, <2>1, <2>2, RequestAt, ReadGood DEF BatchExecuteTrades, tables, IInv, TypeOK
<1>5. QED BY <1>1, <1>2, <1>3, <1>4

LEMMA BatchStepsGood ==
  ASSUME IInv, NEW t \in Threads,
         \/ \E o \in OrderIds, a \in Accounts, s \in Symbols, side \in Sides, q \in Quantities,
               p \in Prices : BatchSubmit(t, o, a, s, side, q, p)
         \/ BatchSkip(t) \/ BatchFill(t) \/ BatchDone(t)
  PROVE  Good
<1> USE DEF Outside, At
<1>0. Formed(thread[t])
  BY DEF IInv, ThreadInv
<1>a. thread[t].more \in Nat /\ thread[t].todo \subseteq OrderIds /\ thread[t].trade \in Draft
  BY <1>0 DEF Formed, Local
<1>b. thread[t].job = "cleanup" => thread[t].todo \subseteq Cancelled \cup purged
  BY DEF IInv, CleanupInv
<1>1. ASSUME NEW o \in OrderIds, NEW a \in Accounts, NEW s \in Symbols, NEW side \in Sides,
             NEW q \in Quantities, NEW p \in Prices, BatchSubmit(t, o, a, s, side, q, p)
      PROVE  Good
  <2>0. thread[t].more > 0
    BY <1>1 DEF BatchSubmit
  <2>1. PICK n \in Nat : n = thread[t].more - 1
    BY <1>a, <2>0
  <2> DEFINE x == [thread[t] EXCEPT !.at = "fill", !.trade = [@ EXCEPT !.order = o], !.more = n]
  <2>2. RowsKept /\ Cancelled' = Cancelled /\ orders' \in [OrderIds -> Order \cup {NoOrder}]
    BY <1>1, InsertKeeps DEF BatchSubmit
  <2>3. Formed(x) /\ Outside(x) /\ x.job = thread[t].job /\ x.todo = thread[t].todo
    BY <1>0, <1>1 DEF BatchSubmit, Formed, Local, Draft, Steps
  <2>4. Goto(t, x) /\ Outside(thread[t])
    BY <1>1, <2>1 DEF BatchSubmit
  <2> HIDE DEF x
  <2>5. QED
    BY <1>1, <1>b, <2>2, <2>3, <2>4, QuietGood DEF BatchSubmit, IInv, TypeOK
<1>2. CASE BatchSkip(t)
  <2>1. PICK n \in Nat : n = thread[t].more - 1
    BY <1>2, <1>a DEF BatchSkip
  <2> DEFINE x == [thread[t] EXCEPT !.more = n]
  <2>2. Formed(x) /\ Outside(x) /\ x.job = thread[t].job /\ x.todo = thread[t].todo
    BY <1>0, <1>2 DEF BatchSkip, Formed, Local
  <2>3. Goto(t, x) /\ Outside(thread[t])
    BY <1>2, <2>1 DEF BatchSkip
  <2> HIDE DEF x
  <2>4. QED BY <1>2, <1>b, <2>2, <2>3, ReadGood DEF BatchSkip, tables, IInv, TypeOK
<1>3. CASE BatchFill(t)
  <2> DEFINE o == thread[t].trade.order
             x == [thread[t] EXCEPT !.at = "trade", !.trade = TradeOf(o)]
             y == [thread[t] EXCEPT !.at = "next", !.trade = NoTrade]
  <2>1. o \in OrderIds /\ Outside(thread[t]) /\ thread[t].job = "batch"
    BY <1>0, <1>3 DEF BatchFill, Formed
  <2>2. CASE Transition(o, "pending", "filled") /\ Goto(t, x)
    <3>1. TradeOf(o) \in Trade /\ TradeOf(o).order = o
      BY <1>3, <2>1, <2>2, FillKeeps DEF BatchFill
    <3>2. Formed(x) /\ x.at = "trade" /\ x.trade.order = o
      BY <1>0, <2>1, <3>1, AmountsAssumption DEF Formed, Local, Draft, Trade, Steps
    <3> HIDE DEF x
    <3>3. QED BY <1>3, <2>1, <2>2, <3>2, FillGood DEF BatchFill
  <2>3. CASE UNCHANGED orders /\ Goto(t, y)
    <3>1. NoTrade \in Draft
      BY DEF NoTrade, Draft, Sides
    <3>2. Formed(y) /\ Outside(y) /\ y.job = "batch"
      BY <1>0, <2>1, <3>1 DEF Formed, Local, Steps
    <3> HIDE DEF y
    <3>3. QED BY <1>3, <2>1, <2>3, <3>2, ReadGood DEF BatchFill, IInv, TypeOK
  <2>4. QED BY <1>3, <2>2, <2>3 DEF BatchFill
<1>4. CASE BatchDone(t)
  <2>1. records' \subseteq Keys
    BY <1>0, <1>4 DEF BatchDone, Formed, Local, IInv, TypeOK
  <2>2. QED
    BY <1>4, <2>1, IdleFormed, ReadGood DEF BatchDone, tables, IInv, TypeOK
<1>5. QED BY <1>1, <1>2, <1>3, <1>4

LEMMA ListStepsGood ==
  ASSUME IInv, NEW t \in Threads, NEW o \in OrderIds, ProcessNext(t, o) \/ CleanupNext(t, o)
  PROVE  Good
<1> USE DEF Outside, At
<1> DEFINE x == [thread[t] EXCEPT !.todo = @ \ {o}]
           y == [x EXCEPT !.at = "trade", !.trade = TradeOf(o)]
<1>0. Formed(thread[t]) /\ Outside(thread[t]) /\ thread[t].todo \subseteq OrderIds
  BY DEF IInv, ThreadInv, Formed, Local, ProcessNext, CleanupNext
<1>1. Formed(x) /\ Outside(x) /\ x.job = thread[t].job /\ x.todo = thread[t].todo \ {o}
  BY <1>0 DEF Formed, Local
<1>2. CASE ProcessNext(t, o)
  <2>1. CASE Transition(o, "pending", "filled") /\ Goto(t, y)
    <3>1. TradeOf(o) \in Trade /\ TradeOf(o).order = o
      BY <1>2, <2>1, FillKeeps DEF ProcessNext
    <3>2. Formed(y) /\ y.at = "trade" /\ y.trade.order = o
      BY <1>0, <1>2, <3>1, AmountsAssumption DEF ProcessNext, Formed, Local, Draft, Trade, Steps
    <3> HIDE DEF y
    <3>3. QED BY <1>0, <1>2, <2>1, <3>2, FillGood DEF ProcessNext
  <2>2. CASE UNCHANGED orders /\ Goto(t, x)
    <3> HIDE DEF x
    <3>1. QED BY <1>0, <1>1, <1>2, <2>2, ReadGood DEF ProcessNext, IInv, TypeOK
  <2>3. QED BY <1>2, <2>1, <2>2 DEF ProcessNext
<1>3. CASE CleanupNext(t, o)
  <2>1. thread[t].todo \subseteq Cancelled \cup purged /\ o \in Cancelled \cup purged
    BY <1>3 DEF CleanupNext, IInv, CleanupInv
  <2>2. orders' = [orders EXCEPT ![o] = NoOrder] /\ purged' = purged \cup {o}
    BY <1>3 DEF CleanupNext
  <2>3. RowsKept /\ orders' \in [OrderIds -> Order \cup {NoOrder}]
    BY <2>1, <2>2
    DEF IInv, TypeOK, RowsKept, Filled, Cancelled, InStatus, Rows, CleanupInv
  <2>4. thread[t].todo \subseteq Cancelled' \cup purged'
    BY <2>1, <2>3 DEF RowsKept
  <2>5. Goto(t, x)
    BY <1>3 DEF CleanupNext
  <2> HIDE DEF x
  <2>6. QED
    BY <1>0, <1>1, <1>3, <2>2, <2>3, <2>4, <2>5, QuietGood DEF CleanupNext, IInv, TypeOK
<1>4. QED BY <1>2, <1>3

-----------------------------------------------------------------------------
(* The inductive invariant                                                 *)

LEMMA InitInv == Init => IInv
<1> SUFFICES ASSUME Init PROVE IInv
  OBVIOUS
<1> USE DEF Init
<1>1. TypeOK
  BY IdleFormed DEF TypeOK, Formed
<1>2. ThreadInv
  BY IdleFormed DEF ThreadInv
<1>3. SavingInv /\ FlowingInv /\ CleanupInv
  BY IdleFormed DEF SavingInv, FlowingInv, CleanupInv, At
<1>4. FilledOnce /\ FlowsMatchTrades /\ FilledTracked
  BY DEF FilledOnce, FlowsMatchTrades, FilledTracked, InStatus, Rows
<1>5. QED BY <1>1, <1>2, <1>3, <1>4 DEF IInv

\* Every step of the specification is a step of one of the kinds.
LEMMA NextGood ==
  ASSUME IInv, [Next]_vars
  PROVE  Good
<1>1. CASE UNCHANGED vars
  BY <1>1 DEF Good, LedgerStep, vars, IInv, TypeOK, ThreadInv
<1>2. CASE Crash
  BY <1>2, IdleFormed DEF Good, LedgerStep, Crash, tables, IInv, TypeOK, ThreadInv, Formed
<1>3. ASSUME NEW t \in Threads, Start(t) \/ Step(t) PROVE Good
  BY <1>3, CashGood, OrdersGood, CommandsGood, BatchStartsGood, CommandStepsGood, SavesGood,
     ListStepsGood, BatchStepsGood
  DEF Start, Step
<1>4. QED BY <1>1, <1>2, <1>3 DEF Next

\* The strengthened invariant: what requests hold, which trade and flow each
\* is about to write, what the clean-up may delete, and the properties.
THEOREM InductiveInvariant == Spec => []IInv
<1>1. IInv /\ [Next]_vars => IInv'
  BY NextGood, FilledOnceStep, FlowsMatchStep, CleanupStep DEF Good, IInv
<1>2. QED BY <1>1, InitInv, PTL DEF Spec

\* Type correctness; in particular no position becomes negative.
THEOREM TypeCorrect == Spec => []TypeOK
BY InductiveInvariant, PTL DEF IInv

\* An order is executed at most once and a trade moves cash at most once.
THEOREM FilledOnceCorrect == Spec => []FilledOnce
BY InductiveInvariant, PTL DEF IInv

\* The flow of a trade moves the notional of that trade and, without a crash,
\* nothing of a fill is lost (fill_order, save_cash_flow).
THEOREM BookedCorrect == Spec => []TradesBooked
<1>1. IInv => TradesBooked
  BY DEF IInv, TradesBooked
<1>2. QED BY <1>1, InductiveInvariant, PTL

-----------------------------------------------------------------------------
(* The order book: first that a request about to execute an order, and the *)
(* trade that did, are of the account, symbol and side of the order.       *)

\* These are all the ways in which a step changes the order table.
RowStep ==
  \/ UNCHANGED <<orders, purged>>
  \/ /\ UNCHANGED <<purged, trades, flows>>
     /\ \/ \E o \in OrderIds, a \in Accounts, s \in Symbols, side \in Sides, q \in Quantities,
              p \in Prices : InsertOrder(o, a, s, side, q, p)
        \/ \E o \in OrderIds : \E to \in {"filled", "cancelled"} : Transition(o, "pending", to)
        \/ \E t \in Threads, o \in OrderIds, q \in Quantities, p \in Prices : UpdateOrder(t, o, q, p)
  \/ \E t \in Threads, o \in OrderIds : CleanupNext(t, o)

LEMMA RowSteps ==
  ASSUME IInv, [Next]_vars
  PROVE  RowStep
<1>1. CASE UNCHANGED vars
  BY <1>1 DEF RowStep, vars
<1>2. CASE Crash
  BY <1>2 DEF RowStep, Crash, tables
<1>3. ASSUME NEW t \in Threads, Start(t) PROVE RowStep
  <2>1. CASE Cash(t)
    BY <2>1 DEF RowStep, Cash, CreateAccount, Deposit, Withdraw, tables
  <2>2. CASE Orders(t)
    BY <2>2 DEF RowStep, Orders, SubmitOrder, UpdateOrder, CancelOrder, DeleteOrder, FillOrder, tables
  <2>3. CASE Commands(t)
    BY <2>3 DEF RowStep, Commands, TradeCommand, tables
  <2>4. CASE Batches(t)
    BY <2>4 DEF RowStep, Batches, ProcessPendingTrades, CleanupAccountHistory, BatchExecuteTrades,
                tables
  <2>5. QED BY <1>3, <2>1, <2>2, <2>3, <2>4 DEF Start
<1>4. ASSUME NEW t \in Threads, Step(t) PROVE RowStep
  <2>1. thread[t].trade \in Draft /\ thread[t].todo \subseteq OrderIds /\ Formed(thread[t])
    BY DEF IInv, ThreadInv, Formed, Local
  <2>2. ASSUME NEW o \in OrderIds, CommandSubmit(t, o) PROVE RowStep
    <3>1. /\ thread[t].trade.account \in Accounts /\ thread[t].trade.symbol \in Symbols
          /\ thread[t].trade.side \in Sides /\ thread[t].trade.quantity \in Quantities
          /\ thread[t].trade.price \in Prices
      BY <2>1, <2>2 DEF CommandSubmit, Formed, Draft, At
    <3>2. QED BY <2>2, <3>1 DEF RowStep, CommandSubmit
  <2>3. ASSUME NEW o \in OrderIds, ProcessNext(t, o) \/ CleanupNext(t, o) PROVE RowStep
    BY <2>3 DEF RowStep, ProcessNext
  <2>4. ASSUME NEW o \in OrderIds, NEW a \in Accounts, NEW s \in Symbols, NEW side \in Sides,
               NEW q \in Quantities, NEW p \in Prices, BatchSubmit(t, o, a, s, side, q, p)
        PROVE  RowStep
    BY <2>4 DEF RowStep, BatchSubmit
  <2>5. CASE DeleteOrderSave(t)
    BY <2>1, <2>5 DEF RowStep, DeleteOrderSave
  <2>6. CASE CommandFill(t) \/ BatchFill(t)
    BY <2>1, <2>6 DEF RowStep, CommandFill, BatchFill, At, Formed
  <2>7. CASE \/ DepositCapital(t) \/ WithdrawSave(t) \/ SaveTrade(t) \/ SaveCashFlow(t)
             \/ LoadPosition(t) \/ StorePosition(t) \/ BatchSkip(t) \/ BatchDone(t)
    BY <2>7 DEF RowStep, DepositCapital, WithdrawSave, SaveTrade, SaveCashFlow, LoadPosition,
                StorePosition, BatchSkip, BatchDone, tables
  <2>8. QED BY <1>4, <2>2, <2>3, <2>4, <2>5, <2>6, <2>7 DEF Step
<1>5. QED BY <1>1, <1>2, <1>3, <1>4 DEF Next

\* A trade and the order it is of
Agrees(r, tr) == tr.account = r.account /\ tr.symbol = r.symbol /\ tr.side = r.side
Wanted(t) == thread[t].trade.order
Executing(t) == At(t, "trade") \/ (At(t, "fill") /\ thread[t].job = "command")

\* What a request executes agrees with its order, unless that is deleted.
ExecutingInv ==
  \A t \in Threads : Executing(t) =>
    Wanted(t) \in purged \/ (Wanted(t) \in Rows /\ Agrees(orders[Wanted(t)], thread[t].trade))
ExecutedInv == \A i \in DOMAIN trades : Agrees(orders[trades[i].order], trades[i])
AgreedInv == ExecutingInv /\ ExecutedInv

\* Account, symbol and side of a row never change.
RowsAgree ==
  /\ purged \subseteq purged'
  /\ \A o \in Rows : o \in purged' \/ (o \in Rows' /\ Agrees(orders[o], orders'[o]))

LEMMA RowsAgreeStep ==
  ASSUME IInv, RowStep
  PROVE  RowsAgree
<1> USE DEF RowsAgree, Agrees, Rows
<1>0. orders \in [OrderIds -> Order \cup {NoOrder}]
  BY DEF IInv, TypeOK
<1>1. CASE UNCHANGED <<orders, purged>>
  BY <1>1
<1>2. ASSUME UNCHANGED <<purged, trades, flows>>, NEW n \in OrderIds, NEW a \in Accounts,
             NEW s \in Symbols, NEW side \in Sides, NEW q \in Quantities, NEW p \in Prices,
             InsertOrder(n, a, s, side, q, p)
      PROVE  RowsAgree
  BY <1>0, <1>2 DEF InsertOrder
<1>3. ASSUME UNCHANGED <<purged, trades, flows>>, NEW n \in OrderIds,
             NEW to \in {"filled", "cancelled"}, Transition(n, "pending", to)
      PROVE  RowsAgree
  <2> DEFINE r == [orders[n] EXCEPT !.status = to]
  <2>1. /\ r \in Order /\ r # NoOrder
        /\ r.account = orders[n].account /\ r.symbol = orders[n].symbol /\ r.side = orders[n].side
    BY <1>0, <1>3, NoRowAssumption DEF Transition, InStatus, Order
  <2>2. orders' = [orders EXCEPT ![n] = r]
    BY <1>3 DEF Transition
  <2> HIDE DEF r
  <2>3. QED BY <1>0, <1>3, <2>1, <2>2
<1>4. ASSUME NEW t, NEW n \in OrderIds, NEW q \in Quantities, NEW p \in Prices,
             UpdateOrder(t, n, q, p)
      PROVE  RowsAgree
  <2> DEFINE r == [orders[n] EXCEPT !.quantity = q, !.price = p]
  <2>1. orders[n] \in Order
    BY <1>0, <1>4 DEF UpdateOrder, InStatus
  <2>2. /\ r \in Order /\ r # NoOrder
        /\ r.account = orders[n].account /\ r.symbol = orders[n].symbol /\ r.side = orders[n].side
    BY <2>1, NoRowAssumption DEF Order
  <2>3. orders' = [orders EXCEPT ![n] = r] /\ purged' = purged
    BY <1>0, <1>4, <2>1 DEF UpdateOrder, Order
  <2> HIDE DEF r
  <2>4. QED BY <1>0, <2>2, <2>3
<1>5. ASSUME NEW t, NEW n \in OrderIds, CleanupNext(t, n) PROVE RowsAgree
  BY <1>0, <1>5 DEF CleanupNext
<1>6. QED BY <1>1, <1>2, <1>3, <1>4, <1>5 DEF RowStep

\* What a request executes is what it executed before the step, or it has just
\* read or written the row.
Held(t) ==
  Executing(t)' =>
    \/ Executing(t) /\ thread'[t].trade = thread[t].trade
    \/ LET o == thread'[t].trade.order
       IN o \in Rows' /\ Agrees(orders'[o], thread'[t].trade)

\* A step of t that leaves it where it executes nothing
LEMMA RestsHeld ==
  ASSUME NEW t \in Threads, NEW x, IInv, Goto(t, x), ~(x.at = "trade"),
         ~(x.at = "fill" /\ x.job = "command")
  PROVE  \A u \in Threads : Held(u)
BY DEF Held, Executing, At, Goto, IInv, TypeOK

\* The row that a fill leaves agrees with the row it found.
LEMMA FilledAgrees ==
  ASSUME IInv, NEW o \in OrderIds, Transition(o, "pending", "filled")
  PROVE  o \in Rows' /\ Agrees(orders'[o], orders[o]) /\ Agrees(orders'[o], TradeOf(o))
<1>1. o \in InStatus("pending") /\ orders[o] \in Order
  BY DEF Transition, InStatus, Rows, IInv, TypeOK
<1> DEFINE r == [orders[o] EXCEPT !.status = "filled"]
<1>2. /\ r \in Order /\ r # NoOrder
      /\ r.account = orders[o].account /\ r.symbol = orders[o].symbol /\ r.side = orders[o].side
  BY <1>1, NoRowAssumption DEF Order
<1>3. orders' = [orders EXCEPT ![o] = r]
  BY DEF Transition
<1> HIDE DEF r
<1>4. orders'[o] = r
  BY <1>3 DEF IInv, TypeOK
<1>5. QED BY <1>2, <1>4 DEF Rows, Agrees, TradeOf

\* Thread t goes on to a trade that agrees with the row after the step.
LEMMA ReadsHeld ==
  ASSUME NEW t \in Threads, NEW x, IInv, Goto(t, x), x.trade.order \in Rows',
         Agrees(orders'[x.trade.order], x.trade)
  PROVE  \A u \in Threads : Held(u)
BY DEF Held, Executing, At, Goto, IInv, TypeOK

LEMMA StartsHeld ==
  ASSUME IInv, TypeOK', NEW t \in Threads, Start(t)
  PROVE  \A u \in Threads : Held(u)
<1>1. ASSUME UNCHANGED thread PROVE \A u \in Threads : Held(u)
  BY <1>1 DEF Held, Executing, At
<1>2. ASSUME NEW o \in OrderIds, FillOrder(t, o) PROVE \A u \in Threads : Held(u)
  <2> DEFINE x == [Idle EXCEPT !.at = "trade", !.trade = TradeOf(o)]
  <2>1. x.trade = TradeOf(o) /\ TradeOf(o).order = o
    BY DEF Idle, TradeOf
  <2>2. Goto(t, x) /\ Transition(o, "pending", "filled")
    BY <1>2 DEF FillOrder
  <2> HIDE DEF x
  <2>3. QED BY <2>1, <2>2, FilledAgrees, ReadsHeld
<1>3. CASE Cash(t)
  BY <1>1, <1>3, RestsHeld DEF Cash, CreateAccount, Deposit, Withdraw, Idle
<1>4. CASE Commands(t)
  BY <1>4, RestsHeld DEF Commands, TradeCommand, Idle
<1>5. CASE Batches(t)
  BY <1>5, RestsHeld DEF Batches, ProcessPendingTrades, CleanupAccountHistory, BatchExecuteTrades, Idle
<1>6. CASE Orders(t)
  BY <1>1, <1>2, <1>6, RestsHeld DEF Orders, SubmitOrder, UpdateOrder, CancelOrder, DeleteOrder, Idle
<1>7. QED BY <1>3, <1>4, <1>5, <1>6 DEF Start

\* Thread t keeps the trade it executes.
LEMMA KeepsHeld ==
  ASSUME NEW t \in Threads, NEW x, IInv, Goto(t, x), Executing(t), x.trade = thread[t].trade
  PROVE  \A u \in Threads : Held(u)
BY DEF Held, Executing, At, Goto, IInv, TypeOK

LEMMA StepsHeld ==
  ASSUME IInv, TypeOK', NEW t \in Threads, Step(t)
  PROVE  \A u \in Threads : Held(u)
<1>0. thread[t] \in Local /\ Formed(thread[t])
  BY DEF IInv, ThreadInv, TypeOK
<1>1. CASE DepositCapital(t) \/ WithdrawSave(t) \/ DeleteOrderSave(t) \/ BatchDone(t)
  BY <1>1, RestsHeld DEF DepositCapital, WithdrawSave, DeleteOrderSave, BatchDone, Idle
<1>2. ASSUME NEW o \in OrderIds, CommandSubmit(t, o) PROVE \A u \in Threads : Held(u)
  <2> DEFINE tr == thread[t].trade
             x == [thread[t] EXCEPT !.at = "fill", !.trade = [@ EXCEPT !.order = o]]
             r == [account |-> tr.account, symbol |-> tr.symbol, side |-> tr.side,
                   quantity |-> tr.quantity, price |-> tr.price, status |-> "pending"]
  <2>1. Goto(t, x) /\ orders' = [orders EXCEPT ![o] = r]
    BY <1>2 DEF CommandSubmit, InsertOrder
  <2>2. tr \in Draft
    BY <1>0 DEF Local
  <2>3. /\ x.trade.order = o /\ x.trade.account = tr.account /\ x.trade.symbol = tr.symbol
        /\ x.trade.side = tr.side
    BY <1>0, <2>2 DEF Local, Draft
  <2>4. r \in Order /\ r # NoOrder
    BY <1>0, <1>2, <2>2, NoRowAssumption DEF CommandSubmit, At, Formed, Order, Draft
  <2>5. r.account = tr.account /\ r.symbol = tr.symbol /\ r.side = tr.side
    OBVIOUS
  <2> HIDE DEF x, r, tr
  <2>6. orders'[o] = r /\ o \in Rows'
    BY <2>1, <2>4 DEF Rows, IInv, TypeOK
  <2>7. QED BY <2>1, <2>3, <2>5, <2>6, ReadsHeld DEF Agrees
<1>3. ASSUME NEW o \in OrderIds, ProcessNext(t, o) PROVE \A u \in Threads : Held(u)
  <2> DEFINE rest == [thread[t] EXCEPT !.todo = @ \ {o}]
  <2>1. rest.at = "next" /\ rest.job = thread[t].job /\ TradeOf(o).order = o
    BY <1>0, <1>3 DEF ProcessNext, At, Local, TradeOf
  <2>2. CASE Goto(t, rest)
    BY <2>1, <2>2, RestsHeld
  <2>3. CASE /\ Transition(o, "pending", "filled")
             /\ Goto(t, [rest EXCEPT !.at = "trade", !.trade = TradeOf(o)])
    <3>1. [rest EXCEPT !.at = "trade", !.trade = TradeOf(o)].trade = TradeOf(o)
      BY <1>0 DEF Local
    <3>2. QED BY <2>1, <2>3, <3>1, FilledAgrees, ReadsHeld
  <2>4. QED BY <1>3, <2>2, <2>3 DEF ProcessNext
<1>4. ASSUME NEW o \in OrderIds, CleanupNext(t, o) PROVE \A u \in Threads : Held(u)
  <2> DEFINE x == [thread[t] EXCEPT !.todo = @ \ {o}]
  <2>1. x.at = "next" /\ Goto(t, x)
    BY <1>0, <1>4 DEF CleanupNext, At, Local
  <2>2. QED BY <2>1, RestsHeld
<1>5. ASSUME NEW o \in OrderIds, NEW a \in Accounts, NEW s \in Symbols, NEW side \in Sides,
             NEW q \in Quantities, NEW p \in Prices, BatchSubmit(t, o, a, s, side, q, p)
      PROVE  \A u \in Threads : Held(u)
  <2> DEFINE x == [thread[t] EXCEPT !.at = "fill", !.trade = [@ EXCEPT !.order = o], !.more = @ - 1]
  <2>1. x.at = "fill" /\ x.job = thread[t].job /\ Goto(t, x)
    BY <1>0, <1>5 DEF BatchSubmit, Local
  <2>2. thread[t].job # "command"
    BY <1>0, <1>5 DEF BatchSubmit, At, Formed
  <2>3. QED BY <2>1, <2>2, RestsHeld
<1>6. CASE CommandFill(t)
  <2> DEFINE x == [thread[t] EXCEPT !.at = "trade"]
  <2>1. x.trade = thread[t].trade
    BY <1>0 DEF Local
  <2>2. Executing(t) /\ (Goto(t, x) \/ Goto(t, Idle))
    BY <1>6 DEF CommandFill, Executing
  <2>3. QED BY <2>1, <2>2, KeepsHeld, RestsHeld DEF Idle
<1>7. CASE SaveTrade(t)
  <2> DEFINE x == [thread[t] EXCEPT !.at = "flow", !.number = Len(trades) + 1]
  <2>1. x.at = "flow" /\ Goto(t, x)
    BY <1>0, <1>7 DEF SaveTrade, Local
  <2>2. QED BY <2>1, RestsHeld
<1>8. CASE SaveCashFlow(t)
  <2>1. Goto(t, AfterFlow(thread[t]))
    BY <1>8 DEF SaveCashFlow
  <2>2. AfterFlow(thread[t]).at \in {"load", "idle", "next"}
    BY <1>0 DEF AfterFlow, Idle, Local
  <2>3. QED BY <2>1, <2>2, RestsHeld
<1>9. CASE LoadPosition(t)
  <2> DEFINE x == [thread[t] EXCEPT !.at = "store", !.held =
                     positions[<<thread[t].trade.account, thread[t].trade.symbol>>]]
  <2>1. x.at = "store" /\ (Goto(t, x) \/ Goto(t, Idle))
    BY <1>0, <1>9 DEF LoadPosition, Local
  <2>2. QED BY <2>1, RestsHeld DEF Idle
<1>10. CASE StorePosition(t)
  BY <1>10, RestsHeld DEF StorePosition, Idle
<1>11. CASE BatchSkip(t)
  <2> DEFINE x == [thread[t] EXCEPT !.more = @ - 1]
  <2>1. x.at = "next" /\ Goto(t, x)
    BY <1>0, <1>11 DEF BatchSkip, At, Local
  <2>2. QED BY <2>1, RestsHeld
<1>12. CASE BatchFill(t)
  <2> DEFINE o == thread[t].trade.order
             x == [thread[t] EXCEPT !.at = "trade", !.trade = TradeOf(o)]
             y == [thread[t] EXCEPT !.at = "next", !.trade = NoTrade]
  <2>1. x.trade = TradeOf(o) /\ y.at = "next" /\ TradeOf(o).order = o
    BY <1>0 DEF Local, TradeOf
  <2>2. o \in OrderIds
    BY <1>0, <1>12 DEF BatchFill, At, Formed
  <2>3. (Transition(o, "pending", "filled") /\ Goto(t, x)) \/ Goto(t, y)
    BY <1>12 DEF BatchFill
  <2> HIDE DEF x, y, o
  <2>4. QED BY <2>1, <2>2, <2>3, FilledAgrees, ReadsHeld, RestsHeld
<1>13. QED BY <1>1, <1>2, <1>3, <1>4, <1>5, <1>6, <1>7, <1>8, <1>9, <1>10, <1>11, <1>12 DEF Step

\* No request executes what disagrees with its order.
LEMMA NextHeld ==
  ASSUME IInv, TypeOK', [Next]_vars
  PROVE  \A u \in Threads : Held(u)
<1>1. CASE UNCHANGED vars
  BY <1>1 DEF Held, Executing, At, vars
<1>2. CASE Crash
  BY <1>2 DEF Held, Executing, At, Crash, Idle
<1>3. QED BY <1>1, <1>2, StartsHeld, StepsHeld DEF Next

LEMMA AgreedStep ==
  ASSUME IInv, IInv', AgreedInv, [Next]_vars
  PROVE  AgreedInv'
<1>1. RowsAgree /\ LedgerStep /\ \A u \in Threads : Held(u)
  BY RowSteps, RowsAgreeStep, NextGood, NextHeld DEF IInv, Good
<1>2. ExecutingInv'
  <2> SUFFICES ASSUME NEW t \in Threads, Executing(t)'
               PROVE  Wanted(t)' \in purged' \/ (Wanted(t)' \in Rows' /\ Agrees(orders[Wanted(t)], thread[t].trade)')
    BY DEF ExecutingInv
  <2>1. CASE Executing(t) /\ thread'[t].trade = thread[t].trade
    BY <1>1, <2>1 DEF AgreedInv, ExecutingInv, RowsAgree, Agrees, Wanted
  <2>2. QED BY <1>1, <2>1 DEF Held, Wanted, Agrees
<1>3. ExecutedInv'
  <2>1. ASSUME NEW i \in DOMAIN trades PROVE Agrees(orders'[trades[i].order], trades[i]) \/ trades[i].order \in purged'
    BY <1>1, <2>1 DEF AgreedInv, ExecutedInv, RowsAgree, Agrees, IInv, FilledOnce, InStatus
  <2>2. \A i \in DOMAIN trades' : trades'[i].order \notin purged'
    BY DEF IInv, FilledOnce, InStatus, Rows, CleanupInv
  <2>3. CASE trades' = trades
    BY <2>1, <2>2, <2>3 DEF ExecutedInv, Agrees
  <2>4. ASSUME NEW t \in Threads, TradeStep(t) PROVE ExecutedInv'
    <3>1. thread[t].trade \in Trade /\ trades \in Seq(Trade)
      BY <2>4 DEF TradeStep, IInv, ThreadInv, Formed, At, TypeOK
    <3>2. /\ \A i \in DOMAIN trades : trades'[i] = trades[i] /\ i \in DOMAIN trades'
          /\ DOMAIN trades' = DOMAIN trades \cup {Len(trades) + 1}
          /\ trades'[Len(trades) + 1] = thread[t].trade
      BY <2>4, <3>1, Appended DEF TradeStep
    <3>3. Wanted(t) \in purged \/ Agrees(orders[Wanted(t)], thread[t].trade)
      BY <2>4 DEF AgreedInv, ExecutingInv, Executing, TradeStep
    <3>4. orders' = orders /\ purged' = purged
      BY <2>4 DEF TradeStep
    <3>5. QED BY <2>1, <2>2, <3>2, <3>3, <3>4 DEF ExecutedInv, Agrees, Wanted
  <2>5. QED BY <1>1, <2>3, <2>4 DEF LedgerStep, vars, Crash, tables, QuietStep, FillStep, TradeFlowStep, PaymentStep
<1>4. QED BY <1>2, <1>3 DEF AgreedInv

-----------------------------------------------------------------------------
(* The refinement: what a step changes of one order, and of no other       *)

\* The only row of a table with an order, and with a number, is the one chosen.
LEMMA ChosenTrade ==
  ASSUME NEW table, NEW o, NEW i \in DOMAIN table, table[i].order = o,
         \A j \in DOMAIN table : table[j].order = o => j = i
  PROVE  (CHOOSE j \in DOMAIN table : table[j].order = o) = i
OBVIOUS

LEMMA ChosenFlow ==
  ASSUME NEW table, NEW n, NEW i \in DOMAIN table, table[i].trade = n,
         \A j \in DOMAIN table : table[j].trade = n => j = i
  PROVE  (CHOOSE j \in DOMAIN table : table[j].trade = n) = i
OBVIOUS

LEMMA Executions ==
  ASSUME FilledOnce, NEW i \in DOMAIN trades, NEW o, trades[i].order = o
  PROVE  Execution(o) = i /\ TradesOf(o) = {i}
BY ChosenTrade DEF FilledOnce, Execution, TradesOf

\* Only a filled order has a trade.
LEMMA Unexecuted ==
  ASSUME FilledOnce, NEW o, o \notin Filled
  PROVE  /\ TradesOf(o) = {} /\ ~Paid(o)
         /\ TradeTerms(o) = NoOrder /\ CashMoved(o) = 0
BY DEF FilledOnce, TradesOf, Paid, TradeTerms, CashMoved, Filled

\* The trade and the cash of order o stay as they are.
ExecutionKept(o) ==
  /\ TradesOf(o)' = TradesOf(o)
  /\ Paid(o)' = Paid(o)
  /\ TradeTerms(o)' = TradeTerms(o)
  /\ CashMoved(o)' = CashMoved(o)

EntryKept(o) ==
  /\ Stage(o)' = Stage(o)
  /\ OrderTerms(o)' = OrderTerms(o)
  /\ ExecutionKept(o)

\* Rows are only added, none of them for order o.
LEMMA KeptExecution ==
  ASSUME IInv, IInv', NEW o,
         \A i \in DOMAIN trades : i \in DOMAIN trades' /\ trades'[i] = trades[i],
         \A i \in DOMAIN trades' : trades'[i].order = o => i \in DOMAIN trades,
         \A j \in DOMAIN flows : j \in DOMAIN flows' /\ flows'[j] = flows[j],
         \A j \in DOMAIN flows', i \in DOMAIN trades :
           trades[i].order = o /\ flows'[j].trade = i => j \in DOMAIN flows
  PROVE  ExecutionKept(o)
<1>1. FilledOnce /\ FilledOnce' /\ trades \in Seq(Trade)
  BY DEF IInv, TypeOK
<1>2. CASE \A i \in DOMAIN trades : trades[i].order # o
  BY <1>2 DEF ExecutionKept, TradesOf, Paid, TradeTerms, CashMoved
<1>3. ASSUME NEW i \in DOMAIN trades, trades[i].order = o PROVE ExecutionKept(o)
  <2>1. Execution(o) = i /\ TradesOf(o) = {i}
    BY <1>1, <1>3, Executions
  <2>2. Execution(o)' = i
    BY <1>1, <1>3, ChosenTrade DEF Execution, FilledOnce
  <2>3. TradesOf(o)' = {i}
    BY <1>1, <1>3 DEF TradesOf, FilledOnce
  <2>4. FlowsOf(i)' = FlowsOf(i)
    BY <1>3 DEF FlowsOf
  <2>5. Paid(o)' = Paid(o)
    BY <2>1, <2>2, <2>3, <2>4 DEF Paid, FlowsOf
  <2>6. TradeTerms(o)' = TradeTerms(o)
    BY <1>3, <2>1, <2>2, <2>3 DEF TradeTerms, TermsOf
  <2>7. CashMoved(o)' = CashMoved(o)
    <3>1. CASE FlowsOf(i) = {}
      BY <2>1, <2>5, <3>1 DEF CashMoved, Paid
    <3>2. ASSUME NEW j \in DOMAIN flows, flows[j].trade = i PROVE CashMoved(o)' = CashMoved(o)
      <4>1. i # 0
        BY <1>1
      <4>2. Settlement(i) = j
        BY <1>1, <3>2, <4>1, ChosenFlow DEF FilledOnce, Settlement
      <4>3. Settlement(i)' = j
        BY <1>1, <3>2, <4>1, ChosenFlow DEF FilledOnce, Settlement
      <4>4. QED BY <2>1, <2>2, <2>5, <3>2, <4>2, <4>3 DEF CashMoved
    <3>3. QED BY <3>1, <3>2 DEF FlowsOf
  <2>8. QED BY <2>1, <2>3, <2>5, <2>6, <2>7 DEF ExecutionKept
<1>4. QED BY <1>2, <1>3

LEMMA KeptEntry ==
  ASSUME NEW o, ExecutionKept(o), orders'[o] = orders[o], o \in purged' <=> o \in purged
  PROVE  EntryKept(o)
BY DEF EntryKept, ExecutionKept, Stage, OrderTerms, Rows

\* Nothing of trades and flows changes.
LEMMA KeptTables ==
  ASSUME IInv, IInv', UNCHANGED <<trades, flows>>, NEW o
  PROVE  ExecutionKept(o)
<1>1. trades' = trades /\ flows' = flows
  OBVIOUS
<1>2. QED BY <1>1, KeptExecution

LEMMA KeptBook ==
  ASSUME \A o \in OrderIds : EntryKept(o)
  PROVE  UNCHANGED <<Stages, TermsBook, TradeBook, CashBook>>
BY DEF EntryKept, ExecutionKept, Stages, TermsBook, TradeBook, CashBook

\* One entry changes.
LEMMA OneEntry ==
  ASSUME NEW n \in OrderIds, \A o \in OrderIds \ {n} : EntryKept(o)
  PROVE  /\ Stages' = [Stages EXCEPT ![n] = Stage(n)']
         /\ TermsBook' = [TermsBook EXCEPT ![n] = OrderTerms(n)']
         /\ TradeBook' = [TradeBook EXCEPT ![n] = TradeTerms(n)']
         /\ CashBook' = [CashBook EXCEPT ![n] = CashMoved(n)']
         /\ OrderTerms(n)' = OrderTerms(n) => TermsBook' = TermsBook
         /\ TradeTerms(n)' = TradeTerms(n) => TradeBook' = TradeBook
         /\ CashMoved(n)' = CashMoved(n) => CashBook' = CashBook
         /\ Stages[n] = Stage(n) /\ TermsBook[n] = OrderTerms(n) /\ TradeBook[n] = TradeTerms(n)
BY DEF EntryKept, ExecutionKept, Stages, TermsBook, TradeBook, CashBook

BookStep == Book!Next \/ UNCHANGED <<Stages, TermsBook, TradeBook, CashBook>>

\* The terms of a row and of a trade
LEMMA TermsFields ==
  ASSUME NEW r, r \in Order \/ r \in Trade
  PROVE  /\ TermsOf(r) \in Book!Terms
         /\ TermsOf(r).account = r.account /\ TermsOf(r).symbol = r.symbol /\ TermsOf(r).side = r.side
         /\ TermsOf(r).quantity = r.quantity /\ TermsOf(r).price = r.price
BY DEF TermsOf, Book!Terms, Order, Trade, Sides

\* A step that changes rows changes one entry, the trades and flows of none.
LEMMA RowMoves ==
  ASSUME IInv, IInv', RowStep, UNCHANGED <<trades, flows>>
  PROVE  BookStep
<1> USE DEF BookStep, Book!Next, Book!Turn
<1>0. /\ orders \in [OrderIds -> Order \cup {NoOrder}] /\ FilledOnce
      /\ \A o \in purged : orders[o] = NoOrder
      /\ \A o \in OrderIds : ExecutionKept(o)
  BY KeptTables DEF IInv, TypeOK, CleanupInv
<1>1. CASE UNCHANGED <<orders, purged>>
  <2>1. \A o \in OrderIds : EntryKept(o)
    BY <1>0, <1>1, KeptEntry
  <2>2. QED BY <2>1, KeptBook
<1>2. ASSUME UNCHANGED purged, NEW n \in OrderIds, NEW a \in Accounts, NEW s \in Symbols,
             NEW side \in Sides, NEW q \in Quantities, NEW p \in Prices,
             InsertOrder(n, a, s, side, q, p)
      PROVE  BookStep
  <2> DEFINE r == [account |-> a, symbol |-> s, side |-> side, quantity |-> q, price |-> p,
                   status |-> "pending"]
  <2>1. r # NoOrder /\ r.status = "pending" /\ TermsOf(r) \in Book!Terms
    BY NoRowAssumption DEF Order, TermsOf, Book!Terms, Sides
  <2>2. orders[n] = NoOrder /\ n \notin purged /\ orders' = [orders EXCEPT ![n] = r]
    BY <1>2 DEF InsertOrder
  <2> HIDE DEF r
  <2>3. \A o \in OrderIds \ {n} : EntryKept(o)
    BY <1>0, <1>2, <2>2, KeptEntry
  <2>4. TradesOf(n) = {} /\ TradesOf(n)' = {}
    BY <1>0, <2>2, Unexecuted DEF ExecutionKept, Filled, InStatus, Rows
  <2>5. Stage(n) = "new" /\ Stage(n)' = "pending" /\ OrderTerms(n)' = TermsOf(r)
    BY <1>0, <2>1, <2>2, <2>4 DEF Stage, OrderTerms, Rows, TermsOf
  <2>6. Book!Submit(n)
    BY <1>0, <2>1, <2>3, <2>5, OneEntry DEF Book!Submit, ExecutionKept
  <2>7. QED BY <2>6
<1>3. ASSUME UNCHANGED purged, NEW n \in OrderIds, NEW to \in {"filled", "cancelled"},
             Transition(n, "pending", to)
      PROVE  BookStep
  <2> DEFINE r == [orders[n] EXCEPT !.status = to]
  <2>1. orders[n] \in Order /\ orders[n] # NoOrder /\ orders[n].status = "pending" /\ n \notin purged
    BY <1>0, <1>3 DEF Transition, InStatus, Rows
  <2>2. r # NoOrder /\ r.status = to /\ TermsOf(r) = TermsOf(orders[n])
    BY <2>1, NoRowAssumption DEF Order, TermsOf
  <2>3. orders' = [orders EXCEPT ![n] = r]
    BY <1>3 DEF Transition
  <2> HIDE DEF r
  <2>4. \A o \in OrderIds \ {n} : EntryKept(o)
    BY <1>0, <1>3, <2>3, KeptEntry
  <2>5. TradesOf(n) = {} /\ TradesOf(n)' = {}
    BY <1>0, <2>1, Unexecuted DEF ExecutionKept, Filled, InStatus
  <2>6. Stage(n) = "pending" /\ Stage(n)' = to
    BY <1>0, <2>1, <2>2, <2>3, <2>5 DEF Stage, Rows
  <2>7. OrderTerms(n)' = OrderTerms(n)
    <3>1. orders'[n] = r
      BY <1>0, <2>3
    <3>2. OrderTerms(n)' = TermsOf(r)
      BY <2>2, <3>1 DEF OrderTerms, Rows, TermsOf
    <3>3. QED BY <2>1, <2>2, <3>2 DEF OrderTerms, Rows
  <2>8. Book!Close(n)
    BY <1>0, <2>4, <2>6, <2>7, OneEntry DEF Book!Close, ExecutionKept
  <2>9. QED BY <2>8
<1>4. ASSUME NEW t, NEW n \in OrderIds, NEW q \in Quantities, NEW p \in Prices,
             UpdateOrder(t, n, q, p)
      PROVE  BookStep
  <2> DEFINE r == [orders[n] EXCEPT !.quantity = q, !.price = p]
  <2>1. /\ orders[n] \in Order /\ orders[n] # NoOrder /\ orders[n].status = "pending"
        /\ n \notin purged /\ purged' = purged
    BY <1>0, <1>4 DEF UpdateOrder, InStatus, Rows
  <2>2. /\ r # NoOrder /\ r.status = "pending"
        /\ TermsOf(r) = [TermsOf(orders[n]) EXCEPT !.quantity = q, !.price = p]
    <3>1. /\ r \in Order /\ r # NoOrder /\ r.status = "pending" /\ r.account = orders[n].account
          /\ r.symbol = orders[n].symbol /\ r.side = orders[n].side
          /\ r.quantity = q /\ r.price = p
      BY <2>1, NoRowAssumption DEF Order
    <3> HIDE DEF r
    <3>2. /\ TermsOf(orders[n]) \in Book!Terms /\ TermsOf(r) \in Book!Terms
          /\ Agrees(TermsOf(orders[n]), TermsOf(r))
          /\ TermsOf(r).quantity = q /\ TermsOf(r).price = p
      BY <2>1, <3>1, TermsFields DEF Agrees
    <3>3. PICK x \in Book!Terms, y \in Book!Terms : x = TermsOf(orders[n]) /\ y = TermsOf(r)
      BY <3>2
    <3>4. y = [x EXCEPT !.quantity = q, !.price = p]
      BY <3>2, <3>3 DEF Agrees, Book!Terms
    <3>5. QED BY <3>1, <3>3, <3>4
  <2>3. orders' = [orders EXCEPT ![n] = r]
    BY <1>0, <1>4, <2>1 DEF UpdateOrder, Order
  <2> HIDE DEF r
  <2>4. \A o \in OrderIds \ {n} : EntryKept(o)
    BY <1>0, <2>1, <2>3, KeptEntry
  <2>5. TradesOf(n) = {} /\ TradesOf(n)' = {}
    BY <1>0, <2>1, Unexecuted DEF ExecutionKept, Filled, InStatus
  <2>6. orders'[n] = r
    BY <1>0, <2>3
  <2>7. Stage(n) = "pending" /\ Stage(n)' = "pending"
    BY <2>1, <2>2, <2>5, <2>6 DEF Stage, Rows
  <2>8. OrderTerms(n)' = [OrderTerms(n) EXCEPT !.quantity = q, !.price = p]
    <3>1. OrderTerms(n)' = TermsOf(r)
      BY <2>2, <2>6 DEF OrderTerms, Rows, TermsOf
    <3>2. OrderTerms(n) = TermsOf(orders[n])
      BY <2>1 DEF OrderTerms, Rows
    <3>3. QED BY <2>2, <3>1, <3>2
  <2>9. Book!Amend(n)
    <3>1. /\ Stages' = [Stages EXCEPT ![n] = "pending"] /\ Stages[n] = "pending"
          /\ TermsBook' = [TermsBook EXCEPT ![n] = OrderTerms(n)'] /\ TermsBook[n] = OrderTerms(n)
          /\ UNCHANGED <<TradeBook, CashBook>>
      BY <1>0, <2>4, <2>7, OneEntry DEF ExecutionKept
    <3>2. TermsBook' = [TermsBook EXCEPT ![n] = [TermsBook[n] EXCEPT !.quantity = q, !.price = p]]
      BY <2>8, <3>1
    <3>3. QED BY <3>1, <3>2 DEF Book!Amend
  <2>10. QED BY <2>9
<1>5. ASSUME NEW t \in Threads, NEW n \in OrderIds, CleanupNext(t, n) PROVE BookStep
  <2>1. orders' = [orders EXCEPT ![n] = NoOrder] /\ purged' = purged \cup {n}
    BY <1>5 DEF CleanupNext
  <2>2. n \in Cancelled \/ n \in purged
    BY <1>5 DEF CleanupNext, IInv, CleanupInv
  <2>3. CASE n \in purged
    <3>1. orders' = orders /\ purged' = purged
      BY <1>0, <2>1, <2>3
    <3>2. QED BY <1>1, <3>1
  <2>4. CASE n \in Cancelled
    <3>1. /\ orders[n] # NoOrder /\ orders[n].status = "cancelled"
          /\ orders'[n] = NoOrder /\ n \in purged'
      BY <1>0, <2>1, <2>4 DEF Cancelled, InStatus, Rows
    <3>2. \A o \in OrderIds \ {n} : EntryKept(o)
      BY <1>0, <2>1, KeptEntry
    <3>3. TradesOf(n) = {}
      BY <1>0, <3>1, Unexecuted DEF Filled, InStatus
    <3>4. Stage(n) = "cancelled" /\ Stage(n)' = "deleted" /\ OrderTerms(n)' = NoOrder
      BY <3>1, <3>3 DEF Stage, OrderTerms, Rows
    <3>5. Book!Delete(n)
      BY <1>0, <3>2, <3>4, OneEntry DEF Book!Delete, ExecutionKept
    <3>6. QED BY <3>5
  <2>5. QED BY <2>2, <2>3, <2>4
<1>6. QED BY <1>1, <1>2, <1>3, <1>4, <1>5 DEF RowStep

\* Saving a trade executes its order.
LEMMA TradeExecutes ==
  ASSUME IInv, IInv', AgreedInv, NEW t \in Threads, TradeStep(t)
  PROVE  BookStep
<1> PICK n, i, tr : n = Wanted(t) /\ i = Len(trades) + 1 /\ tr = thread[t].trade
  OBVIOUS
<1>1. /\ tr \in Trade /\ trades \in Seq(Trade) /\ tr.order = n /\ n \in OrderIds
      /\ orders \in [OrderIds -> Order \cup {NoOrder}]
  BY DEF TradeStep, IInv, ThreadInv, Formed, At, TypeOK, Wanted, Trade
<1>2. UNCHANGED <<orders, purged, flows>> /\ At(t, "trade")
  BY DEF TradeStep
<1>3. /\ DOMAIN trades' = DOMAIN trades \cup {i} /\ i \notin DOMAIN trades /\ i # 0
      /\ \A j \in DOMAIN trades : j \in DOMAIN trades' /\ trades'[j] = trades[j]
      /\ trades'[i] = tr
  <2>1. trades' = Append(trades, tr)
    BY DEF TradeStep
  <2>2. QED BY <1>1, <2>1, Appended
<1>4. n \in Filled /\ n \notin purged /\ \A j \in DOMAIN trades : trades[j].order # n
  BY <1>2 DEF IInv, SavingInv, CleanupInv, Wanted, Filled, InStatus, Rows
<1>5. Agrees(orders[n], tr)
  BY <1>2, <1>4 DEF AgreedInv, ExecutingInv, Executing, Wanted
<1>6. \A j \in DOMAIN flows : flows[j].trade # i
  BY <1>3 DEF IInv, FlowsMatchTrades
<1>7. \A o \in OrderIds \ {n} : EntryKept(o)
  <2>1. ASSUME NEW o \in OrderIds \ {n} PROVE ExecutionKept(o)
    BY <1>1, <1>2, <1>3, KeptExecution
  <2>2. QED BY <1>2, <2>1, KeptEntry
<1>8. TradesOf(n) = {} /\ ~Paid(n) /\ CashMoved(n) = 0 /\ Stage(n) = "filled"
  BY <1>4 DEF TradesOf, Paid, CashMoved, Stage, Filled, InStatus
<1>9. Execution(n)' = i /\ TradesOf(n)' # {}
  <2>1. \A j \in DOMAIN trades' : trades'[j].order = n => j = i
    BY <1>3, <1>4
  <2>2. QED BY <1>1, <1>3, <2>1, ChosenTrade DEF Execution, TradesOf
<1>10. ~Paid(n)' /\ CashMoved(n)' = 0
  BY <1>2, <1>6, <1>9 DEF Paid, CashMoved, FlowsOf
<1>11. Stage(n)' = "executed" /\ OrderTerms(n)' = OrderTerms(n)
  <2>1. n \in Rows /\ n \in Rows'
    BY <1>2, <1>4 DEF Filled, InStatus, Rows
  <2>2. QED BY <1>2, <1>9, <1>10, <2>1 DEF Stage, OrderTerms
<1>12. tr.quantity \in Quantities /\ tr.price \in Prices
  BY <1>1 DEF Trade
<1>13. TradeTerms(n)' = [OrderTerms(n) EXCEPT !.quantity = tr.quantity, !.price = tr.price]
  <2>1. TradeTerms(n)' = TermsOf(tr)
    BY <1>3, <1>9 DEF TradeTerms, TermsOf
  <2>2. OrderTerms(n) = TermsOf(orders[n])
    BY <1>4 DEF OrderTerms, Filled, InStatus
  <2>3. TermsOf(tr) = [TermsOf(orders[n]) EXCEPT !.quantity = tr.quantity, !.price = tr.price]
    <3>1. orders[n] \in Order
      BY <1>1, <1>4 DEF Filled, InStatus, Rows
    <3>2. /\ TermsOf(orders[n]) \in Book!Terms /\ TermsOf(tr) \in Book!Terms
          /\ Agrees(TermsOf(orders[n]), TermsOf(tr))
          /\ TermsOf(tr).quantity = tr.quantity /\ TermsOf(tr).price = tr.price
      BY <1>1, <1>5, <3>1, TermsFields DEF Agrees
    <3>3. PICK x \in Book!Terms, y \in Book!Terms : x = TermsOf(orders[n]) /\ y = TermsOf(tr)
      BY <3>2
    <3>4. y = [x EXCEPT !.quantity = tr.quantity, !.price = tr.price]
      BY <3>2, <3>3 DEF Agrees, Book!Terms
    <3>5. QED BY <3>3, <3>4
  <2>4. QED BY <2>1, <2>2, <2>3
<1>14. Book!Execute(n)
  <2>1. /\ Stages' = [Stages EXCEPT ![n] = "executed"] /\ Stages[n] = "filled"
        /\ TradeBook' = [TradeBook EXCEPT ![n] = TradeTerms(n)'] /\ TermsBook[n] = OrderTerms(n)
        /\ UNCHANGED <<TermsBook, CashBook>>
    BY <1>1, <1>7, <1>8, <1>10, <1>11, OneEntry
  <2>2. TradeBook' = [TradeBook EXCEPT
                        ![n] = [TermsBook[n] EXCEPT !.quantity = tr.quantity, !.price = tr.price]]
    BY <1>13, <2>1
  <2>3. QED BY <1>12, <2>1, <2>2 DEF Book!Execute, Book!Turn
<1>15. QED BY <1>1, <1>14 DEF BookStep, Book!Next

\* Saving the flow of a trade settles its order.
LEMMA FlowSettles ==
  ASSUME IInv, IInv', NEW t \in Threads, TradeFlowStep(t)
  PROVE  BookStep
<1> PICK i, tr, n, k :
      i = thread[t].number /\ tr = thread[t].trade /\ n = tr.order /\ k = Len(flows) + 1
  OBVIOUS
<1>1. tr \in Trade /\ flows \in Seq(CashFlow) /\ trades \in Seq(Trade) /\ n \in OrderIds /\ i \in Nat
  BY DEF TradeFlowStep, IInv, ThreadInv, Formed, At, TypeOK, Trade, Local
<1>2. UNCHANGED <<orders, purged, trades>> /\ At(t, "flow")
  BY DEF TradeFlowStep
<1>3. i \in DOMAIN trades /\ trades[i] = tr /\ \A j \in DOMAIN flows : flows[j].trade # i
  BY <1>2 DEF IInv, FlowingInv
<1>4. /\ DOMAIN flows' = DOMAIN flows \cup {k} /\ k \notin DOMAIN flows
      /\ \A j \in DOMAIN flows : j \in DOMAIN flows' /\ flows'[j] = flows[j]
      /\ flows'[k].trade = i /\ flows'[k].amount = SignedAmount(tr)
  <2> DEFINE f == [account |-> tr.account, amount |-> SignedAmount(tr), trade |-> i]
  <2>1. f \in CashFlow
    BY <1>1, FlowRecord
  <2>2. flows' = Append(flows, f)
    BY DEF TradeFlowStep
  <2>3. f.trade = i /\ f.amount = SignedAmount(tr)
    OBVIOUS
  <2> HIDE DEF f
  <2>4. QED BY <1>1, <2>1, <2>2, <2>3, Appended
<1>5. trades[i].order = n
  BY <1>3
<1>6. \A o \in OrderIds \ {n} : EntryKept(o)
  <2>1. ASSUME NEW o \in OrderIds \ {n} PROVE ExecutionKept(o)
    BY <1>2, <1>4, <1>5, KeptExecution
  <2>2. QED BY <1>2, <2>1, KeptEntry
<1>7. Execution(n) = i /\ TradesOf(n) = {i}
  BY <1>3, <1>5, Executions DEF IInv
<1>8. Execution(n)' = i /\ TradesOf(n)' = {i}
  BY <1>2, <1>7 DEF Execution, TradesOf
<1>9. ~Paid(n) /\ Paid(n)'
  <2>1. FlowsOf(i) = {} /\ FlowsOf(i)' # {}
    BY <1>3, <1>4 DEF FlowsOf
  <2>2. QED BY <1>7, <1>8, <2>1 DEF Paid, FlowsOf
<1>10. CashMoved(n)' = SignedAmount(tr)
  <2>1. Settlement(i)' = k
    BY <1>3, <1>4, ChosenFlow DEF Settlement
  <2>2. QED BY <1>4, <1>8, <1>9, <2>1 DEF CashMoved
<1>11. TradeTerms(n) = TermsOf(tr) /\ TradeTerms(n)' = TermsOf(tr)
  BY <1>2, <1>3, <1>7, <1>8 DEF TradeTerms, TermsOf
<1>12. SignedAmount(tr) = Book!Moved(TermsOf(tr))
  BY DEF SignedAmount, Book!Moved, TermsOf
<1>13. n \in Rows
  BY <1>3, <1>5 DEF IInv, FilledOnce, InStatus
<1>14. /\ Stage(n) = "executed" /\ Stage(n)' = "settled"
       /\ OrderTerms(n)' = OrderTerms(n)
  BY <1>2, <1>7, <1>8, <1>9, <1>13 DEF Stage, OrderTerms, Rows
<1>15. Book!Settle(n)
  BY <1>1, <1>6, <1>10, <1>11, <1>12, <1>14, OneEntry DEF Book!Settle, Book!Turn
<1>16. QED BY <1>1, <1>15 DEF BookStep, Book!Next

\* A payment is of no order.
LEMMA PaymentKeeps ==
  ASSUME IInv, IInv', NEW t \in Threads, NEW a \in Accounts, NEW amount \in Int,
         PaymentStep(t, a, amount)
  PROVE  BookStep
<1> DEFINE f == [account |-> a, amount |-> amount, trade |-> 0]
<1>1. f \in CashFlow /\ flows \in Seq(CashFlow) /\ f.trade = 0 /\ flows' = Append(flows, f)
  BY DEF CashFlow, IInv, TypeOK, PaymentStep
<1> HIDE DEF f
<1>2. UNCHANGED <<orders, purged, trades>>
  BY DEF PaymentStep
<1>3. /\ \A j \in DOMAIN flows : j \in DOMAIN flows' /\ flows'[j] = flows[j]
      /\ \A j \in DOMAIN flows' : j \in DOMAIN flows \/ flows'[j].trade = 0
  BY <1>1, Appended
<1>4. \A i \in DOMAIN trades : i # 0
  BY DEF IInv, TypeOK
<1>5. \A o \in OrderIds : ExecutionKept(o)
  BY <1>2, <1>3, <1>4, KeptExecution
<1>6. QED BY <1>2, <1>5, KeptEntry, KeptBook DEF BookStep

\* Every step of the ledger is a step of the book or leaves the book alone.
LEMMA BookSteps ==
  ASSUME IInv, IInv', AgreedInv, [Next]_vars
  PROVE  BookStep
<1>1. RowStep /\ LedgerStep
  BY RowSteps, NextGood DEF Good
<1>2. CASE UNCHANGED <<trades, flows>>
  BY <1>1, <1>2, RowMoves
<1>3. CASE ~UNCHANGED <<trades, flows>>
  BY <1>1, <1>3, TradeExecutes, FlowSettles, PaymentKeeps
  DEF LedgerStep, vars, Crash, tables, QuietStep, FillStep
<1>4. QED BY <1>2, <1>3

LEMMA BookInit ==
  ASSUME Init
  PROVE  AgreedInv /\ Book!Init
<1>1. AgreedInv
  BY DEF Init, AgreedInv, ExecutingInv, ExecutedInv, Executing, At, Idle
<1>2. ASSUME NEW o \in OrderIds
      PROVE  Stage(o) = "new" /\ OrderTerms(o) = NoOrder /\ TradeTerms(o) = NoOrder /\ CashMoved(o) = 0
  BY <1>2 DEF Init, Stage, OrderTerms, TradeTerms, CashMoved, Paid, TradesOf, Rows
<1>3. Book!Init
  BY <1>2 DEF Book!Init, Stages, TermsBook, TradeBook, CashBook
<1>4. QED BY <1>1, <1>3

\* TradingLedger implements OrderBook: for any accounts, orders, requests and
\* crashes, an order lives once and its trade and cash are those of its life.
THEOREM BookRefinement == Spec => ImplementsBook
<1>1. Init => AgreedInv /\ Book!Init
  BY BookInit
<1>2. IInv /\ IInv' /\ AgreedInv /\ [Next]_vars => AgreedInv'
  BY AgreedStep
<1>3. IInv /\ IInv' /\ AgreedInv /\ [Next]_vars => [Book!Next]_<<Stages, TermsBook, TradeBook, CashBook>>
  BY BookSteps DEF BookStep
<1>4. QED
  BY <1>1, <1>2, <1>3, InductiveInvariant, PTL DEF Spec, ImplementsBook, Book!Spec, Book!book

-----------------------------------------------------------------------------
(* Sums over finite sets. The folds of the community modules take the      *)
(* elements of a set in an order CHOOSE fixes; that a sum does not depend  *)
(* on it is shown by way of a smallest counterexample.                     *)

First(S) == CHOOSE x \in S : TRUE

\* F gives the sum of g over each subset of S, an element of it being taken
\* away at a time.
Sums(F, g, S) ==
  /\ F \in [SUBSET S -> Int]
  /\ F[{}] = 0
  /\ \A T \in SUBSET S : T # {} => F[T] = F[T \ {First(T)}] + g[First(T)]

\* The same of a function that may have other values than integers.
Adds(G, g, S) ==
  /\ G[{}] = 0
  /\ \A T \in SUBSET S : T # {} /\ G[T \ {First(T)}] \in Int =>
       G[T] = G[T \ {First(T)}] + g[First(T)]

Sum(g, S) == (CHOOSE F : Sums(F, g, S))[S]

\* Among some subsets of a finite set there is one without a smaller one.
LEMMA SmallestSubset ==
  ASSUME NEW S, IsFiniteSet(S), NEW B \in SUBSET SUBSET S, B # {}
  PROVE  \E T \in B : \A U \in SUBSET T : U # T => U \notin B
<1>1. B \subseteq FiniteSubsetsOf(S)
  BY FS_Subset DEF FiniteSubsetsOf
<1>2. PICK T \in B : \A U \in B : ~(<<U, T>> \in StrictSubsetOrdering(S))
  BY <1>1, FS_StrictSubsetOrderingWellFounded, WFMin, Zenon
<1>3. ASSUME NEW U \in SUBSET T, U # T PROVE U \notin B
  BY <1>2, <1>3 DEF StrictSubsetOrdering
<1>4. QED BY <1>2, <1>3

LEMMA FirstIn ==
  ASSUME NEW S, S # {}
  PROVE  First(S) \in S
BY DEF First

Same(g, h, S) == \A x \in S : g[x] = h[x]

\* A function that adds up as Sums says gives the same sums.
LEMMA SumsAgree ==
  ASSUME NEW S, IsFiniteSet(S), NEW T \in SUBSET S,
         NEW F, NEW G, NEW g, NEW h, Sums(F, g, T), Adds(G, h, S),
         Same(g, h, T)
  PROVE  \A U \in SUBSET T : F[U] = G[U]
<1> DEFINE B == {U \in SUBSET T : F[U] # G[U]}
<1>1. SUFFICES ASSUME B # {} PROVE FALSE
  OBVIOUS
<1>b. B \in SUBSET SUBSET S OBVIOUS
<1>c. \A U \in B : U \in SUBSET T /\ F[U] # G[U] OBVIOUS
<1>d. \A U \in SUBSET T : U \notin B => F[U] = G[U] OBVIOUS
<1> HIDE DEF B
<1>2. PICK U \in B : \A V \in SUBSET U : V # U => V \notin B
  BY <1>1, <1>b, SmallestSubset
<1>3. U \in SUBSET T /\ F[U] # G[U] BY <1>c
<1>4. U # {} BY <1>3 DEF Sums, Adds
<1>5. First(U) \in U BY <1>4, FirstIn
<1>6. F[U \ {First(U)}] = G[U \ {First(U)}] BY <1>2, <1>3, <1>5, <1>d
<1>7. F[U] = F[U \ {First(U)}] + g[First(U)] /\ F[U \ {First(U)}] \in Int
  BY <1>3, <1>4 DEF Sums
<1>8. G[U] = G[U \ {First(U)}] + h[First(U)]
  BY <1>3, <1>4, <1>6, <1>7 DEF Adds
<1>9. QED BY <1>3, <1>5, <1>6, <1>7, <1>8 DEF Same

\* There is such a function.
LEMMA SumsExist ==
  ASSUME NEW S, IsFiniteSet(S), NEW g, \A x \in S : g[x] \in Int
  PROVE  \E F : Sums(F, g, S)
<1> DEFINE B == {T \in SUBSET S : ~\E F : Sums(F, g, T)}
<1>1. SUFFICES ASSUME B # {} PROVE FALSE
  OBVIOUS
<1>b. B \in SUBSET SUBSET S OBVIOUS
<1>c. \A T \in SUBSET S : T \in B <=> ~\E F : Sums(F, g, T) OBVIOUS
<1> HIDE DEF B
<1>2. PICK T \in B : \A U \in SUBSET T : U # T => U \notin B
  BY <1>1, <1>b, SmallestSubset
<1>t. T \in SUBSET S /\ IsFiniteSet(T) BY <1>b, FS_Subset
<1>3. ASSUME NEW U \in SUBSET T, U # T PROVE \E F : Sums(F, g, U)
  BY <1>2, <1>3, <1>c, <1>t
<1> DEFINE G(U) == CHOOSE F : Sums(F, g, U)
           p == First(T)
           F == [U \in SUBSET T |-> IF U = {} THEN 0
                                    ELSE IF U # T THEN G(U)[U]
                                    ELSE G(T \ {p})[T \ {p}] + g[p]]
<1>4. \A U \in SUBSET T : U # T => Sums(G(U), g, U)
  BY <1>3
<1> HIDE DEF G
<1>5. T # {}
  <2> SUFFICES ASSUME T = {} PROVE FALSE
    OBVIOUS
  <2>1. Sums([U \in SUBSET {} |-> 0], g, {})
    BY DEF Sums
  <2>2. QED BY <1>c, <1>t, <2>1
<1>6. p \in T /\ g[p] \in Int BY <1>5, <1>t, FirstIn
<1> HIDE DEF p
<1>7. \A U, V \in SUBSET T : U # T /\ V \subseteq U => G(U)[V] = G(V)[V]
  <2> SUFFICES ASSUME NEW U \in SUBSET T, NEW V \in SUBSET U, U # T PROVE G(U)[V] = G(V)[V]
    OBVIOUS
  <2>0. V \in SUBSET T /\ V # T /\ IsFiniteSet(U)
    BY <1>t, FS_Subset
  <2>a. Sums(G(U), g, U) BY <1>4
  <2>b. Sums(G(V), g, V) BY <1>4, <2>0
  <2>1. Sums(G(U), g, U) /\ Sums(G(V), g, V) /\ IsFiniteSet(U)
    BY <2>0, <2>a, <2>b
  <2>2. Adds(G(U), g, U)
    BY <2>1 DEF Sums, Adds
  <2>3. PICK H : H = G(U) OBVIOUS
  <2>4. PICK K : K = G(V) OBVIOUS
  <2>5. Sums(K, g, V) /\ Adds(H, g, U)
    BY <2>1, <2>2, <2>3, <2>4
  <2>6. Same(g, g, V) BY DEF Same
  <2>7. \A W \in SUBSET V : K[W] = H[W]
    BY <2>1, <2>5, <2>6, SumsAgree
  <2>8. QED BY <2>3, <2>4, <2>7
<1>8. F \in [SUBSET T -> Int]
  <2>1. ASSUME NEW U \in SUBSET T, U # T PROVE G(U)[U] \in Int
    BY <1>4, <2>1 DEF Sums
  <2>2. G(T \ {p})[T \ {p}] + g[p] \in Int
    BY <1>6, <2>1
  <2>3. QED BY <2>1, <2>2
<1>9. ASSUME NEW U \in SUBSET T, U # {} PROVE F[U] = F[U \ {First(U)}] + g[First(U)]
  <2>1. First(U) \in U BY <1>9, FirstIn
  <2> DEFINE V == U \ {First(U)}
  <2>2. V \in SUBSET T /\ V # T /\ V # U BY <2>1
  <2>3. F[V] = G(V)[V]
    BY <1>4, <2>2 DEF Sums
  <2>4. CASE U = T
    BY <1>5, <2>3, <2>4 DEF p
  <2>5. CASE U # T
    <3>1. F[U] = G(U)[U] BY <1>9, <2>5
    <3>2. G(U)[U] = G(U)[V] + g[First(U)] BY <1>4, <1>9, <2>5 DEF Sums
    <3>3. G(U)[V] = G(V)[V] BY <1>7, <2>2, <2>5
    <3>4. QED BY <2>3, <3>1, <3>2, <3>3
  <2>6. QED BY <2>4, <2>5
<1>10. Sums(F, g, T)
  BY <1>8, <1>9 DEF Sums
<1>11. QED BY <1>c, <1>t, <1>10

\* Any element may be taken away first.
LEMMA SumsAny ==
  ASSUME NEW S, IsFiniteSet(S), NEW g, \A x \in S : g[x] \in Int, NEW F, Sums(F, g, S)
  PROVE  \A T \in SUBSET S : \A x \in T : F[T] = F[T \ {x}] + g[x]
<1> DEFINE B == {T \in SUBSET S : \E x \in T : F[T] # F[T \ {x}] + g[x]}
<1>1. SUFFICES ASSUME B # {} PROVE FALSE
  OBVIOUS
<1>2. B \in SUBSET SUBSET S OBVIOUS
<1>3. \A T \in SUBSET S : T \in B <=> \E x \in T : F[T] # F[T \ {x}] + g[x] OBVIOUS
<1> HIDE DEF B
<1>4. PICK T \in B : \A U \in SUBSET T : U # T => U \notin B
  BY <1>1, <1>2, SmallestSubset
<1>5. T \in SUBSET S BY <1>2
<1>6. PICK x \in T : F[T] # F[T \ {x}] + g[x]
  BY <1>3, <1>5
<1>7. PICK y \in T : y = First(T)
  BY FirstIn
<1>8. F[T] = F[T \ {y}] + g[y]
  BY <1>5, <1>7 DEF Sums
<1>9. x # y BY <1>6, <1>8
<1>10. \A U \in SUBSET T : U # T => \A z \in U : F[U] = F[U \ {z}] + g[z]
  BY <1>3, <1>4, <1>5
<1> DEFINE V == T \ {x, y}
<1>11. F[T \ {y}] = F[V] + g[x]
  <2>1. x \in T \ {y} /\ (T \ {y}) \ {x} = V BY <1>9
  <2>2. QED BY <1>10, <2>1
<1>12. F[T \ {x}] = F[V] + g[y]
  <2>1. y \in T \ {x} /\ (T \ {x}) \ {y} = V BY <1>9
  <2>2. QED BY <1>10, <2>1
<1>13. F[V] \in Int /\ g[x] \in Int /\ g[y] \in Int
  BY <1>5 DEF Sums
<1>14. QED BY <1>6, <1>8, <1>11, <1>12, <1>13

\* The sum of nothing is 0.
LEMMA SumEmpty ==
  ASSUME NEW g
  PROVE  Sum(g, {}) = 0
<1>1. \E F : Sums(F, g, {})
  BY SumsExist, FS_EmptySet
<1>2. QED BY <1>1 DEF Sum, Sums

\* A sum of integers is one, that of a smaller set and what it leaves out.
LEMMA SumRemove ==
  ASSUME NEW S, IsFiniteSet(S), NEW g, \A x \in S : g[x] \in Int
  PROVE  Sum(g, S) \in Int /\ \A x \in S : Sum(g, S) = Sum(g, S \ {x}) + g[x]
<1>1. PICK F : F = CHOOSE G : Sums(G, g, S) OBVIOUS
<1>2. Sums(F, g, S) /\ Sum(g, S) = F[S]
  BY <1>1, SumsExist DEF Sum
<1>3. Sum(g, S) \in Int BY <1>2 DEF Sums
<1>4. ASSUME NEW x \in S PROVE Sum(g, S) = Sum(g, S \ {x}) + g[x]
  <2>1. PICK T \in SUBSET S : T = S \ {x} OBVIOUS
  <2>2. IsFiniteSet(T) /\ \A y \in T : g[y] \in Int BY FS_Subset
  <2>3. PICK G : G = CHOOSE H : Sums(H, g, T) OBVIOUS
  <2>4. Sums(G, g, T) /\ Sum(g, T) = G[T]
    BY <2>2, <2>3, SumsExist DEF Sum
  <2>5. Adds(F, g, S) BY <1>2 DEF Sums, Adds
  <2>6. Same(g, g, T) BY DEF Same
  <2>7. \A U \in SUBSET T : G[U] = F[U] BY <2>4, <2>5, <2>6, SumsAgree
  <2>8. F[S] = F[S \ {x}] + g[x] BY <1>2, SumsAny
  <2>9. QED BY <1>2, <2>1, <2>4, <2>7, <2>8
<1>5. QED BY <1>3, <1>4

\* A function that adds up gives the sum, of whatever has the same values.
LEMMA AddsSum ==
  ASSUME NEW S, IsFiniteSet(S), NEW g, \A x \in S : g[x] \in Int,
         NEW G, NEW h, Adds(G, h, S), Same(g, h, S)
  PROVE  G[S] = Sum(g, S)
<1>1. PICK F : F = CHOOSE H : Sums(H, g, S) OBVIOUS
<1>2. Sums(F, g, S) /\ Sum(g, S) = F[S]
  BY <1>1, SumsExist DEF Sum
<1>3. \A U \in SUBSET S : F[U] = G[U]
  BY <1>2, SumsAgree
<1>4. QED BY <1>2, <1>3

\* Functions with the same values on a set have the same sum over it.
LEMMA SumSame ==
  ASSUME NEW S, IsFiniteSet(S), NEW g, NEW h, \A x \in S : h[x] \in Int, Same(g, h, S)
  PROVE  Sum(g, S) = Sum(h, S)
<1>1. \A x \in S : g[x] \in Int BY DEF Same
<1>2. PICK G : G = CHOOSE H : Sums(H, h, S) OBVIOUS
<1>3. Sums(G, h, S) /\ Sum(h, S) = G[S]
  BY <1>2, SumsExist DEF Sum
<1>4. Adds(G, h, S) BY <1>3 DEF Sums, Adds
<1>5. QED BY <1>1, <1>3, <1>4, AddsSum

-----------------------------------------------------------------------------
(* Balances and traded quantities are sums                                 *)

\* What each flow of a table adds to the balance of an account.
Payments(a, fs) == [j \in DOMAIN fs |-> IF fs[j].account = a THEN fs[j].amount ELSE 0]

Balance(a, fs) == FoldSeq(LAMBDA f, sum : IF f.account = a THEN sum + f.amount ELSE sum, 0, fs)

SignedQuantity(tr) == IF tr.side = "BUY" THEN tr.quantity ELSE -tr.quantity

\* What each trade of a table adds to the position of an account in a symbol.
Movements(a, s, ts) ==
  [j \in DOMAIN ts |-> IF ts[j].account = a /\ ts[j].symbol = s THEN SignedQuantity(ts[j]) ELSE 0]

Position(a, s, ts) ==
  FoldSeq(LAMBDA tr, sum : IF tr.account = a /\ tr.symbol = s THEN Remaining(sum, tr) ELSE sum, 0, ts)

\* The places of a table are finitely many.
LEMMA FinitePlaces ==
  ASSUME NEW S, NEW s \in Seq(S)
  PROVE  IsFiniteSet(DOMAIN s) /\ DOMAIN s = 1..Len(s) /\ Len(s) \in Nat
BY FS_Interval

\* A balance is the sum of the payments.
LEMMA BalanceIsSum ==
  ASSUME NEW a, NEW fs \in Seq(CashFlow)
  PROVE  Balance(a, fs) = Sum(Payments(a, fs), DOMAIN fs)
<1> DEFINE S == DOMAIN fs
           g == Payments(a, fs)
           body(F) == [T \in SUBSET S |->
             IF T = {} THEN 0
             ELSE IF fs[CHOOSE x \in T : TRUE].account = a
                  THEN F[T \ {CHOOSE x \in T : TRUE}] + fs[CHOOSE x \in T : TRUE].amount
                  ELSE F[T \ {CHOOSE x \in T : TRUE}]]
<1>1. IsFiniteSet(S) BY FinitePlaces
<1>2. \A j \in S : g[j] = (IF fs[j].account = a THEN fs[j].amount ELSE 0) /\ g[j] \in Int
  <2>1. \A j \in S : fs[j] \in CashFlow OBVIOUS
  <2>2. \A j \in S : fs[j].amount \in Int BY <2>1 DEF CashFlow
  <2>3. QED BY <2>2 DEF Payments
<1>3. Balance(a, fs) = (CHOOSE F : F = body(F))[S]
  BY DEF Balance, FoldSeq, FoldFunction, FoldFunctionOnSet, MapThenFoldSet
<1>4. \E F : F = body(F)
  <2>1. PICK F : Sums(F, g, S) BY <1>1, <1>2, SumsExist
  <2>2. ASSUME NEW T \in SUBSET S PROVE F[T] = body(F)[T]
    <3>1. CASE T = {} BY <2>1, <3>1 DEF Sums
    <3>2. CASE T # {}
      <4>1. First(T) \in S /\ First(T) = CHOOSE x \in T : TRUE BY <3>2, FirstIn DEF First
      <4>2. F[T] = F[T \ {First(T)}] + g[First(T)] /\ F[T \ {First(T)}] \in Int
        BY <2>1, <3>2 DEF Sums
      <4>3. QED BY <1>2, <3>2, <4>1, <4>2
    <3>3. QED BY <3>1, <3>2
  <2>3. F \in [SUBSET S -> Int] BY <2>1 DEF Sums
  <2>4. F = body(F) BY <2>2, <2>3
  <2>5. QED BY <2>4
<1>5. PICK G : G = body(G) /\ Balance(a, fs) = G[S]
  BY <1>3, <1>4
<1>6. Adds(G, g, S)
  <2>1. G[{}] = 0 BY <1>5
  <2>2. ASSUME NEW T \in SUBSET S, T # {}, G[T \ {First(T)}] \in Int
        PROVE  G[T] = G[T \ {First(T)}] + g[First(T)]
    <3>1. First(T) \in S /\ First(T) = CHOOSE x \in T : TRUE BY <2>2, FirstIn DEF First
    <3>2. G[T] = IF fs[First(T)].account = a THEN G[T \ {First(T)}] + fs[First(T)].amount
                 ELSE G[T \ {First(T)}]
      BY <1>5, <2>2, <3>1
    <3>3. QED BY <1>2, <2>2, <3>1, <3>2
  <2>3. QED BY <2>1, <2>2 DEF Adds
<1> HIDE DEF S, g
<1>7. Same(g, g, S) BY DEF Same
<1>8. G[S] = Sum(g, S) BY <1>1, <1>2, <1>6, <1>7, AddsSum
<1>9. QED BY <1>5, <1>8 DEF S, g

\* A position is the sum of the movements.
LEMMA PositionIsSum ==
  ASSUME NEW a, NEW s, NEW ts \in Seq(Trade)
  PROVE  Position(a, s, ts) = Sum(Movements(a, s, ts), DOMAIN ts)
<1> DEFINE S == DOMAIN ts
           g == Movements(a, s, ts)
           here(j) == ts[j].account = a /\ ts[j].symbol = s
           body(F) == [T \in SUBSET S |->
             IF T = {} THEN 0
             ELSE IF ts[CHOOSE x \in T : TRUE].account = a /\ ts[CHOOSE x \in T : TRUE].symbol = s
                  THEN Remaining(F[T \ {CHOOSE x \in T : TRUE}], ts[CHOOSE x \in T : TRUE])
                  ELSE F[T \ {CHOOSE x \in T : TRUE}]]
<1>1. IsFiniteSet(S) BY FinitePlaces
<1>2. \A j \in S : /\ g[j] = (IF here(j) THEN SignedQuantity(ts[j]) ELSE 0)
                   /\ g[j] \in Int
                   /\ \A n \in Int : Remaining(n, ts[j]) = n + SignedQuantity(ts[j])
  <2>1. \A j \in S : ts[j] \in Trade OBVIOUS
  <2>2. \A j \in S : ts[j].quantity \in Nat BY <2>1, AmountsAssumption DEF Trade
  <2>3. QED BY <2>2 DEF Movements, SignedQuantity, Remaining
<1>3. Position(a, s, ts) = (CHOOSE F : F = body(F))[S]
  BY DEF Position, FoldSeq, FoldFunction, FoldFunctionOnSet, MapThenFoldSet
<1>4. \E F : F = body(F)
  <2>1. PICK F : Sums(F, g, S) BY <1>1, <1>2, SumsExist
  <2>2. ASSUME NEW T \in SUBSET S PROVE F[T] = body(F)[T]
    <3>1. CASE T = {} BY <2>1, <3>1 DEF Sums
    <3>2. CASE T # {}
      <4>1. First(T) \in S /\ First(T) = CHOOSE x \in T : TRUE BY <3>2, FirstIn DEF First
      <4>2. F[T] = F[T \ {First(T)}] + g[First(T)] /\ F[T \ {First(T)}] \in Int
        BY <2>1, <3>2 DEF Sums
      <4>3. QED BY <1>2, <3>2, <4>1, <4>2
    <3>3. QED BY <3>1, <3>2
  <2>3. F \in [SUBSET S -> Int] BY <2>1 DEF Sums
  <2>4. F = body(F) BY <2>2, <2>3
  <2>5. QED BY <2>4
<1>5. PICK G : G = body(G) /\ Position(a, s, ts) = G[S]
  BY <1>3, <1>4
<1>6. Adds(G, g, S)
  <2>1. G[{}] = 0 BY <1>5
  <2>2. ASSUME NEW T \in SUBSET S, T # {}, G[T \ {First(T)}] \in Int
        PROVE  G[T] = G[T \ {First(T)}] + g[First(T)]
    <3>1. First(T) \in S /\ First(T) = CHOOSE x \in T : TRUE BY <2>2, FirstIn DEF First
    <3>2. G[T] = IF here(First(T)) THEN Remaining(G[T \ {First(T)}], ts[First(T)])
                 ELSE G[T \ {First(T)}]
      BY <1>5, <2>2, <3>1
    <3>3. QED BY <1>2, <2>2, <3>1, <3>2
  <2>3. QED BY <2>1, <2>2 DEF Adds
<1> HIDE DEF S, g
<1>7. Same(g, g, S) BY DEF Same
<1>8. G[S] = Sum(g, S) BY <1>1, <1>2, <1>6, <1>7, AddsSum
<1>9. QED BY <1>5, <1>8 DEF S, g

\* The values on S are integers.
Whole(g, S) == \A x \in S : g[x] \in Int

\* A sum over a longer table is the sum over the shorter one and the last value.
LEMMA SumAppended ==
  ASSUME NEW S, IsFiniteSet(S), NEW n, n \notin S, NEW T, T = S \cup {n}, NEW g, NEW h,
         Whole(g, S), Same(h, g, S), h[n] \in Int
  PROVE  Sum(h, T) = Sum(g, S) + h[n] /\ Sum(g, S) \in Int
<1> USE DEF Whole
<1>1. T = S \cup {n} OBVIOUS
<1>2. IsFiniteSet(T) BY <1>1, FS_AddElement
<1>3. \A x \in T : h[x] \in Int BY <1>1 DEF Same
<1>4. Sum(h, T) = Sum(h, T \ {n}) + h[n] BY <1>1, <1>2, <1>3, SumRemove
<1>5. T \ {n} = S BY <1>1
<1>6. Sum(h, S) = Sum(g, S) BY SumSame
<1>7. QED BY <1>1, <1>4, <1>5, <1>6, SumRemove

\* A new flow changes the balance of its account, by its amount.
LEMMA BalanceAppended ==
  ASSUME NEW a, NEW fs \in Seq(CashFlow), NEW f \in CashFlow
  PROVE  /\ Balance(a, fs) \in Int
         /\ Balance(a, Append(fs, f)) = Balance(a, fs) + (IF f.account = a THEN f.amount ELSE 0)
<1>1. PICK gs, n : gs = Append(fs, f) /\ n = Len(fs) + 1 OBVIOUS
<1>2. /\ gs \in Seq(CashFlow) /\ DOMAIN gs = DOMAIN fs \cup {n} /\ n \notin DOMAIN fs
      /\ \A j \in DOMAIN fs : gs[j] = fs[j]
      /\ gs[n] = f
  BY <1>1, Appended
<1>3. \A j \in DOMAIN gs : gs[j] \in CashFlow BY <1>2
<1>4. \A j \in DOMAIN gs : gs[j].amount \in Int BY <1>3 DEF CashFlow
<1>5. Whole(Payments(a, fs), DOMAIN fs)
  BY <1>2, <1>4 DEF Payments, Whole
<1>6. Same(Payments(a, gs), Payments(a, fs), DOMAIN fs)
  BY <1>2 DEF Payments, Same
<1>7. Payments(a, gs)[n] = (IF f.account = a THEN f.amount ELSE 0) /\ Payments(a, gs)[n] \in Int
  BY <1>2, <1>4 DEF Payments
<1>8. IsFiniteSet(DOMAIN fs) BY FinitePlaces
<1>9. /\ Sum(Payments(a, gs), DOMAIN gs) = Sum(Payments(a, fs), DOMAIN fs) + Payments(a, gs)[n]
      /\ Sum(Payments(a, fs), DOMAIN fs) \in Int
  BY <1>2, <1>5, <1>6, <1>7, <1>8, SumAppended
<1>10. QED BY <1>1, <1>2, <1>7, <1>9, BalanceIsSum

\* A new trade changes the position of its account and symbol, by its quantity.
LEMMA PositionAppended ==
  ASSUME NEW a, NEW s, NEW ts \in Seq(Trade), NEW tr \in Trade
  PROVE  /\ Position(a, s, ts) \in Int
         /\ Position(a, s, Append(ts, tr)) =
              IF tr.account = a /\ tr.symbol = s THEN Remaining(Position(a, s, ts), tr)
              ELSE Position(a, s, ts)
<1>1. PICK gs, n : gs = Append(ts, tr) /\ n = Len(ts) + 1 OBVIOUS
<1>2. /\ gs \in Seq(Trade) /\ DOMAIN gs = DOMAIN ts \cup {n} /\ n \notin DOMAIN ts
      /\ \A j \in DOMAIN ts : gs[j] = ts[j]
      /\ gs[n] = tr
  BY <1>1, Appended
<1>3. \A j \in DOMAIN gs : gs[j] \in Trade BY <1>2
<1>4. \A j \in DOMAIN gs : gs[j].quantity \in Nat BY <1>3, AmountsAssumption DEF Trade
<1>5. Whole(Movements(a, s, ts), DOMAIN ts)
  BY <1>2, <1>4 DEF Movements, SignedQuantity, Whole
<1>6. Same(Movements(a, s, gs), Movements(a, s, ts), DOMAIN ts)
  BY <1>2 DEF Movements, Same
<1>7. /\ Movements(a, s, gs)[n] = (IF tr.account = a /\ tr.symbol = s THEN SignedQuantity(tr) ELSE 0)
      /\ Movements(a, s, gs)[n] \in Int
  BY <1>2, <1>4 DEF Movements, SignedQuantity
<1>8. IsFiniteSet(DOMAIN ts) BY FinitePlaces
<1>9. /\ Sum(Movements(a, s, gs), DOMAIN gs) = Sum(Movements(a, s, ts), DOMAIN ts) + Movements(a, s, gs)[n]
      /\ Sum(Movements(a, s, ts), DOMAIN ts) \in Int
  <2>1. PICK g, h : g = Movements(a, s, ts) /\ h = Movements(a, s, gs) OBVIOUS
  <2>2. Whole(g, DOMAIN ts) /\ Same(h, g, DOMAIN ts) /\ h[n] \in Int
    BY <1>5, <1>6, <1>7, <2>1
  <2>3. Sum(h, DOMAIN gs) = Sum(g, DOMAIN ts) + h[n] /\ Sum(g, DOMAIN ts) \in Int
    BY <1>2, <1>8, <2>2, SumAppended
  <2>4. QED BY <2>1, <2>3
<1>10. \A k \in Int : Remaining(k, tr) = k + SignedQuantity(tr)
  BY <1>2, <1>4 DEF Remaining, SignedQuantity
<1>11. Position(a, s, gs) = Sum(Movements(a, s, gs), DOMAIN gs)
  BY <1>2, PositionIsSum
<1>12. Position(a, s, ts) = Sum(Movements(a, s, ts), DOMAIN ts)
  BY PositionIsSum
<1>13. CASE tr.account = a /\ tr.symbol = s
  BY <1>1, <1>7, <1>9, <1>10, <1>11, <1>12, <1>13
<1>14. CASE ~(tr.account = a /\ tr.symbol = s)
  BY <1>1, <1>7, <1>9, <1>11, <1>12, <1>14
<1>15. QED BY <1>13, <1>14

\* Empty tables leave nothing.
LEMMA NothingBooked ==
  ASSUME NEW a, NEW s
  PROVE  Balance(a, <<>>) = 0 /\ Position(a, s, <<>>) = 0
<1>1. PICK e : e = <<>> OBVIOUS
<1>2. e \in Seq(CashFlow) /\ e \in Seq(Trade) /\ DOMAIN e = {} BY <1>1
<1>3. Balance(a, e) = Sum(Payments(a, e), {}) BY <1>2, BalanceIsSum
<1>4. Position(a, s, e) = Sum(Movements(a, s, e), {}) BY <1>2, PositionIsSum
<1>5. QED BY <1>1, <1>3, <1>4, SumEmpty

-----------------------------------------------------------------------------
(* One request at a time                                                   *)

\* th is what the one request in progress holds, or Idle when there is none.
Turn(th) ==
  \/ th = Idle /\ AtRest
  \/ \E t \in Threads : thread[t] = th /\ \A u \in Threads \ {t} : Request(u)

\* What the request read is still so: the cash and the position it checked.
Backed(th) ==
  /\ th.at \in {"idle", "deposit", "withdraw", "submit", "fill", "trade", "flow", "load", "store"}
  /\ th.at \in {"fill", "trade", "flow"} => th.job = "command"
  /\ th.at = "withdraw" => CashBalance(th.account) >= th.amount
  /\ th.at \in {"submit", "fill", "trade", "flow"} => Covered(th.trade)
  /\ th.at = "load" /\ th.trade.side = "SELL" =>
       positions[<<th.trade.account, th.trade.symbol>>] >= th.trade.quantity
  /\ th.at = "store" => th.held = positions[<<th.trade.account, th.trade.symbol>>]

\* The trade of th is booked and the position does not show it yet.
Ahead(th, a, s) ==
  th.at \in {"flow", "load", "store"} /\ th.trade.account = a /\ th.trade.symbol = s

\* What is traded is the position after the trade of the request in progress.
Follows(th) ==
  \A a \in Accounts : \A s \in Symbols :
    TradedQuantity(a, s) = IF Ahead(th, a, s) THEN Remaining(positions[<<a, s>>], th.trade)
                           ELSE positions[<<a, s>>]

Settled(th) == CashCovered /\ Backed(th) /\ (crashes = 0 => Follows(th))

SerialInv ==
  mode = "serial" =>
    \E th \in {Idle} \cup {thread[t] : t \in Threads} : Turn(th) /\ Settled(th)

\* The balances and quantities of the ledger are those of its tables.
LEMMA TablesSay ==
  /\ \A a : CashBalance(a) = Balance(a, flows) /\ CashBalance(a)' = Balance(a, flows')
  /\ \A a, s : /\ TradedQuantity(a, s) = Position(a, s, trades)
               /\ TradedQuantity(a, s)' = Position(a, s, trades')
BY DEF CashBalance, Balance, TradedQuantity, Position, FoldSeq, FoldFunction, FoldFunctionOnSet,
       MapThenFoldSet

\* What the tables say does not change while they do not.
LEMMA BooksKept ==
  ASSUME UNCHANGED <<trades, flows>>
  PROVE  /\ \A a : CashBalance(a)' = CashBalance(a)
         /\ \A a, s : TradedQuantity(a, s)' = TradedQuantity(a, s)
BY TablesSay

\* What a flow changes.
LEMMA FlowBooked ==
  ASSUME IInv, NEW b \in Accounts, NEW n \in Int, NEW k \in Nat, InsertFlow(b, n, k)
  PROVE  \A a \in Accounts : /\ CashBalance(a) \in Int
                             /\ CashBalance(a)' = CashBalance(a) + (IF b = a THEN n ELSE 0)
<1> TAKE a \in Accounts
<1>1. PICK f \in CashFlow : f.account = b /\ f.amount = n /\ flows' = Append(flows, f)
  BY DEF InsertFlow, CashFlow
<1>2. flows \in Seq(CashFlow) BY DEF IInv, TypeOK
<1>3. /\ Balance(a, flows) \in Int
      /\ Balance(a, Append(flows, f)) = Balance(a, flows) + (IF f.account = a THEN f.amount ELSE 0)
  BY <1>2, BalanceAppended
<1>4. CashBalance(a) = Balance(a, flows) /\ CashBalance(a)' = Balance(a, flows')
  BY TablesSay
<1>5. QED BY <1>1, <1>3, <1>4

\* What a trade changes.
LEMMA TradeBooked ==
  ASSUME IInv, NEW tr \in Trade, trades' = Append(trades, tr)
  PROVE  \A a \in Accounts : \A s \in Symbols :
           TradedQuantity(a, s)' =
             IF tr.account = a /\ tr.symbol = s THEN Remaining(TradedQuantity(a, s), tr)
             ELSE TradedQuantity(a, s)
<1> TAKE a \in Accounts
<1> TAKE s \in Symbols
<1>1. trades \in Seq(Trade) BY DEF IInv, TypeOK
<1>2. TradedQuantity(a, s) = Position(a, s, trades) /\ TradedQuantity(a, s)' = Position(a, s, trades')
  BY TablesSay
<1>3. QED BY <1>1, <1>2, PositionAppended

\* The request in progress, and what it stands on.
LEMMA InTurn ==
  ASSUME SerialInv, mode = "serial", NEW t \in Threads, thread[t].at # "idle"
  PROVE  Settled(thread[t]) /\ \A u \in Threads \ {t} : Request(u)
BY DEF SerialInv, Turn, AtRest, Request, Idle

LEMMA AtRestTurn ==
  ASSUME SerialInv, mode = "serial", AtRest
  PROVE  Settled(Idle)
BY DEF SerialInv, Turn, AtRest, Request

\* The request in progress goes on to x, which stands on the new tables.
LEMMA TurnKept ==
  ASSUME IInv, NEW t \in Threads, \A u \in Threads \ {t} : Request(u),
         NEW x, Goto(t, x), Settled(x)'
  PROVE  SerialInv'
<1>1. thread'[t] = x /\ \A u \in Threads \ {t} : thread'[u] = Idle
  BY DEF IInv, TypeOK, Goto, Request
<1>2. Turn(x)' /\ x \in {thread'[u] : u \in Threads}
  BY <1>1 DEF Turn, Request
<1>3. QED BY <1>2 DEF SerialInv

\* What a request stands on does not change while the tables do not.
LEMMA SettledKept ==
  ASSUME NEW x, Settled(x), UNCHANGED <<trades, flows, positions, crashes>>
  PROVE  Settled(x)'
<1>1. /\ \A a : CashBalance(a)' = CashBalance(a)
      /\ \A a, s : TradedQuantity(a, s)' = TradedQuantity(a, s)
  BY BooksKept
<1>2. CashCovered' BY <1>1 DEF Settled, CashCovered
<1>3. CashBalance(x.account)' = CashBalance(x.account) /\ CashBalance(x.trade.account)' = CashBalance(x.trade.account)
  BY <1>1
<1>4. Backed(x)' BY <1>3 DEF Settled, Backed, Covered
<1>5. (crashes = 0 => Follows(x))'
  <2>1. ASSUME crashes = 0 PROVE Follows(x)'
    BY <1>1, <2>1 DEF Settled, Follows, Ahead
  <2>2. QED BY <2>1
<1>6. QED BY <1>2, <1>4, <1>5 DEF Settled

\* Requests start on what they checked.
LEMMA StartSettled ==
  ASSUME IInv, SerialInv, mode = "serial", NEW t \in Threads, AtRest, Cash(t) \/ Commands(t)
  PROVE  SerialInv'
<1>1. Settled(Idle) BY AtRestTurn
<1>2. \A u \in Threads \ {t} : Request(u) BY DEF AtRest
<1>3. ASSUME NEW x, Goto(t, x), UNCHANGED <<trades, flows, positions, crashes>>,
             x.at \in {"idle", "deposit", "withdraw", "submit"},
             x.at = "withdraw" => CashBalance(x.account) >= x.amount,
             x.at = "submit" => Covered(x.trade)
      PROVE  SerialInv'
  <2>1. Backed(x) BY <1>3 DEF Backed
  <2>2. Settled(x) BY <1>1, <1>3, <2>1 DEF Settled, Follows, Ahead, Idle
  <2>3. Settled(x)' BY <1>3, <2>2, SettledKept
  <2>4. QED BY <1>2, <1>3, <2>3, TurnKept
<1>4. ASSUME NEW a \in Accounts, CreateAccount(t, a) PROVE SerialInv'
  <2>1. CASE Goto(t, Idle)
    BY <1>1, <1>2, <1>4, <2>1, SettledKept, TurnKept DEF CreateAccount
  <2>2. ASSUME NEW capital \in Amounts,
               Goto(t, [Idle EXCEPT !.at = "deposit", !.account = a, !.amount = capital])
        PROVE  SerialInv'
    <3>1. PICK x : x = [Idle EXCEPT !.at = "deposit", !.account = a, !.amount = capital] OBVIOUS
    <3>2. x.at = "deposit" BY <3>1 DEF Idle
    <3>3. QED BY <1>3, <1>4, <2>2, <3>1, <3>2 DEF CreateAccount
  <2>3. QED BY <1>4, <2>1, <2>2 DEF CreateAccount
<1>5. ASSUME NEW a \in Accounts, NEW amount \in Amounts, Deposit(t, a, amount) PROVE SerialInv'
  <2>1. amount \in Nat BY AmountsAssumption
  <2>2. \A b \in Accounts : /\ CashBalance(b) \in Int
                            /\ CashBalance(b)' = CashBalance(b) + (IF a = b THEN amount ELSE 0)
    BY <1>5, <2>1, FlowBooked DEF Deposit
  <2>3. CashCovered' BY <1>1, <2>1, <2>2 DEF Settled, CashCovered
  <2>4. Settled(Idle)'
    <3>1. Backed(Idle)' BY DEF Backed, Idle
    <3>2. (crashes = 0 => Follows(Idle))'
      <4>1. \A b, s : TradedQuantity(b, s)' = TradedQuantity(b, s)
        BY <1>5, TablesSay DEF Deposit
      <4>2. QED BY <1>1, <1>5, <4>1 DEF Settled, Follows, Ahead, Idle, Deposit
    <3>3. QED BY <2>3, <3>1, <3>2 DEF Settled
  <2>5. Turn(Idle)' BY <1>5 DEF Deposit, Turn, AtRest, Request
  <2>6. QED BY <2>4, <2>5 DEF SerialInv
<1>6. ASSUME NEW a \in Accounts, NEW amount \in Amounts, Withdraw(t, a, amount) PROVE SerialInv'
  <2>1. PICK x : x = [Idle EXCEPT !.at = "withdraw", !.account = a, !.amount = amount] OBVIOUS
  <2>2. x.at = "withdraw" /\ x.account = a /\ x.amount = amount BY <2>1 DEF Idle
  <2>3. QED BY <1>3, <1>6, <2>1, <2>2 DEF Withdraw, tables
<1>7. ASSUME NEW a \in Accounts, NEW s \in Symbols, NEW side \in Sides, NEW q \in Quantities,
             NEW p \in Prices, TradeCommand(t, a, s, side, q, p)
      PROVE  SerialInv'
  <2>1. PICK tr : /\ Covered(tr)
                  /\ Goto(t, [Idle EXCEPT !.at = "submit", !.job = "command", !.trade = tr])
    BY <1>7 DEF TradeCommand
  <2>2. PICK x : x = [Idle EXCEPT !.at = "submit", !.job = "command", !.trade = tr] OBVIOUS
  <2>3. x.at = "submit" /\ x.trade = tr BY <2>2 DEF Idle
  <2>4. QED BY <1>3, <1>7, <2>1, <2>2, <2>3 DEF TradeCommand, tables
<1>8. QED BY <1>4, <1>5, <1>6, <1>7 DEF Cash, Commands

\* A request goes on without changing what the tables say.
LEMMA QuietTurn ==
  ASSUME IInv, SerialInv, mode = "serial", NEW t \in Threads,
         (\E o \in OrderIds : CommandSubmit(t, o)) \/ CommandFill(t) \/ LoadPosition(t)
  PROVE  SerialInv'
<1>1. PICK th : th = thread[t] OBVIOUS
<1>2. th.at \in {"submit", "fill", "load"}
  BY <1>1 DEF CommandSubmit, CommandFill, LoadPosition, At
<1>3. Settled(th) /\ \A u \in Threads \ {t} : Request(u) BY <1>1, <1>2, InTurn
<1>4. th \in Local /\ Formed(th) BY <1>1 DEF IInv, ThreadInv, Formed
<1>5. ASSUME NEW x, Goto(t, x), UNCHANGED <<trades, flows, positions, crashes>>, Settled(x)
      PROVE  SerialInv'
  BY <1>3, <1>5, SettledKept, TurnKept
<1>6. ASSUME NEW o \in OrderIds, CommandSubmit(t, o) PROVE SerialInv'
  <2>1. PICK x : x = [th EXCEPT !.at = "fill", !.trade = [th.trade EXCEPT !.order = o]] OBVIOUS
  <2>2. /\ th.at = "submit" /\ x.at = "fill" /\ x.job = th.job
        /\ x.trade = [th.trade EXCEPT !.order = o]
    BY <1>1, <1>4, <1>6, <2>1 DEF CommandSubmit, At, Local
  <2>3. /\ x.trade.account = th.trade.account /\ x.trade.symbol = th.trade.symbol
        /\ x.trade.side = th.trade.side /\ x.trade.quantity = th.trade.quantity
        /\ x.trade.price = th.trade.price
    BY <1>4, <2>2 DEF Local, Draft
  <2>4. Settled(x)
    <3>1. Covered(x.trade) BY <1>3, <2>2, <2>3 DEF Settled, Backed, Covered
    <3>2. Backed(x) BY <1>4, <2>2, <3>1 DEF Backed, Formed
    <3>3. QED BY <1>3, <2>2, <3>2 DEF Settled, Follows, Ahead
  <2>5. Goto(t, x) /\ UNCHANGED <<trades, flows, positions, crashes>>
    BY <1>1, <1>6, <2>1 DEF CommandSubmit
  <2>6. QED BY <1>5, <2>4, <2>5
<1>7. CASE CommandFill(t)
  <2>1. th.at = "fill" BY <1>1, <1>7 DEF CommandFill, At
  <2>2. Settled(Idle)
    BY <1>3, <2>1 DEF Settled, Backed, Follows, Ahead, Idle
  <2>3. PICK x : x = [th EXCEPT !.at = "trade"] OBVIOUS
  <2>4. x.at = "trade" /\ x.job = th.job /\ x.trade = th.trade BY <1>4, <2>3 DEF Local
  <2>5. Settled(x)
    BY <1>3, <2>1, <2>4 DEF Settled, Backed, Follows, Ahead
  <2>6. (Goto(t, x) \/ Goto(t, Idle)) /\ UNCHANGED <<trades, flows, positions, crashes>>
    BY <1>1, <1>7, <2>3 DEF CommandFill
  <2>7. QED BY <1>5, <2>2, <2>5, <2>6
<1>8. CASE LoadPosition(t)
  <2>1. th.at = "load" BY <1>1, <1>8 DEF LoadPosition, At
  <2>2. PICK q : q = positions[<<th.trade.account, th.trade.symbol>>] OBVIOUS
  <2>3. th.trade \in Trade /\ q \in Nat
    BY <1>4, <2>1, <2>2 DEF Formed, Trade, IInv, TypeOK
  <2>4. th.trade.side = "SELL" => q >= th.trade.quantity
    BY <1>3, <2>1, <2>2 DEF Settled, Backed
  <2>5. th.trade.quantity \in Nat BY <2>3, AmountsAssumption DEF Trade
  <2>6. ~(th.trade.side = "SELL" /\ q < th.trade.quantity) BY <2>3, <2>4, <2>5
  <2>7. PICK x : x = [th EXCEPT !.at = "store", !.held = q] OBVIOUS
  <2>8. x.at = "store" /\ x.held = q /\ x.job = th.job /\ x.trade = th.trade
    BY <1>4, <2>7 DEF Local
  <2>9. Settled(x)
    BY <1>3, <2>1, <2>2, <2>8 DEF Settled, Backed, Follows, Ahead
  <2>10. Goto(t, x) /\ UNCHANGED <<trades, flows, positions, crashes>>
    BY <1>1, <1>8, <2>2, <2>6, <2>7 DEF LoadPosition, tables
  <2>11. QED BY <1>5, <2>9, <2>10
<1>9. QED BY <1>6, <1>7, <1>8

\* A flow that the balance of its account covers leaves every balance covered,
\* and says nothing of positions.
LEMMA FlowCovered ==
  ASSUME IInv, CashCovered, NEW b \in Accounts, NEW n \in Int, NEW k \in Nat, InsertFlow(b, n, k),
         CashBalance(b) + n >= 0
  PROVE  CashCovered'
<1>1. \A a \in Accounts : /\ CashBalance(a) \in Int
                          /\ CashBalance(a)' = CashBalance(a) + (IF b = a THEN n ELSE 0)
  BY FlowBooked
<1>2. ASSUME NEW a \in Accounts PROVE CashBalance(a)' >= 0
  <2>1. CASE b = a BY <1>1, <2>1
  <2>2. CASE b # a BY <1>1, <2>2 DEF CashCovered
  <2>3. QED BY <2>1, <2>2
<1>3. QED BY <1>2 DEF CashCovered

\* A request pays.
LEMMA PayTurn ==
  ASSUME IInv, SerialInv, mode = "serial", NEW t \in Threads,
         DepositCapital(t) \/ WithdrawSave(t) \/ SaveCashFlow(t)
  PROVE  SerialInv'
<1>1. PICK th : th = thread[t] OBVIOUS
<1>2. th.at \in {"deposit", "withdraw", "flow"}
  BY <1>1 DEF DepositCapital, WithdrawSave, SaveCashFlow, At
<1>3. Settled(th) /\ \A u \in Threads \ {t} : Request(u) BY <1>1, <1>2, InTurn
<1>4. th \in Local /\ Formed(th) BY <1>1 DEF IInv, ThreadInv, Formed
<1>5. \A a, s : TradedQuantity(a, s)' = TradedQuantity(a, s)
  BY TablesSay DEF DepositCapital, WithdrawSave, SaveCashFlow
<1>6. UNCHANGED <<positions, crashes>>
  BY DEF DepositCapital, WithdrawSave, SaveCashFlow
<1>7. ASSUME NEW x, Goto(t, x), CashCovered', Backed(x)', crashes = 0 => Follows(x)
      PROVE  SerialInv'
  <2>1. (crashes = 0 => Follows(x))'
    BY <1>5, <1>6, <1>7 DEF Follows, Ahead
  <2>2. QED BY <1>3, <1>7, <2>1, TurnKept DEF Settled
<1>8. CASE DepositCapital(t) \/ WithdrawSave(t)
  <2>1. PICK n \in Int : InsertFlow(th.account, n, 0) /\ n = IF th.at = "deposit" THEN th.amount ELSE -th.amount
    BY <1>1, <1>4, <1>8 DEF DepositCapital, WithdrawSave, At, Local
  <2>2. th.account \in Accounts /\ th.amount \in Nat /\ th.at \in {"deposit", "withdraw"}
    BY <1>1, <1>4, <1>8 DEF Formed, Local, DepositCapital, WithdrawSave, At
  <2>3. CashBalance(th.account) \in Int
    BY <2>1, <2>2, FlowBooked
  <2>4. CashBalance(th.account) + n >= 0
    BY <1>3, <2>1, <2>2, <2>3 DEF Settled, CashCovered, Backed
  <2>5. CashCovered' BY <1>3, <2>1, <2>2, <2>4, FlowCovered DEF Settled
  <2>6. Goto(t, Idle) BY <1>8 DEF DepositCapital, WithdrawSave
  <2>7. Backed(Idle)' BY DEF Backed, Idle
  <2>8. crashes = 0 => Follows(Idle) BY <1>3, <2>2 DEF Settled, Follows, Ahead, Idle
  <2>9. QED BY <1>7, <2>5, <2>6, <2>7, <2>8
<1>9. CASE SaveCashFlow(t)
  <2>1. th.at = "flow" BY <1>1, <1>9 DEF SaveCashFlow, At
  <2>2. th.trade \in Trade /\ th.job = "command" /\ th.number \in Nat
    BY <1>3, <1>4, <2>1 DEF Formed, Settled, Backed, Local
  <2>3. PICK n \in Int : n = SignedAmount(th.trade) BY <2>2, SignedInt
  <2>4. InsertFlow(th.trade.account, n, th.number) BY <1>1, <1>9, <2>3 DEF SaveCashFlow
  <2>5. th.trade.account \in Accounts BY <2>2 DEF Trade
  <2>6. CashBalance(th.trade.account) \in Int
    BY <2>2, <2>4, <2>5, FlowBooked
  <2>7. Covered(th.trade) /\ CashBalance(th.trade.account) >= 0
    BY <1>3, <2>1, <2>5 DEF Settled, Backed, CashCovered
  <2>8. CashBalance(th.trade.account) + n >= 0
    <3>1. PICK m : m = th.trade.quantity * th.trade.price OBVIOUS
    <3>2. m \in Nat
      <4>1. th.trade.quantity \in Nat /\ th.trade.price \in Nat
        BY <2>2, AmountsAssumption DEF Trade
      <4>2. QED BY <3>1, <4>1
    <3>3. n = IF th.trade.side = "BUY" THEN -m ELSE m BY <2>3, <3>1 DEF SignedAmount
    <3>4. th.trade.side = "BUY" => CashBalance(th.trade.account) >= m
      BY <2>7, <3>1 DEF Covered
    <3>5. QED BY <2>6, <2>7, <3>2, <3>3, <3>4
  <2>9. CashCovered' BY <1>3, <2>2, <2>4, <2>5, <2>8, FlowCovered DEF Settled
  <2>10. PICK x : x = [th EXCEPT !.at = "load"] OBVIOUS
  <2>11. x.at = "load" /\ x.trade = th.trade /\ x.job = th.job BY <1>4, <2>10 DEF Local
  <2>12. Goto(t, x) BY <1>1, <1>9, <2>2, <2>10 DEF SaveCashFlow, AfterFlow
  <2>13. Backed(x)' BY <1>6, <2>7, <2>11 DEF Backed, Covered
  <2>14. crashes = 0 => Follows(x) BY <1>3, <2>1, <2>11 DEF Settled, Follows, Ahead
  <2>15. QED BY <1>7, <2>9, <2>12, <2>13, <2>14
<1>10. QED BY <1>8, <1>9

\* The trade of a request is booked: positions are now behind.
LEMMA TradeTurn ==
  ASSUME IInv, SerialInv, mode = "serial", NEW t \in Threads, SaveTrade(t)
  PROVE  SerialInv'
<1>1. PICK th, x : th = thread[t] /\ x = [th EXCEPT !.at = "flow", !.number = Len(trades) + 1]
  OBVIOUS
<1>2. th.at = "trade" BY <1>1 DEF SaveTrade, At
<1>3. Settled(th) /\ \A u \in Threads \ {t} : Request(u) BY <1>1, <1>2, InTurn
<1>4. th \in Local /\ Formed(th) /\ th.trade \in Trade
  BY <1>1, <1>2 DEF IInv, ThreadInv, Formed
<1>5. x.at = "flow" /\ x.trade = th.trade /\ x.job = th.job BY <1>1, <1>4 DEF Local
<1>6. Goto(t, x) /\ UNCHANGED <<flows, positions, crashes>> BY <1>1 DEF SaveTrade
<1>7. \A a : CashBalance(a)' = CashBalance(a) BY <1>6, TablesSay
<1>8. CashCovered' BY <1>3, <1>7 DEF Settled, CashCovered
<1>9. CashBalance(x.trade.account)' = CashBalance(x.trade.account) BY <1>7
<1>10. Backed(x)'
  BY <1>2, <1>3, <1>5, <1>6, <1>9 DEF Settled, Backed, Covered
<1>11. \A a \in Accounts : \A s \in Symbols :
         TradedQuantity(a, s)' =
           IF th.trade.account = a /\ th.trade.symbol = s THEN Remaining(TradedQuantity(a, s), th.trade)
           ELSE TradedQuantity(a, s)
  BY <1>1, <1>4, TradeBooked DEF SaveTrade
<1>12. (crashes = 0 => Follows(x))'
  <2>1. ASSUME crashes = 0, NEW a \in Accounts, NEW s \in Symbols
        PROVE  TradedQuantity(a, s)' = IF Ahead(x, a, s) THEN Remaining(positions[<<a, s>>], x.trade)
                                       ELSE positions[<<a, s>>]
    <3>1. TradedQuantity(a, s) = positions[<<a, s>>]
      BY <1>2, <1>3, <2>1 DEF Settled, Follows, Ahead
    <3>2. Ahead(x, a, s) <=> th.trade.account = a /\ th.trade.symbol = s
      BY <1>5 DEF Ahead
    <3>3. QED BY <1>5, <1>11, <3>1, <3>2
  <2>2. QED BY <1>6, <2>1 DEF Follows, Ahead
<1>13. QED BY <1>3, <1>6, <1>8, <1>10, <1>12, TurnKept DEF Settled

\* The position of the request is written: it follows the trades again.
LEMMA StoreTurn ==
  ASSUME IInv, SerialInv, mode = "serial", NEW t \in Threads, StorePosition(t)
  PROVE  SerialInv'
<1>1. PICK th : th = thread[t] OBVIOUS
<1>2. th.at = "store" BY <1>1 DEF StorePosition, At
<1>3. Settled(th) /\ \A u \in Threads \ {t} : Request(u) BY <1>1, <1>2, InTurn
<1>4. th.trade \in Trade BY <1>1, <1>2 DEF IInv, ThreadInv, Formed
<1>5. Goto(t, Idle) /\ UNCHANGED <<trades, flows, crashes>> BY DEF StorePosition
<1>6. /\ \A a : CashBalance(a)' = CashBalance(a)
      /\ \A a, s : TradedQuantity(a, s)' = TradedQuantity(a, s)
  BY <1>5, BooksKept
<1>7. CashCovered' BY <1>3, <1>6 DEF Settled, CashCovered
<1>8. Backed(Idle)' BY DEF Backed, Idle
<1>9. PICK b, r : b = th.trade.account /\ r = th.trade.symbol OBVIOUS
<1>10. b \in Accounts /\ r \in Symbols BY <1>4, <1>9 DEF Trade
<1>11. th.held = positions[<<b, r>>] BY <1>2, <1>3, <1>9 DEF Settled, Backed
<1>12. positions' = [positions EXCEPT ![<<b, r>>] = Remaining(positions[<<b, r>>], th.trade)]
  BY <1>1, <1>9, <1>11 DEF StorePosition
<1>13. positions \in [Accounts \X Symbols -> Nat] BY DEF IInv, TypeOK
<1>14. (crashes = 0 => Follows(Idle))'
  <2>1. ASSUME crashes = 0, NEW a \in Accounts, NEW s \in Symbols
        PROVE  TradedQuantity(a, s)' = positions'[<<a, s>>]
    <3>1. TradedQuantity(a, s) = IF a = b /\ s = r THEN Remaining(positions[<<b, r>>], th.trade)
                                 ELSE positions[<<a, s>>]
      BY <1>2, <1>3, <1>9, <2>1 DEF Settled, Follows, Ahead
    <3>2. positions'[<<a, s>>] = IF a = b /\ s = r THEN Remaining(positions[<<b, r>>], th.trade)
                                 ELSE positions[<<a, s>>]
      BY <1>10, <1>12, <1>13
    <3>3. QED BY <1>6, <3>1, <3>2
  <2>2. ~Ahead(Idle, NoAccount, NoSymbol) /\ \A a, s : ~Ahead(Idle, a, s) BY DEF Ahead, Idle
  <2>3. QED BY <1>5, <2>1, <2>2 DEF Follows, Ahead, Idle
<1>15. QED BY <1>3, <1>5, <1>7, <1>8, <1>14, TurnKept DEF Settled

\* No other step of a request is taken.
LEMMA OtherTurn ==
  ASSUME IInv, SerialInv, mode = "serial", NEW t \in Threads, Step(t)
  PROVE  \/ DepositCapital(t) \/ WithdrawSave(t) \/ SaveCashFlow(t)
         \/ SaveTrade(t) \/ StorePosition(t)
         \/ (\E o \in OrderIds : CommandSubmit(t, o)) \/ CommandFill(t) \/ LoadPosition(t)
<1>1. ASSUME thread[t].at \in {"delete", "next"} PROVE FALSE
  BY <1>1, InTurn DEF Settled, Backed
<1>2. ASSUME thread[t].at = "fill", thread[t].job = "batch" PROVE FALSE
  BY <1>2, InTurn DEF Settled, Backed
<1>3. QED
  BY <1>1, <1>2 DEF Step, At, DeleteOrderSave, ProcessNext, CleanupNext, BatchSubmit, BatchSkip,
                    BatchFill, BatchDone

\* A crash leaves the tables, and no request; positions may stay behind.
LEMMA CrashTurn ==
  ASSUME IInv, SerialInv, mode = "serial", Crash
  PROVE  SerialInv'
<1>1. CashCovered BY DEF SerialInv, Settled
<1>2. UNCHANGED <<flows, trades>> BY DEF Crash, tables
<1>3. CashCovered' BY <1>1, <1>2, BooksKept DEF CashCovered
<1>4. crashes' # 0 BY DEF Crash, IInv, TypeOK
<1>5. Turn(Idle)' BY DEF Crash, Turn, AtRest, Request
<1>6. Backed(Idle)' BY DEF Backed, Idle
<1>7. Settled(Idle)' BY <1>3, <1>4, <1>6 DEF Settled
<1>8. QED BY <1>5, <1>7 DEF SerialInv

\* Every family of behaviours is one of the ledger.
LEMMA MCNextRefines ==
  ASSUME [MCNext]_<<vars, mode>>
  PROVE  [Next]_vars
BY DEF MCNext, Mixed, CashAndCommands, Next, Start, vars

LEMMA SerialStep ==
  ASSUME IInv, SerialInv, [MCNext]_<<vars, mode>>
  PROVE  SerialInv'
<1>1. mode' = mode BY DEF MCNext
<1>2. CASE mode # "serial" BY <1>1, <1>2 DEF SerialInv
<1>3. CASE UNCHANGED <<vars, mode>>
  <2>1. CASE mode = "serial"
    <3>1. PICK th \in {Idle} \cup {thread[t] : t \in Threads} : Turn(th) /\ Settled(th)
      BY <2>1 DEF SerialInv
    <3>2. Settled(th)' BY <1>3, <3>1, SettledKept DEF vars
    <3>3. Turn(th)' /\ th \in {Idle} \cup {thread'[t] : t \in Threads}
      BY <1>3, <3>1 DEF vars, Turn, AtRest, Request
    <3>4. QED BY <3>2, <3>3 DEF SerialInv
  <2>2. QED BY <1>2, <2>1
<1>4. CASE mode = "serial" /\ MCNext
  <2>1. CASE Crash BY <1>4, <2>1, CrashTurn
  <2>2. ASSUME NEW t \in Threads, Step(t) PROVE SerialInv'
    BY <1>4, <2>2, OtherTurn, PayTurn, TradeTurn, StoreTurn, QuietTurn
  <2>3. ASSUME NEW t \in Threads, AtRest, Cash(t) \/ Commands(t) PROVE SerialInv'
    BY <1>4, <2>3, StartSettled
  <2>4. QED BY <1>4, <2>1, <2>2, <2>3 DEF MCNext, CashAndCommands
<1>5. QED BY <1>2, <1>3, <1>4

LEMMA SerialInit == MCInit => SerialInv
<1> SUFFICES ASSUME MCInit PROVE SerialInv OBVIOUS
<1>1. Init BY DEF MCInit
<1>2. Turn(Idle) BY <1>1 DEF Init, Turn, AtRest, Request
<1>3. \A a, s : CashBalance(a) = 0 /\ TradedQuantity(a, s) = 0
  BY <1>1, TablesSay, NothingBooked DEF Init
<1>4. Settled(Idle)
  BY <1>1, <1>3 DEF Init, Settled, CashCovered, Backed, Follows, Ahead, Idle
<1>5. QED BY <1>2, <1>4 DEF SerialInv

\* With one request at a time: at most one request is in progress, what it
\* checked still holds, and its trade is what positions do not show yet.
THEOREM MCInvariant == MCSpec => [](IInv /\ SerialInv)
<1>1. MCInit => IInv /\ SerialInv
  BY InitInv, SerialInit DEF MCInit
<1>2. IInv /\ SerialInv /\ [MCNext]_<<vars, mode>> => (IInv /\ SerialInv)'
  <2>1. ASSUME IInv, SerialInv, [MCNext]_<<vars, mode>> PROVE (IInv /\ SerialInv)'
    <3>1. [Next]_vars BY <2>1, MCNextRefines
    <3>2. IInv'
      BY <2>1, <3>1, NextGood, FilledOnceStep, FlowsMatchStep, CleanupStep DEF Good, IInv
    <3>3. QED BY <2>1, <3>2, SerialStep
  <2>2. QED BY <2>1
<1>3. QED BY <1>1, <1>2, PTL DEF MCSpec

\* One request at a time: no account is overdrawn, by a withdrawal or by a
\* purchase, and without a crash every position is what its trades add up to
\* (withdraw, the buy and sell commands, _apply_trade_position_change).
THEOREM SerialCorrect == MCSpec => []SerialLedger
<1>1. IInv /\ SerialInv => SerialLedger
  <2>1. ASSUME IInv, SerialInv, mode = "serial" PROVE CashCovered
    BY <2>1 DEF SerialInv, Settled
  <2>2. ASSUME IInv, SerialInv, mode = "serial", crashes = 0, AtRest
        PROVE  \A a \in Accounts, s \in Symbols : positions[<<a, s>>] = TradedQuantity(a, s)
    <3>1. Settled(Idle) BY <2>2, AtRestTurn
    <3>2. QED BY <2>2, <3>1 DEF Settled, Follows, Ahead, Idle
  <2>3. QED BY <2>1, <2>2 DEF SerialLedger, PositionsFollowTrades
<1>2. QED BY <1>1, MCInvariant, PTL
=============================================================================
