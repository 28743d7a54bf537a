------------------------ MODULE PurchaseOrdersProofs ------------------------
(***************************************************************************)
(* Proofs about PurchaseOrders, for any sets of requests, orders and SKUs, *)
(* any quantities and any bounds.                                          *)
(***************************************************************************)
EXTENDS PurchaseOrders, InventoryProofs

\* The requests at work know the order they read and where its event leads.
WorkOK ==
    \A r \in Requests : otx[r] # Idle =>
        /\ otx[r].read.status \in AllStates
        /\ otx[r].to \in AllStates
        /\ otx[r].pc = "locked" /\ otx[r].op = "transition" => otx[r].log \in Ids

-----------------------------------------------------------------------------
(***************************************************************************)
(* The transition table.                                                   *)
(***************************************************************************)

\* The lines of the table name statuses and events that exist, and no event
\* leads back to the status of an order that does not exist.
LEMMA TableTypes ==
    ASSUME NEW t \in stateTransitions
    PROVE  t.name \in AllEvents /\ t.dst \in AllStates /\ t.src \subseteq AllStates \cup {NoStatus}
BY DEF stateTransitions, AllEvents, AllStates

\* Where an edge can come from, for the statuses at the end of the life cycle.
LEMMA EdgesIntoTheEnd ==
    ASSUME NEW from
    PROVE  /\ Edge(from, "settled") => from = "reconciling"
           /\ Edge(from, "reconciling") => from \in {"qc", "received"}
           /\ Edge(from, "qc") => from = "received"
BY DEF Edge, stateTransitions

\* A status an order has existed with is a status of the table.
LEMMA StatusNames == NoStatus \notin AllStates /\ AllStates \subseteq Statuses
BY DEF NoStatus, AllStates, Statuses

-----------------------------------------------------------------------------
(***************************************************************************)
(* The stock part: every step is a stock move or leaves the stock alone.   *)
(***************************************************************************)

\* Receiving an order adds to the stock a quantity that is not negative.
LEMMA HandleReceiveReadMoves ==
    ASSUME TypeOK, NeverNegativeInv, NEW r \in Requests, HandleReceiveRead(r)
    PROVE  StockMove
<1> DEFINE tx == otx[r]
<1>1. /\ \E inv \in Lookup(SkuOf[tx.order]) : ReadStock(r, SkuOf[tx.order], tx.order, inv, tx.qty)
      /\ UNCHANGED <<rows, movements, alerts>>
  BY DEF HandleReceiveRead
<1>2. tx.order \in Orders /\ tx.qty \in Nat
  BY DEF HandleReceiveRead, Stocking, TypeOK, OrderTx, Idle
<1> HIDE DEF tx
<1>3. SkuOf[tx.order] \in Skus /\ tx.order \in Refs
  BY <1>2, PurchaseAssumption
<1>4. PICK inv \in Lookup(SkuOf[tx.order]) : ReadStock(r, SkuOf[tx.order], tx.order, inv, tx.qty)
  BY <1>1
<1>5. inv.qty + tx.qty >= 0
  <2>1. (inv = NoRow \/ inv \in rows[SkuOf[tx.order]]) /\ inv.qty \in Int
    BY <1>3, LookupIsRow DEF TypeOK
  <2>2. inv.qty >= 0
    BY <1>3, <2>1 DEF NeverNegativeInv, StockNeverNegative, NoRow
  <2>3. QED
    BY <1>2, <2>1, <2>2
<1>6. MoveRead
  BY <1>1, <1>2, <1>3, <1>4, <1>5 DEF MoveRead
<1>7. QED
  BY <1>6 DEF StockMove

\* Every step of the composed system is a stock move.
LEMMA OrdersStepMoves ==
    ASSUME TypeOK, NeverNegativeInv, [Next]_vars
    PROVE  StockMove
<1>1. ASSUME NEW r \in Requests, Proceed(r) PROVE StockMove
  <2>1. CASE UpdateOrderWrite(r) \/ TransitionUpdate(r) \/ ReceiveUpdate(r) \/ ReceiveCommit(r)
    BY <2>1 DEF UpdateOrderWrite, TransitionUpdate, ReceiveUpdate, ReceiveCommit, StockMove
  <2>2. CASE HandleReceiveRead(r)
    BY <2>2, HandleReceiveReadMoves
  <2>3. CASE HandleReceiveSave(r)
    BY <2>3 DEF HandleReceiveSave, StockMove, MoveSave
  <2>4. CASE TransitionCommit(r)
    <3>1. CASE CommitStock(r) /\ UNCHANGED alerts
      BY <3>1 DEF StockMove, MoveCommit, TypeOK, StockTypeOK
    <3>2. CASE UNCHANGED stockVars
      BY <3>2 DEF StockMove
    <3>3. QED
      BY <2>4, <3>1, <3>2 DEF TransitionCommit
  <2>5. QED
    BY <1>1, <2>1, <2>2, <2>3, <2>4 DEF Proceed
<1>2. ASSUME NEW r \in Requests, Abandon(r) PROVE StockMove
  BY <1>2 DEF Abandon, StockMove, MoveAbandon
<1>3. CASE Stock
  <2>1. CASE ManageStep
    BY <2>1 DEF StockMove
  <2>2. ASSUME NEW r \in Requests, AdjustStep(r) PROVE StockMove
    BY <2>2, AdjustStepMoves DEF TypeOK
  <2>3. QED
    BY <1>3, <2>1, <2>2 DEF Stock
<1>4. ASSUME NEW o \in Orders, NEW q \in OrderQtys, CreateOrder(o, q) \/ RaiseInquiry(o, q)
      PROVE  StockMove
  BY <1>4 DEF CreateOrder, RaiseInquiry, Insert, StockMove
<1>5. ASSUME NEW r \in Requests, NEW o \in Orders,
             \/ \E q \in OrderQtys : UpdateOrderRead(r, o, q)
             \/ \E t \in stateTransitions : TransitionRead(r, o, t)
             \/ ReceiveRead(r, o)
      PROVE  StockMove
  BY <1>5 DEF UpdateOrderRead, TransitionRead, ReceiveRead, StockMove
<1>6. CASE UNCHANGED vars
  BY <1>6 DEF vars, StockMove
<1>7. QED
  BY <1>1, <1>2, <1>3, <1>4, <1>5, <1>6 DEF Next

-----------------------------------------------------------------------------
(***************************************************************************)
(* Types of the orders and of the requests working on them.                *)
(***************************************************************************)

\* The part of OrdersInv that is about the order tables.
OrderTables ==
    /\ orders \in [Orders -> Order]
    /\ logs \in [Orders -> SUBSET StatusLog]
    /\ receipts \in [Orders -> Nat]
    /\ otx \in [Requests -> {Idle} \cup OrderTx]
    /\ reached \in [Orders -> SUBSET AllStates]
    /\ WorkOK

\* Reading an order to begin an operation.
LEMMA StartTypes ==
    ASSUME OrderTables, NEW r \in Requests, NEW o \in Orders, Exists(o),
           NEW op \in {"transition", "receive", "update"}, NEW e \in AllEvents,
           NEW to \in AllStates, NEW q \in Nat, Start(r, op, o, e, to, q),
           UNCHANGED <<orders, logs, receipts, reached>>
    PROVE  OrderTables'
<1> DEFINE tx == [pc |-> "validated", op |-> op, order |-> o, event |-> e, read |-> orders[o],
                  to |-> to, qty |-> q, log |-> 0]
<1>1. tx \in OrderTx /\ tx.read.status \in AllStates
  BY StatusNames DEF OrderTables, OrderTx, Order, Exists, Statuses
<1>2. tx.to \in AllStates /\ tx.pc # "locked"
  OBVIOUS
<1>3. otx' = [otx EXCEPT ![r] = tx]
  BY DEF Start
<1> HIDE DEF tx
<1>4. QED
  BY <1>1, <1>2, <1>3 DEF OrderTables, WorkOK

\* A request that has an order in memory.
LEMMA WorkTypes ==
    ASSUME OrderTables, NEW r \in Requests, otx[r].pc # "idle"
    PROVE  /\ otx[r] \in OrderTx /\ otx[r] # Idle
           /\ otx[r].order \in Orders /\ otx[r].qty \in Nat
           /\ otx[r].to \in AllStates /\ otx[r].read \in Order
           /\ otx[r].read.status \in AllStates
           /\ otx[r].pc = "locked" /\ otx[r].op = "transition" => otx[r].log \in Ids
BY DEF OrderTables, WorkOK, OrderTx, Idle

\* Answering a request.
LEMMA FinishWork ==
    ASSUME OrderTables, NEW r \in Requests, Finish(r)
    PROVE  otx' \in [Requests -> {Idle} \cup OrderTx] /\ WorkOK'
BY DEF OrderTables, Finish, WorkOK, Idle

\* Editing an order, and giving up, change no status.
LEMMA TermsOnly ==
    ASSUME OrderTables, NEW r \in Requests, UpdateOrderWrite(r) \/ Abandon(r)
    PROVE  \A p \in Orders : orders'[p].status = orders[p].status
<1>1. ASSUME orders' = [orders EXCEPT ![otx[r].order].qty = otx[r].qty], NEW p \in Orders
      PROVE  orders'[p].status = orders[p].status
  <2>1. orders[p] \in Order
    BY DEF OrderTables
  <2>2. orders'[p] = orders[p] \/ orders'[p] = [orders[p] EXCEPT !.qty = otx[r].qty]
    BY <1>1 DEF OrderTables
  <2>3. QED
    BY <2>1, <2>2 DEF Order
<1>2. QED
  BY <1>1 DEF UpdateOrderWrite, Abandon

\* The commit of a transition appends one item to the history it read.
LEMMA CommitTypes ==
    ASSUME OrderTables, NEW r \in Requests, TransitionCommit(r)
    PROVE  OrderTables'
<1> DEFINE tx == otx[r]
<1>1. /\ tx.order \in Orders /\ tx.to \in AllStates /\ tx.read \in Order
      /\ tx.read.status \in AllStates /\ tx.log \in Ids
  BY WorkTypes DEF TransitionCommit
<1>2. appendStatusHistory(tx) \in Seq(HistoryItem)
  <2>1. [from |-> tx.read.status, to |-> tx.to] \in HistoryItem
    BY <1>1 DEF HistoryItem
  <2>2. tx.read.history \in Seq(HistoryItem)
    BY <1>1 DEF Order
  <2>3. QED
    BY <2>1, <2>2 DEF appendStatusHistory
<1>3. TransitionLog(tx) \in StatusLog
  BY <1>1, StatusNames DEF TransitionLog, StatusLog
<1>4. /\ orders' = [orders EXCEPT ![tx.order].status = tx.to,
                                  ![tx.order].history = appendStatusHistory(tx)]
      /\ logs' = [logs EXCEPT ![tx.order] = @ \cup {TransitionLog(tx)}]
      /\ reached' = [reached EXCEPT ![tx.order] = @ \cup {tx.to}]
      /\ Finish(r)
      /\ receipts' = [receipts EXCEPT ![tx.order] = @ + 1] \/ receipts' = receipts
  BY DEF TransitionCommit, Become
<1> HIDE DEF tx
<1>5. orders' \in [Orders -> Order]
  BY <1>1, <1>2, <1>4, StatusNames DEF OrderTables, Order
<1>6. logs' \in [Orders -> SUBSET StatusLog]
  BY <1>1, <1>3, <1>4 DEF OrderTables
<1>7. receipts' \in [Orders -> Nat] /\ reached' \in [Orders -> SUBSET AllStates]
  BY <1>1, <1>4 DEF OrderTables
<1>8. QED
  BY <1>4, <1>5, <1>6, <1>7, FinishWork DEF OrderTables

\* Every step keeps the types of the order tables.
LEMMA OrderTablesStep == OrderTables /\ [Next]_vars => OrderTables'
<1> SUFFICES ASSUME OrderTables, [Next]_vars PROVE OrderTables'
  OBVIOUS
<1>1. ASSUME NEW o \in Orders, NEW q \in OrderQtys, CreateOrder(o, q) \/ RaiseInquiry(o, q)
      PROVE  OrderTables'
  <2>1. PICK first \in {"inquiry", "ordered"} : Insert(o, first, q)
    BY <1>1 DEF CreateOrder, RaiseInquiry
  <2>2. first \in AllStates /\ q \in Nat
    BY PurchaseAssumption DEF AllStates
  <2>3. [status |-> first, qty |-> q, history |-> <<>>] \in Order
    BY <2>2, StatusNames DEF Order
  <2>4. [id |-> 1, from |-> NoStatus, to |-> first] \in StatusLog
    BY <2>2, InventoryAssumption DEF StatusLog, Statuses, Ids
  <2>5. QED
    BY <2>1, <2>2, <2>3, <2>4 DEF Insert, Become, OrderTables, WorkOK
<1>2. ASSUME NEW r \in Requests, NEW o \in Orders, NEW q \in OrderQtys, UpdateOrderRead(r, o, q)
      PROVE  OrderTables'
  <2>1. q \in Nat /\ "quote" \in AllEvents
    BY PurchaseAssumption DEF AllEvents, stateTransitions
  <2>2. orders[o].status \in AllStates /\ Exists(o)
    BY <1>2 DEF UpdateOrderRead, AllStates, Exists, NoStatus
  <2>3. QED
    BY <1>2, <2>1, <2>2, StartTypes DEF UpdateOrderRead
<1>3. ASSUME NEW r \in Requests, NEW o \in Orders, NEW t \in stateTransitions,
             TransitionRead(r, o, t)
      PROVE  OrderTables'
  <2>1. orders[o].qty \in Nat
    BY DEF OrderTables, Order
  <2>2. QED
    BY <1>3, <2>1, TableTypes, StartTypes DEF TransitionRead
<1>4. ASSUME NEW r \in Requests, NEW o \in Orders, ReceiveRead(r, o)
      PROVE  OrderTables'
  <2>1. orders[o].qty \in Nat
    BY DEF OrderTables, Order
  <2>2. "received" \in AllStates /\ "receive" \in AllEvents
    BY DEF AllStates, AllEvents, stateTransitions
  <2>3. QED
    BY <1>4, <2>1, <2>2, StartTypes DEF ReceiveRead
<1>5. ASSUME NEW r \in Requests, UpdateOrderWrite(r) PROVE OrderTables'
  <2>1. otx[r].order \in Orders /\ otx[r].qty \in Nat
    BY <1>5, WorkTypes DEF UpdateOrderWrite
  <2>2. orders' \in [Orders -> Order]
    BY <1>5, <2>1 DEF UpdateOrderWrite, OrderTables, Order
  <2>3. QED
    BY <1>5, <2>2, FinishWork DEF UpdateOrderWrite, OrderTables
<1>6. ASSUME NEW r \in Requests, TransitionUpdate(r) PROVE OrderTables'
  <2> DEFINE log == NewId(LogIds(otx[r].order))
  <2>1. log \in Ids /\ otx[r] \in OrderTx /\ otx[r] # Idle
    BY <1>6, NewIdIsFresh, WorkTypes DEF TransitionUpdate
  <2>2. otx' = [otx EXCEPT ![r].pc = "locked", ![r].log = log]
    BY <1>6 DEF TransitionUpdate
  <2> HIDE DEF log
  <2>3. otx'[r] = [otx[r] EXCEPT !.pc = "locked", !.log = log]
    BY <2>2 DEF OrderTables
  <2>4. otx'[r] \in OrderTx /\ otx'[r].log \in Ids
        /\ otx'[r].read = otx[r].read /\ otx'[r].to = otx[r].to
    BY <2>1, <2>3 DEF OrderTx
  <2>5. \A q \in Requests : q # r => otx'[q] = otx[q]
    BY <2>2 DEF OrderTables
  <2>6. otx' \in [Requests -> {Idle} \cup OrderTx]
    BY <2>2, <2>4, <2>5 DEF OrderTables
  <2>7. WorkOK'
    BY <2>1, <2>4, <2>5 DEF OrderTables, WorkOK
  <2>8. QED
    BY <1>6, <2>6, <2>7 DEF TransitionUpdate, OrderTables
<1>7. ASSUME NEW r \in Requests, HandleReceiveRead(r) \/ HandleReceiveSave(r)
      PROVE  OrderTables'
  BY <1>7 DEF HandleReceiveRead, HandleReceiveSave, orderVars, OrderTables, WorkOK
<1>8. ASSUME NEW r \in Requests, TransitionCommit(r) PROVE OrderTables'
  BY <1>8, CommitTypes
<1>9. ASSUME NEW r \in Requests, ReceiveUpdate(r) PROVE OrderTables'
  <2>1. otx[r] \in OrderTx /\ otx[r] # Idle /\ otx[r].op = "receive"
    BY <1>9, WorkTypes DEF ReceiveUpdate
  <2>2. otx' = [otx EXCEPT ![r].pc = "locked"]
    BY <1>9 DEF ReceiveUpdate
  <2>3. otx'[r] = [otx[r] EXCEPT !.pc = "locked"]
    BY <2>2 DEF OrderTables
  <2>4. otx'[r] \in OrderTx /\ otx'[r].op = "receive"
        /\ otx'[r].read = otx[r].read /\ otx'[r].to = otx[r].to
    BY <2>1, <2>3 DEF OrderTx
  <2>5. \A q \in Requests : q # r => otx'[q] = otx[q]
    BY <2>2 DEF OrderTables
  <2>6. otx' \in [Requests -> {Idle} \cup OrderTx]
    BY <2>2, <2>4, <2>5 DEF OrderTables
  <2>7. WorkOK'
    BY <2>1, <2>4, <2>5 DEF OrderTables, WorkOK
  <2>8. QED
    BY <1>9, <2>6, <2>7 DEF ReceiveUpdate, OrderTables
<1>10. ASSUME NEW r \in Requests, ReceiveCommit(r) PROVE OrderTables'
  <2>1. otx[r].order \in Orders /\ otx[r].to \in AllStates
    BY <1>10, WorkTypes DEF ReceiveCommit
  <2>2. orders' \in [Orders -> Order] /\ reached' \in [Orders -> SUBSET AllStates]
    <3>1. CASE /\ orders' = [orders EXCEPT ![otx[r].order].status = otx[r].to]
               /\ reached' = [reached EXCEPT ![otx[r].order] = @ \cup {otx[r].to}]
      BY <2>1, <3>1, StatusNames DEF OrderTables, Order
    <3>2. CASE UNCHANGED <<orders, reached>>
      BY <3>2 DEF OrderTables
    <3>3. QED
      BY <1>10, <3>1, <3>2 DEF ReceiveCommit, Become
  <2>3. receipts' \in [Orders -> Nat] /\ logs' = logs /\ Finish(r)
    BY <1>10, <2>1 DEF ReceiveCommit, OrderTables
  <2>4. QED
    BY <2>2, <2>3, FinishWork DEF OrderTables
<1>11. ASSUME NEW r \in Requests, Abandon(r) PROVE OrderTables'
  BY <1>11, FinishWork DEF Abandon, OrderTables
<1>12. CASE Stock \/ UNCHANGED vars
  BY <1>12 DEF Stock, vars, orderVars, OrderTables, WorkOK
<1>13. QED
  BY <1>1, <1>2, <1>3, <1>4, <1>5, <1>6, <1>7, <1>8, <1>9, <1>10, <1>11, <1>12 DEF Next, Proceed

\* The whole invariant: stock, types, and what the requests hold in memory.
SystemInv == StockInv /\ OrderTables

LEMMA SystemInvInit == Init => SystemInv
<1> SUFFICES ASSUME Init PROVE SystemInv
  OBVIOUS
<1>1. StockInv
  BY StockInvInit DEF Init
<1>2. orders \in [Orders -> Order]
  <2>1. NoOrder \in Order
    BY DEF NoOrder, Order, Statuses
  <2>2. SeedOrder \subseteq Order
    <3>1. <<SeedItem>> \in Seq(HistoryItem)
      BY DEF HistoryItem
    <3>2. SeedStages \subseteq Statuses /\ OrderQtys \subseteq Nat
      BY PurchaseAssumption DEF SeedStatuses, Statuses, AllStates
    <3>3. QED
      BY <3>1, <3>2 DEF SeedOrder, Order
  <2>3. QED
    BY <2>1, <2>2 DEF Init
<1>3. reached \in [Orders -> SUBSET AllStates]
  <2>1. \A o \in Orders : {orders[o].status} \ {NoStatus} \subseteq AllStates
    BY <1>2 DEF Order, Statuses
  <2>2. QED
    BY <2>1 DEF Init
<1>4. OrderTables
  BY <1>2, <1>3 DEF Init, OrderTables, WorkOK
<1>5. QED
  BY <1>1, <1>4 DEF SystemInv

LEMMA SystemInvGivesTypes == SystemInv => TypeOK /\ NeverNegativeInv
BY DEF SystemInv, StockInv, OrderTables, TypeOK

LEMMA SystemInvStep == SystemInv /\ [Next]_vars => SystemInv'
BY SystemInvGivesTypes, OrdersStepMoves, StockInvStep, OrderTablesStep DEF SystemInv

LEMMA SystemInvariant == Spec => []SystemInv
BY SystemInvInit, SystemInvStep, PTL DEF Spec

\* The types of the whole system.
THEOREM PurchaseTypes == Spec => []TypeOK
BY SystemInvariant, SystemInvGivesTypes, PTL

\* Neither adjustments nor receipts, in any number and any interleaving, make
\* the stock negative.
THEOREM PurchaseNeverNegative == Spec => []StockNeverNegative
<1>1. SystemInv => StockNeverNegative
  BY DEF SystemInv, StockInv, NeverNegativeInv
<1>2. QED
  BY <1>1, SystemInvariant, PTL

\* The newest movement of a row states its quantity, whoever moved the stock.
THEOREM PurchaseNewestMovement == Spec => []NewestMovementIsStock
<1>1. SystemInv => NewestMovementIsStock
  BY DEF SystemInv, StockInv, LedgerInv
<1>2. QED
  BY <1>1, SystemInvariant, PTL

-----------------------------------------------------------------------------
(***************************************************************************)
(* What a step does to the work of a request, and to the order tables.     *)
(***************************************************************************)

\* Request r goes on with the work it has.
KeepsWork(r) ==
    /\ otx[r] # Idle
    /\ otx'[r].op = otx[r].op /\ otx'[r].order = otx[r].order
    /\ otx'[r].event = otx[r].event /\ otx'[r].read = otx[r].read /\ otx'[r].to = otx[r].to

\* Request r has read an order that exists, for an operation the order allows.
BeginsWork(r) ==
    /\ otx'[r].order \in Orders /\ Exists(otx'[r].order)
    /\ otx'[r].read = orders[otx'[r].order]
    /\ \/ otx'[r].op = "update" /\ otx'[r].read.status \in {"inquiry", "quoting"}
       \/ /\ otx'[r].op = "transition"
          /\ \E t \in stateTransitions :
                t.name = otx'[r].event /\ t.dst = otx'[r].to /\ otx'[r].read.status \in t.src
       \/ otx'[r].op = "receive" /\ "receive" \in Operations

\* A request is idle after a step, goes on, or has just read.
LEMMA WorkSteps ==
    ASSUME OrderTables, [Next]_vars, NEW p \in Requests
    PROVE  otx'[p] = Idle \/ KeepsWork(p) \/ BeginsWork(p)
<1>1. CASE otx' = otx
  BY <1>1 DEF KeepsWork
<1>2. ASSUME NEW r \in Requests, NEW o \in Orders,
             \/ \E q \in OrderQtys : UpdateOrderRead(r, o, q)
             \/ \E t \in stateTransitions : TransitionRead(r, o, t)
             \/ ReceiveRead(r, o)
      PROVE  otx'[p] = Idle \/ KeepsWork(p) \/ BeginsWork(p)
  <2>1. \A q \in Requests : q # r => otx'[q] = otx[q]
    BY <1>2 DEF UpdateOrderRead, TransitionRead, ReceiveRead, Start, OrderTables
  <2>2. ASSUME NEW q \in OrderQtys, UpdateOrderRead(r, o, q) PROVE BeginsWork(r)
    BY <2>2 DEF UpdateOrderRead, Start, OrderTables, BeginsWork, Exists, NoStatus
  <2>3. ASSUME NEW t \in stateTransitions, TransitionRead(r, o, t) PROVE BeginsWork(r)
    BY <2>3 DEF TransitionRead, Start, OrderTables, BeginsWork
  <2>4. ASSUME ReceiveRead(r, o) PROVE BeginsWork(r)
    BY <2>4 DEF ReceiveRead, Start, OrderTables, BeginsWork
  <2>5. BeginsWork(r)
    BY <1>2, <2>2, <2>3, <2>4
  <2>6. CASE p = r
    BY <2>5, <2>6
  <2>7. CASE p # r
    BY <2>1, <2>7 DEF KeepsWork
  <2>8. QED
    BY <2>6, <2>7
<1>3. ASSUME NEW r \in Requests,
             UpdateOrderWrite(r) \/ TransitionCommit(r) \/ ReceiveCommit(r) \/ Abandon(r)
      PROVE  otx'[p] = Idle \/ KeepsWork(p)
  <2>1. Finish(r)
    BY <1>3 DEF UpdateOrderWrite, TransitionCommit, ReceiveCommit, Abandon
  <2>2. otx'[p] = Idle \/ otx'[p] = otx[p]
    BY <2>1 DEF Finish, OrderTables
  <2>3. QED
    BY <2>2 DEF KeepsWork
<1>4. ASSUME NEW r \in Requests, TransitionUpdate(r) \/ ReceiveUpdate(r)
      PROVE  otx'[p] = Idle \/ KeepsWork(p)
  <2>1. otx[r] \in OrderTx /\ otx[r] # Idle
    BY <1>4, WorkTypes DEF TransitionUpdate, ReceiveUpdate
  <2>2. KeepsWork(r) /\ \A q \in Requests : q # r => otx'[q] = otx[q]
    BY <1>4, <2>1 DEF TransitionUpdate, ReceiveUpdate, OrderTables, OrderTx, KeepsWork
  <2>3. QED
    BY <2>2 DEF KeepsWork
<1>5. CASE \E o \in Orders, q \in OrderQtys : CreateOrder(o, q) \/ RaiseInquiry(o, q)
  BY <1>1, <1>5 DEF CreateOrder, RaiseInquiry, Insert
<1>6. CASE \/ \E r \in Requests : HandleReceiveRead(r) \/ HandleReceiveSave(r)
           \/ Stock \/ UNCHANGED vars
  BY <1>1, <1>6 DEF HandleReceiveRead, HandleReceiveSave, Stock, vars, orderVars
<1>7. QED
  BY <1>2, <1>3, <1>4, <1>5, <1>6 DEF Next, Proceed

\* The steps that write the order tables are four; the others leave them.
LEMMA TableSteps ==
    ASSUME [Next]_vars
    PROVE  \/ \E o \in Orders, first \in {"inquiry", "ordered"}, q \in OrderQtys : Insert(o, first, q)
           \/ \E r \in Requests : UpdateOrderWrite(r) \/ TransitionCommit(r) \/ ReceiveCommit(r)
           \/ UNCHANGED <<orders, logs, receipts>>
<1>1. CASE \E o \in Orders, q \in OrderQtys : CreateOrder(o, q) \/ RaiseInquiry(o, q)
  BY <1>1 DEF CreateOrder, RaiseInquiry
<1>2. CASE \E r \in Requests, o \in Orders :
              \/ \E q \in OrderQtys : UpdateOrderRead(r, o, q)
              \/ \E t \in stateTransitions : TransitionRead(r, o, t)
              \/ ReceiveRead(r, o)
  BY <1>2 DEF UpdateOrderRead, TransitionRead, ReceiveRead
<1>3. CASE \E r \in Requests :
              \/ TransitionUpdate(r) \/ HandleReceiveRead(r) \/ HandleReceiveSave(r)
              \/ ReceiveUpdate(r) \/ Abandon(r)
  BY <1>3 DEF TransitionUpdate, HandleReceiveRead, HandleReceiveSave, orderVars, ReceiveUpdate, Abandon
<1>4. CASE Stock \/ UNCHANGED vars
  BY <1>4 DEF Stock, vars, orderVars
<1>5. QED
  BY <1>1, <1>2, <1>3, <1>4 DEF Next, Proceed

\* The row of an order after its terms, or its status, have been written.
LEMMA UpdateWrites ==
    ASSUME OrderTables, NEW r \in Requests, UpdateOrderWrite(r)
    PROVE  /\ otx[r] # Idle /\ otx[r].op = "update" /\ otx[r].order \in Orders
           /\ orders'[otx[r].order].status = orders[otx[r].order].status
           /\ orders'[otx[r].order].history = orders[otx[r].order].history
           /\ \A p \in Orders : p # otx[r].order => orders'[p] = orders[p]
<1>1. otx[r] # Idle /\ otx[r].order \in Orders
  BY WorkTypes DEF UpdateOrderWrite
<1>2. QED
  BY <1>1 DEF UpdateOrderWrite, OrderTables, Order

\* The receive endpoint writes the status at most.
LEMMA ReceiptWrites ==
    ASSUME OrderTables, NEW r \in Requests, ReceiveCommit(r)
    PROVE  /\ otx[r] # Idle /\ otx[r].op = "receive" /\ otx[r].order \in Orders
           /\ orders'[otx[r].order].qty = orders[otx[r].order].qty
           /\ orders'[otx[r].order].history = orders[otx[r].order].history
           /\ orders'[otx[r].order].status \in {orders[otx[r].order].status, otx[r].to}
           /\ \A p \in Orders : p # otx[r].order => orders'[p] = orders[p]
           /\ logs' = logs
<1>1. otx[r] # Idle /\ otx[r].op = "receive" /\ otx[r].order \in Orders
  BY WorkTypes DEF ReceiveCommit
<1>2. orders[otx[r].order] \in Order /\ logs' = logs
  BY <1>1 DEF OrderTables, ReceiveCommit
<1>3. CASE orders' = [orders EXCEPT ![otx[r].order].status = otx[r].to]
  BY <1>1, <1>2, <1>3 DEF OrderTables, Order
<1>4. CASE orders' = orders
  BY <1>1, <1>2, <1>4
<1>5. QED
  BY <1>3, <1>4 DEF ReceiveCommit

\* A transition writes the status it leads to, one history item and one line.
LEMMA CommitWrites ==
    ASSUME OrderTables, NEW r \in Requests, TransitionCommit(r)
    PROVE  /\ otx[r] # Idle /\ otx[r].op = "transition" /\ otx[r].pc = "locked"
           /\ otx[r].order \in Orders /\ otx[r].log \in Ids
           /\ otx[r].to \in AllStates /\ otx[r].read \in Order
           /\ otx[r].read.status \in AllStates
           /\ orders'[otx[r].order].qty = orders[otx[r].order].qty
           /\ orders'[otx[r].order].status = otx[r].to
           /\ orders'[otx[r].order].history = appendStatusHistory(otx[r])
           /\ logs'[otx[r].order] = logs[otx[r].order] \cup {TransitionLog(otx[r])}
           /\ \A p \in Orders : p # otx[r].order => orders'[p] = orders[p] /\ logs'[p] = logs[p]
<1>1. /\ otx[r] # Idle /\ otx[r].order \in Orders /\ otx[r].log \in Ids
      /\ otx[r].to \in AllStates /\ otx[r].read \in Order /\ otx[r].read.status \in AllStates
  BY WorkTypes DEF TransitionCommit
<1>2. QED
  BY <1>1 DEF TransitionCommit, OrderTables, Order

\* Inserting an order touches that order only.
LEMMA InsertWrites ==
    ASSUME OrderTables, NEW o \in Orders, NEW first, NEW q, Insert(o, first, q)
    PROVE  /\ orders[o].status = NoStatus
           /\ orders'[o].status = first /\ orders'[o].history = <<>>
           /\ logs'[o] = {[id |-> 1, from |-> NoStatus, to |-> first]}
           /\ \A p \in Orders : p # o => orders'[p] = orders[p] /\ logs'[p] = logs[p]
           /\ otx' = otx /\ receipts' = receipts
BY DEF Insert, Exists, OrderTables

-----------------------------------------------------------------------------
(***************************************************************************)
(* Orders of the seed data.  What tells them is the first item of their    *)
(* history, which every later history keeps, lost updates included: the    *)
(* history a request writes back is one it has read, with an item added.   *)
(***************************************************************************)

SeededHistory(h) == h # <<>> /\ h[1] = SeedItem

SeedInv ==
    /\ \A o \in Orders : ~Exists(o) => ~Seeded(o)
    /\ \A r \in Requests : otx[r] # Idle =>
          /\ Exists(otx[r].order)
          /\ SeededHistory(otx[r].read.history) <=> Seeded(otx[r].order)

\* An item with statuses makes no history a seeded one, and a seeded one no other.
LEMMA SeededAppend ==
    ASSUME NEW h \in Seq(HistoryItem), NEW item \in HistoryItem, item # SeedItem
    PROVE  SeededHistory(Append(h, item)) <=> SeededHistory(h)
<1> DEFINE g == Append(h, item)
<1>1. g \in Seq(HistoryItem) /\ Len(g) = Len(h) + 1 /\ Len(h) \in Nat
  OBVIOUS
<1>2. h = <<>> => g[1] = item
  OBVIOUS
<1>3. h # <<>> => g[1] = h[1]
  OBVIOUS
<1> HIDE DEF g
<1>4. g # <<>>
  <2>1. Len(g) # 0
    BY <1>1
  <2>2. QED
    BY <2>1
<1>5. SeededHistory(g) <=> SeededHistory(h)
  BY <1>2, <1>3, <1>4 DEF SeededHistory
<1>6. QED
  BY <1>5 DEF g

\* The history a transition writes is of the kind of the one it read.
LEMMA SeededWritten ==
    ASSUME OrderTables, NEW r \in Requests, TransitionCommit(r)
    PROVE  SeededHistory(appendStatusHistory(otx[r])) <=> SeededHistory(otx[r].read.history)
<1> DEFINE item == [from |-> otx[r].read.status, to |-> otx[r].to]
<1>1. otx[r].to \in AllStates /\ otx[r].read \in Order /\ otx[r].read.status \in AllStates
  BY CommitWrites
<1>2. item \in HistoryItem /\ item # SeedItem
  BY <1>1, StatusNames DEF HistoryItem, SeedItem
<1>3. otx[r].read.history \in Seq(HistoryItem)
  BY <1>1 DEF Order
<1>4. appendStatusHistory(otx[r]) = Append(otx[r].read.history, item)
  BY DEF appendStatusHistory
<1> HIDE DEF item
<1>5. QED
  BY <1>2, <1>3, <1>4, SeededAppend

\* No step makes an order one of the seed data, or stops it being one, and an
\* order that exists goes on existing.
LEMMA SeededSteps ==
    ASSUME OrderTables, SeedInv, [Next]_vars, NEW o \in Orders
    PROVE  (Seeded(o)' <=> Seeded(o)) /\ (Exists(o) => Exists(o)')
<1>1. ASSUME NEW p \in Orders, NEW first \in {"inquiry", "ordered"}, NEW q, Insert(p, first, q)
      PROVE  (Seeded(o)' <=> Seeded(o)) /\ (Exists(o) => Exists(o)')
  BY <1>1, InsertWrites DEF SeedInv, Exists, Seeded
<1>2. ASSUME NEW r \in Requests, UpdateOrderWrite(r)
      PROVE  (Seeded(o)' <=> Seeded(o)) /\ (Exists(o) => Exists(o)')
  BY <1>2, UpdateWrites DEF Exists, Seeded
<1>3. ASSUME NEW r \in Requests, ReceiveCommit(r)
      PROVE  (Seeded(o)' <=> Seeded(o)) /\ (Exists(o) => Exists(o)')
  <2>1. otx[r].to \in AllStates
    BY <1>3, WorkTypes DEF ReceiveCommit
  <2>2. QED
    BY <1>3, <2>1, ReceiptWrites, StatusNames DEF Exists, Seeded
<1>4. ASSUME NEW r \in Requests, TransitionCommit(r)
      PROVE  (Seeded(o)' <=> Seeded(o)) /\ (Exists(o) => Exists(o)')
  <2>1. CASE o # otx[r].order
    BY <1>4, <2>1, CommitWrites DEF Exists, Seeded
  <2>2. CASE o = otx[r].order
    <3>1. SeededHistory(orders'[o].history) <=> SeededHistory(otx[r].read.history)
      BY <1>4, <2>2, CommitWrites, SeededWritten
    <3>2. SeededHistory(otx[r].read.history) <=> Seeded(o)
      BY <1>4, <2>2, CommitWrites DEF SeedInv
    <3>3. Exists(o)'
      BY <1>4, <2>2, CommitWrites, StatusNames DEF Exists
    <3>4. QED
      BY <3>1, <3>2, <3>3 DEF Seeded, SeededHistory
  <2>3. QED
    BY <2>1, <2>2
<1>5. CASE orders' = orders
  BY <1>5 DEF Exists, Seeded
<1>6. QED
  BY <1>1, <1>2, <1>3, <1>4, <1>5, TableSteps

\* Every step keeps what the requests know of it.
LEMMA SeedStep == OrderTables /\ SeedInv /\ [Next]_vars => SeedInv'
<1> SUFFICES ASSUME OrderTables, SeedInv, [Next]_vars PROVE SeedInv'
  OBVIOUS
<1>1. ASSUME NEW o \in Orders, ~Exists(o)' PROVE ~Seeded(o)'
  BY <1>1, SeededSteps DEF SeedInv
<1>2. ASSUME NEW r \in Requests, otx'[r] # Idle
      PROVE  /\ otx'[r].order \in Orders
             /\ Exists(otx'[r].order)
             /\ SeededHistory(otx'[r].read.history) <=> Seeded(otx'[r].order)
  <2>1. CASE KeepsWork(r)
    <3>1. otx[r].order \in Orders
      BY <2>1 DEF KeepsWork, OrderTables, OrderTx
    <3>2. QED
      BY <2>1, <3>1 DEF KeepsWork, SeedInv
  <2>2. CASE BeginsWork(r)
    BY <2>2 DEF BeginsWork, Seeded, SeededHistory
  <2>3. QED
    BY <1>2, <2>1, <2>2, WorkSteps
<1>3. ASSUME NEW r \in Requests, otx'[r] # Idle
      PROVE  /\ orders'[otx'[r].order].status # NoStatus
             /\ SeededHistory(otx'[r].read.history) <=> SeededHistory(orders'[otx'[r].order].history)
  <2> DEFINE o == otx'[r].order
  <2>1. /\ o \in Orders /\ Exists(o)
        /\ SeededHistory(otx'[r].read.history) <=> Seeded(o)
    BY <1>2, <1>3
  <2> HIDE DEF o
  <2>2. orders'[o].status # NoStatus /\ (SeededHistory(orders'[o].history) <=> Seeded(o))
    BY <2>1, SeededSteps DEF Exists, Seeded, SeededHistory
  <2>3. QED
    BY <2>1, <2>2 DEF o
<1>4. QED
  BY <1>1, <1>3 DEF SeedInv, Exists, Seeded, SeededHistory

\* An order that exists at the start is one of the seed data, with the status it
\* gives it and nothing else.
LEMMA SeedShapes ==
    ASSUME Init, NEW o \in Orders
    PROVE  \/ ~Exists(o) /\ orders[o].history = <<>> /\ reached[o] = {}
           \/ /\ Exists(o) /\ Seeded(o) /\ orders[o].history = <<SeedItem>>
              /\ orders[o].status \in SeedStatuses /\ reached[o] = {orders[o].status}
<1>1. orders[o] \in {NoOrder} \cup SeedOrder
  BY DEF Init
<1>2. reached[o] = {orders[o].status} \ {NoStatus}
  BY DEF Init
<1>3. CASE orders[o] = NoOrder
  BY <1>2, <1>3 DEF NoOrder, Exists
<1>4. CASE orders[o] \in SeedOrder
  <2>1. orders[o].status \in SeedStatuses /\ orders[o].history = <<SeedItem>>
    BY <1>4, PurchaseAssumption DEF SeedOrder
  <2>2. orders[o].status # NoStatus
    BY <2>1 DEF SeedStatuses, NoStatus
  <2>3. QED
    BY <1>2, <2>1, <2>2 DEF Exists, Seeded
<1>5. QED
  BY <1>1, <1>3, <1>4

LEMMA SeedInvariant == Spec => []SeedInv
<1>1. Init => SeedInv
  BY SeedShapes DEF Init, SeedInv, Seeded
<1>2. SystemInv => OrderTables
  BY DEF SystemInv
<1>3. QED
  BY <1>1, <1>2, SeedStep, SystemInvariant, PTL DEF Spec

-----------------------------------------------------------------------------
(***************************************************************************)
(* Stages are earned.  A request commits to an edge from the status it     *)
(* read; the order may have left that status since, but it has had it.     *)
(***************************************************************************)

\* The status a request is going to write is one event away from the one it read.
WorkIsEarned ==
    \A r \in Requests :
        LET tx == otx[r]
        IN  /\ tx # Idle => tx.read.status \in reached[tx.order]
            /\ tx # Idle /\ (tx.op = "transition" \/ (tx.op = "receive" /\ tx.pc = "locked"))
                   => Edge(tx.read.status, tx.to)
            /\ tx # Idle /\ tx.op = "receive" => tx.to = "received"

\* An order that is still to come has had no status.
NoneBefore == \A o \in Orders : ~Exists(o) => reached[o] = {}

EarnedInv == StagesAreEarned /\ WorkIsEarned /\ NoneBefore

\* A step that gives one order a status and leaves the requests as they are or
\* idle keeps the work of the requests earned.
LEMMA WorkStaysEarned ==
    ASSUME OrderTables, WorkIsEarned, NEW o \in Orders, NEW s, Become(o, s),
           \A r \in Requests : otx'[r] \in {Idle, otx[r]}
    PROVE  WorkIsEarned'
<1>1. \A p \in Orders : reached[p] \subseteq reached'[p]
  BY DEF Become, OrderTables
<1>2. \A r \in Requests : otx'[r] # Idle => otx'[r] = otx[r] /\ otx[r].order \in Orders
  BY DEF OrderTables, OrderTx
<1>3. QED
  BY <1>1, <1>2 DEF WorkIsEarned

\* An order is created with a status of its own.
LEMMA EarnedByCreation ==
    ASSUME OrderTables, EarnedInv, NEW o \in Orders, NEW first \in {"inquiry", "ordered"}, NEW q,
           Insert(o, first, q)
    PROVE  EarnedInv'
<1>1. /\ reached'[o] = {first} /\ orders'[o].status = first
      /\ \A p \in Orders : p # o => reached'[p] = reached[p] /\ orders'[p] = orders[p]
  <2>1. reached[o] = {} /\ reached' = [reached EXCEPT ![o] = @ \cup {first}]
    BY DEF Insert, Become, EarnedInv, NoneBefore
  <2>2. QED
    BY <2>1, InsertWrites DEF OrderTables
<1>2. StagesAreEarned'
  <2> SUFFICES ASSUME NEW p \in Orders, Exists(p)'
               PROVE  /\ orders'[p].status \in reached'[p]
                      /\ \E start \in reached'[p] :
                            /\ Seeded(p)' \/ start \in {"inquiry", "ordered"}
                            /\ \A s \in reached'[p] \ {start} : \E from \in reached'[p] : Edge(from, s)
    BY DEF StagesAreEarned
  <2>1. CASE p = o
    BY <1>1, <2>1
  <2>2. CASE p # o
    BY <1>1, <2>2 DEF EarnedInv, StagesAreEarned, Exists, Seeded
  <2>3. QED
    BY <2>1, <2>2
<1>3. WorkIsEarned'
  BY InsertWrites, WorkStaysEarned DEF Insert, EarnedInv
<1>4. NoneBefore'
  BY <1>1, StatusNames DEF EarnedInv, NoneBefore, Exists, NoStatus
<1>5. QED
  BY <1>2, <1>3, <1>4 DEF EarnedInv

\* A step that gives an order one more status, an event away from one it has had,
\* and leaves the requests as they are or idle.
LEMMA EarnedByOne ==
    ASSUME OrderTables, EarnedInv, NEW o \in Orders, Exists(o), NEW s \in AllStates,
           NEW before \in reached[o], Edge(before, s), Become(o, s),
           orders'[o].status = s, Seeded(o) => Seeded(o)',
           \A p \in Orders : p # o => orders'[p] = orders[p],
           \A r \in Requests : otx'[r] \in {Idle, otx[r]}
    PROVE  EarnedInv'
<1>1. /\ reached'[o] = reached[o] \cup {s}
      /\ \A p \in Orders : p # o => reached'[p] = reached[p]
  BY DEF Become, OrderTables
<1>2. StagesAreEarned'
  <2> SUFFICES ASSUME NEW p \in Orders, Exists(p)'
               PROVE  /\ orders'[p].status \in reached'[p]
                      /\ \E start \in reached'[p] :
                            /\ Seeded(p)' \/ start \in {"inquiry", "ordered"}
                            /\ \A k \in reached'[p] \ {start} : \E from \in reached'[p] : Edge(from, k)
    BY DEF StagesAreEarned
  <2>1. CASE p = o
    <3>1. PICK start \in reached[o] :
              /\ Seeded(o) \/ start \in {"inquiry", "ordered"}
              /\ \A k \in reached[o] \ {start} : \E from \in reached[o] : Edge(from, k)
      BY DEF EarnedInv, StagesAreEarned
    <3>2. \A k \in reached'[o] \ {start} : \E from \in reached'[o] : Edge(from, k)
      BY <1>1, <3>1
    <3>3. QED
      BY <1>1, <2>1, <3>1, <3>2
  <2>2. CASE p # o
    BY <1>1, <2>2 DEF EarnedInv, StagesAreEarned, Exists, Seeded
  <2>3. QED
    BY <2>1, <2>2
<1>3. WorkIsEarned'
  BY WorkStaysEarned DEF EarnedInv
<1>4. NoneBefore'
  BY <1>1, StatusNames DEF EarnedInv, NoneBefore, Exists
<1>5. QED
  BY <1>2, <1>3, <1>4 DEF EarnedInv

\* A step that changes no status and in which one request moves, to an earned
\* piece of work.
LEMMA EarnedByNone ==
    ASSUME OrderTables, EarnedInv, NEW r \in Requests, reached' = reached,
           \A p \in Orders : orders'[p].status = orders[p].status /\ (Seeded(p) => Seeded(p)'),
           \A q \in Requests : q # r => otx'[q] = otx[q],
           otx'[r] # Idle =>
               /\ otx'[r].read.status \in reached[otx'[r].order]
               /\ otx'[r].op = "transition" \/ (otx'[r].op = "receive" /\ otx'[r].pc = "locked")
                      => Edge(otx'[r].read.status, otx'[r].to)
               /\ otx'[r].op = "receive" => otx'[r].to = "received"
    PROVE  EarnedInv'
<1>1. StagesAreEarned' /\ NoneBefore'
  BY DEF EarnedInv, StagesAreEarned, NoneBefore, Exists
<1>2. WorkIsEarned'
  <2> SUFFICES ASSUME NEW q \in Requests
               PROVE  LET tx == otx'[q]
                      IN  /\ tx # Idle => tx.read.status \in reached[tx.order]
                          /\ tx # Idle /\ (tx.op = "transition" \/ (tx.op = "receive" /\ tx.pc = "locked"))
                                 => Edge(tx.read.status, tx.to)
                          /\ tx # Idle /\ tx.op = "receive" => tx.to = "received"
    BY DEF WorkIsEarned
  <2>1. CASE q = r
    BY <2>1
  <2>2. CASE q # r
    BY <2>2 DEF EarnedInv, WorkIsEarned
  <2>3. QED
    BY <2>1, <2>2
<1>3. QED
  BY <1>1, <1>2 DEF EarnedInv

\* Every step of the system keeps the stages earned.
LEMMA EarnedStep == OrderTables /\ SeedInv /\ EarnedInv /\ [Next]_vars => EarnedInv'
<1> SUFFICES ASSUME OrderTables, SeedInv, EarnedInv, [Next]_vars PROVE EarnedInv'
  OBVIOUS
<1>0. \A p \in Orders : Seeded(p) => Seeded(p)'
  BY SeededSteps
<1>1. ASSUME NEW o \in Orders, NEW q \in OrderQtys, CreateOrder(o, q) \/ RaiseInquiry(o, q)
      PROVE  EarnedInv'
  <2>1. PICK first \in {"inquiry", "ordered"} : Insert(o, first, q)
    BY <1>1 DEF CreateOrder, RaiseInquiry
  <2>2. QED
    BY <2>1, EarnedByCreation
<1>2. ASSUME NEW r \in Requests, NEW o \in Orders, Exists(o),
             NEW op \in {"transition", "receive", "update"}, NEW e, NEW to, NEW q,
             Start(r, op, o, e, to, q), UNCHANGED <<orders, reached>>,
             op = "transition" => Edge(orders[o].status, to),
             op = "receive" => to = "received"
      PROVE  EarnedInv'
  <2> DEFINE tx == [pc |-> "validated", op |-> op, order |-> o, event |-> e, read |-> orders[o],
                    to |-> to, qty |-> q, log |-> 0]
  <2>1. otx'[r] = tx /\ \A p \in Requests : p # r => otx'[p] = otx[p]
    BY <1>2 DEF Start, OrderTables
  <2>2. tx.read.status \in reached[o]
    BY <1>2 DEF EarnedInv, StagesAreEarned
  <2>3. /\ tx.order = o /\ tx.op = op /\ tx.pc = "validated"
        /\ tx.read.status = orders[o].status /\ tx.to = to
    OBVIOUS
  <2> HIDE DEF tx
  <2>4. QED
    BY <1>0, <1>2, <2>1, <2>2, <2>3, EarnedByNone
<1>3. ASSUME NEW r \in Requests, NEW o \in Orders,
             \/ \E q \in OrderQtys : UpdateOrderRead(r, o, q)
             \/ \E t \in stateTransitions : TransitionRead(r, o, t)
             \/ ReceiveRead(r, o)
      PROVE  EarnedInv'
  <2>1. ASSUME NEW q \in OrderQtys, UpdateOrderRead(r, o, q) PROVE EarnedInv'
    BY <1>2, <2>1 DEF UpdateOrderRead, Exists, NoStatus
  <2>2. ASSUME NEW t \in stateTransitions, TransitionRead(r, o, t) PROVE EarnedInv'
    <3>1. Edge(orders[o].status, t.dst)
      BY <2>2 DEF TransitionRead, Edge
    <3>2. QED
      BY <1>2, <2>2, <3>1 DEF TransitionRead
  <2>3. CASE ReceiveRead(r, o)
    BY <1>2, <2>3 DEF ReceiveRead
  <2>4. QED
    BY <1>3, <2>1, <2>2, <2>3
<1>4. ASSUME NEW r \in Requests, UpdateOrderWrite(r) \/ Abandon(r) PROVE EarnedInv'
  <2>1. otx'[r] = Idle /\ \A q \in Requests : q # r => otx'[q] = otx[q]
    BY <1>4 DEF UpdateOrderWrite, Abandon, Finish, OrderTables
  <2>2. reached' = reached
    BY <1>4 DEF UpdateOrderWrite, Abandon
  <2>3. \A p \in Orders : orders'[p].status = orders[p].status
    BY <1>4, TermsOnly
  <2>4. QED
    BY <1>0, <2>1, <2>2, <2>3, EarnedByNone
<1>5. ASSUME NEW r \in Requests, TransitionUpdate(r) \/ ReceiveUpdate(r) PROVE EarnedInv'
  <2> DEFINE tx == otx[r]
             new == otx'[r]
  <2>1. tx \in OrderTx /\ tx # Idle
    BY <1>5, WorkTypes DEF TransitionUpdate, ReceiveUpdate
  <2>2. /\ new.op = tx.op /\ new.read = tx.read /\ new.to = tx.to /\ new.order = tx.order
        /\ \A q \in Requests : q # r => otx'[q] = otx[q]
        /\ reached' = reached /\ orders' = orders
    BY <1>5, <2>1 DEF TransitionUpdate, ReceiveUpdate, OrderTables, OrderTx
  <2>3. /\ tx.read.status \in reached[tx.order]
        /\ tx.op = "transition" => Edge(tx.read.status, tx.to)
        /\ tx.op = "receive" => tx.to = "received"
    BY <2>1 DEF EarnedInv, WorkIsEarned
  <2>4. tx.op = "receive" => Edge(tx.read.status, "received")
    <3>1. ASSUME NEW t \in stateTransitions, t.name = "receive" PROVE t.dst = "received"
      BY <3>1 DEF stateTransitions
    <3>2. CASE TransitionUpdate(r)
      BY <3>2 DEF TransitionUpdate
    <3>3. CASE ReceiveUpdate(r)
      <4>1. PICK t \in stateTransitions : t.name = "receive" /\ tx.read.status \in t.src
        BY <3>3 DEF ReceiveUpdate, CanTransition
      <4>2. QED
        BY <3>1, <4>1 DEF Edge
    <3>4. QED
      BY <1>5, <3>2, <3>3
  <2> HIDE DEF tx, new
  <2>5. /\ new.read.status \in reached[new.order]
        /\ new.op = "transition" \/ new.op = "receive" => Edge(new.read.status, new.to)
        /\ new.op = "receive" => new.to = "received"
    BY <2>2, <2>3, <2>4
  <2>6. QED
    BY <1>0, <2>2, <2>5, EarnedByNone DEF new
<1>6. ASSUME NEW r \in Requests, TransitionCommit(r) \/ (ReceiveCommit(r) /\ otx[r].pc = "locked")
      PROVE  EarnedInv'
  <2> DEFINE tx == otx[r]
             o == otx[r].order
             s == otx[r].to
  <2>1. o \in Orders /\ s \in AllStates /\ tx # Idle
    BY <1>6, WorkTypes DEF TransitionCommit, ReceiveCommit
  <2>2. tx.pc = "locked" /\ tx.op \in {"transition", "receive"}
    BY <1>6 DEF TransitionCommit, ReceiveCommit
  <2>3. tx.read.status \in reached[o] /\ Edge(tx.read.status, s)
    BY <2>1, <2>2 DEF EarnedInv, WorkIsEarned
  <2>4. Become(o, s) /\ Finish(r)
    BY <1>6 DEF TransitionCommit, ReceiveCommit
  <2>5. orders'[o].status = s /\ \A p \in Orders : p # o => orders'[p] = orders[p]
    BY <1>6, <2>1 DEF TransitionCommit, ReceiveCommit, OrderTables, Order
  <2>6. \A q \in Requests : otx'[q] \in {Idle, otx[q]}
    BY <2>4 DEF Finish, OrderTables
  <2>7. Exists(o)
    BY <2>1 DEF SeedInv
  <2> HIDE DEF tx, o, s
  <2>8. QED
    BY <1>0, <2>1, <2>3, <2>4, <2>5, <2>6, <2>7, EarnedByOne
<1>7. ASSUME NEW r \in Requests, ReceiveCommit(r), otx[r].pc # "locked" PROVE EarnedInv'
  <2>1. otx'[r] = Idle /\ \A q \in Requests : q # r => otx'[q] = otx[q]
    BY <1>7 DEF ReceiveCommit, Finish, OrderTables
  <2>2. reached' = reached /\ orders' = orders
    BY <1>7 DEF ReceiveCommit
  <2>3. QED
    BY <1>0, <2>1, <2>2, EarnedByNone
<1>8. CASE \/ \E r \in Requests : HandleReceiveRead(r) \/ HandleReceiveSave(r)
           \/ Stock
           \/ UNCHANGED vars
  <2>1. orders' = orders /\ otx' = otx /\ reached' = reached
    BY <1>8 DEF HandleReceiveRead, HandleReceiveSave, Stock, vars, orderVars
  <2>2. QED
    BY <1>0, <2>1 DEF EarnedInv, StagesAreEarned, WorkIsEarned, NoneBefore, Exists
<1>9. QED
  BY <1>1, <1>3, <1>4, <1>5, <1>6, <1>7, <1>8 DEF Next, Proceed

\* At the start an order has had the one status the seed data gives it, if any.
LEMMA EarnedInit == Init => EarnedInv
<1> SUFFICES ASSUME Init PROVE EarnedInv
  OBVIOUS
<1>1. ASSUME NEW o \in Orders, Exists(o)
      PROVE  /\ orders[o].status \in reached[o]
             /\ \E first \in reached[o] :
                   /\ Seeded(o) \/ first \in {"inquiry", "ordered"}
                   /\ \A s \in reached[o] \ {first} : \E from \in reached[o] : Edge(from, s)
  <2>1. reached[o] = {orders[o].status} /\ Seeded(o)
    BY <1>1, SeedShapes
  <2>2. QED
    BY <2>1
<1>2. NoneBefore
  BY SeedShapes DEF NoneBefore
<1>3. WorkIsEarned
  BY DEF Init, WorkIsEarned
<1>4. QED
  BY <1>1, <1>2, <1>3 DEF EarnedInv, StagesAreEarned

LEMMA EarnedInvariant == Spec => []EarnedInv
<1>1. SystemInv => OrderTables
  BY DEF SystemInv
<1>2. QED
  BY <1>1, EarnedInit, EarnedStep, SystemInvariant, SeedInvariant, PTL DEF Spec

\* Whatever the interleaving, every status an order has had but the first is one
\* event away from another it has had, and the first is inquiry or ordered, or
\* what the seed data gave it.
THEOREM PurchaseStagesAreEarned == Spec => []StagesAreEarned
<1>1. EarnedInv => StagesAreEarned
  BY DEF EarnedInv
<1>2. QED
  BY <1>1, EarnedInvariant, PTL

\* A settled order has been reconciled and received, unless the seed data began
\* with it: the only way to the end of the table goes through both.
THEOREM PurchaseSettledWasReceived == Spec => []SettledWasReceived
<1>1. StagesAreEarned => SettledWasReceived
  <2> SUFFICES ASSUME StagesAreEarned, NEW o \in Orders, orders[o].status = "settled", ~Seeded(o)
               PROVE  {"reconciling", "received"} \subseteq reached[o]
    BY DEF SettledWasReceived
  <2>1. "settled" \in reached[o] /\ Exists(o)
    BY DEF StagesAreEarned, Exists, NoStatus
  <2>2. ASSUME NEW s \in reached[o], s \notin {"inquiry", "ordered"}
        PROVE  \E from \in reached[o] : Edge(from, s)
    BY <2>1, <2>2 DEF StagesAreEarned
  <2>3. "reconciling" \in reached[o]
    <3>1. PICK from \in reached[o] : Edge(from, "settled")
      BY <2>1, <2>2
    <3>2. QED
      BY <3>1, EdgesIntoTheEnd
  <2>4. "received" \in reached[o]
    <3>1. PICK from \in reached[o] : Edge(from, "reconciling")
      BY <2>2, <2>3
    <3>2. CASE from = "received"
      BY <3>1, <3>2
    <3>3. CASE from = "qc"
      <4>1. PICK before \in reached[o] : Edge(before, "qc")
        BY <2>2, <3>1, <3>3
      <4>2. QED
        BY <4>1, EdgesIntoTheEnd
    <3>4. QED
      BY <3>1, <3>2, <3>3, EdgesIntoTheEnd
  <2>5. QED
    BY <2>3, <2>4
<1>2. QED
  BY <1>1, PurchaseStagesAreEarned, PTL

-----------------------------------------------------------------------------
(***************************************************************************)
(* Work follows the table: a request edits an order it read as inquired or *)
(* quoted, and takes an event from a status the event may leave.           *)
(***************************************************************************)

WorkOnTable ==
    \A r \in Requests : otx[r] # Idle =>
        /\ otx[r].op = "update" => otx[r].read.status \in {"inquiry", "quoting"}
        /\ otx[r].op = "transition" =>
              \E t \in stateTransitions :
                  t.name = otx[r].event /\ t.dst = otx[r].to /\ otx[r].read.status \in t.src

LEMMA WorkOnTableInvariant == Spec => []WorkOnTable
<1>1. Init => WorkOnTable
  BY DEF Init, WorkOnTable
<1>2. ASSUME OrderTables, WorkOnTable, [Next]_vars PROVE WorkOnTable'
  <2> SUFFICES ASSUME NEW r \in Requests, otx'[r] # Idle
               PROVE  /\ otx'[r].op = "update" => otx'[r].read.status \in {"inquiry", "quoting"}
                      /\ otx'[r].op = "transition" =>
                            \E t \in stateTransitions :
                                t.name = otx'[r].event /\ t.dst = otx'[r].to
                                    /\ otx'[r].read.status \in t.src
    BY DEF WorkOnTable
  <2>1. KeepsWork(r) \/ BeginsWork(r)
    BY <1>2, WorkSteps
  <2>2. QED
    BY <1>2, <2>1 DEF WorkOnTable, KeepsWork, BeginsWork
<1>3. SystemInv => OrderTables
  BY DEF SystemInv
<1>4. QED
  BY <1>1, <1>2, <1>3, SystemInvariant, PTL DEF Spec

-----------------------------------------------------------------------------
(***************************************************************************)
(* Histories.  A request appends to the history it read, so an update may  *)
(* be lost; but what is kept is a sequence of edges.                       *)
(***************************************************************************)

Legal(h) == \A i \in DOMAIN h : Edge(h[i].from, h[i].to) \/ (i = 1 /\ h[i] = SeedItem)

LegalInv ==
    /\ \A o \in Orders : Legal(orders[o].history)
    /\ \A r \in Requests : otx[r] # Idle => Legal(otx[r].read.history)

\* Appending an edge to a legal history.
LEMMA LegalAppend ==
    ASSUME NEW h \in Seq(HistoryItem), Legal(h), NEW item \in HistoryItem, Edge(item.from, item.to)
    PROVE  Legal(Append(h, item))
<1> DEFINE g == Append(h, item)
<1>1. g \in Seq(HistoryItem) /\ Len(g) = Len(h) + 1 /\ Len(h) \in Nat
  OBVIOUS
<1>2. DOMAIN g = 1..(Len(h) + 1) /\ DOMAIN h = 1..Len(h)
  BY <1>1
<1>3. ASSUME NEW i \in 1..Len(h) PROVE g[i] = h[i]
  BY <1>1, <1>3
<1>4. g[Len(h) + 1] = item
  BY <1>1
<1> HIDE DEF g
<1>5. ASSUME NEW i \in DOMAIN g PROVE Edge(g[i].from, g[i].to) \/ (i = 1 /\ g[i] = SeedItem)
  <2>1. i \in 1..Len(h) \/ i = Len(h) + 1
    BY <1>1, <1>2
  <2>2. QED
    BY <1>2, <1>3, <1>4, <2>1 DEF Legal
<1>6. QED
  BY <1>5 DEF Legal, g

\* Every step keeps the histories legal.
LEMMA LegalStep == OrderTables /\ EarnedInv /\ LegalInv /\ [Next]_vars => LegalInv'
<1> SUFFICES ASSUME OrderTables, EarnedInv, LegalInv, [Next]_vars PROVE LegalInv'
  OBVIOUS
<1>1. ASSUME NEW r \in Requests, otx'[r] # Idle PROVE Legal(otx'[r].read.history)
  <2>1. KeepsWork(r) \/ BeginsWork(r)
    BY <1>1, WorkSteps
  <2>2. QED
    BY <2>1 DEF KeepsWork, BeginsWork, LegalInv
<1>2. ASSUME NEW p \in Orders PROVE Legal(orders'[p].history)
  <2>1. ASSUME NEW o \in Orders, NEW first, NEW q, Insert(o, first, q)
        PROVE  Legal(orders'[p].history)
    <3>1. Legal(<<>>)
      BY DEF Legal
    <3>2. QED
      BY <2>1, <3>1, InsertWrites DEF LegalInv
  <2>2. ASSUME NEW r \in Requests, UpdateOrderWrite(r) PROVE Legal(orders'[p].history)
    BY <2>2, UpdateWrites DEF LegalInv
  <2>3. ASSUME NEW r \in Requests, ReceiveCommit(r) PROVE Legal(orders'[p].history)
    BY <2>3, ReceiptWrites DEF LegalInv
  <2>4. ASSUME NEW r \in Requests, TransitionCommit(r) PROVE Legal(orders'[p].history)
    <3> DEFINE tx == otx[r]
               item == [from |-> tx.read.status, to |-> tx.to]
    <3>1. /\ tx # Idle /\ tx.op = "transition" /\ tx.read.status \in AllStates /\ tx.to \in AllStates
          /\ tx.read \in Order
      BY <2>4, CommitWrites
    <3>2. Edge(tx.read.status, tx.to)
      BY <3>1 DEF EarnedInv, WorkIsEarned
    <3>3. item \in HistoryItem /\ item.from = tx.read.status /\ item.to = tx.to
      BY <3>1 DEF HistoryItem
    <3>4. tx.read.history \in Seq(HistoryItem) /\ Legal(tx.read.history)
      BY <3>1 DEF Order, LegalInv
    <3>5. appendStatusHistory(tx) = Append(tx.read.history, item)
      BY DEF appendStatusHistory
    <3> HIDE DEF tx, item
    <3>6. Legal(appendStatusHistory(tx))
      BY <3>2, <3>3, <3>4, <3>5, LegalAppend
    <3>7. QED
      BY <2>4, <3>6, CommitWrites DEF LegalInv, tx
  <2>5. CASE orders' = orders
    BY <2>5 DEF LegalInv
  <2>6. QED
    BY <2>1, <2>2, <2>3, <2>4, <2>5, TableSteps
<1>3. QED
  BY <1>1, <1>2 DEF LegalInv, Legal

\* Every item of a status_history is an edge of the transition table, whatever
\* requests overlap: an overwritten history loses items but invents none.  Only
\* the item the seed data begins an order with names no statuses.
THEOREM PurchaseHistoryIsLegal == Spec => []HistoryIsLegal
<1>1. Init => LegalInv
  <2> SUFFICES ASSUME Init PROVE LegalInv
    OBVIOUS
  <2>1. Legal(<<>>) /\ Legal(<<SeedItem>>)
    BY DEF Legal
  <2>2. \A o \in Orders : orders[o].history \in {<<>>, <<SeedItem>>}
    BY SeedShapes
  <2>3. QED
    BY <2>1, <2>2 DEF Init, LegalInv
<1>2. SystemInv => OrderTables
  BY DEF SystemInv
<1>3. LegalInv => HistoryIsLegal
  BY DEF LegalInv, Legal, HistoryIsLegal
<1>4. QED
  BY <1>1, <1>2, <1>3, LegalStep, SystemInvariant, EarnedInvariant, PTL DEF Spec

-----------------------------------------------------------------------------
(***************************************************************************)
(* Receipts and movements.  The stock part of a receipt runs inside the    *)
(* transaction of its order, so a receipt commits exactly one movement,    *)
(* and nothing else names the order.                                       *)
(***************************************************************************)

\* A stock transaction is an adjustment, or belongs to the order in hand.
StockWorkOK(r) ==
    stx[r] # Idle =>
        \/ otx[r] = Idle /\ stx[r].ref = "adjust"
        \/ Stocking(r) /\ stx[r].ref = otx[r].order /\ stx[r].sku = SkuOf[otx[r].order]

StockWork == \A r \in Requests : StockWorkOK(r)

\* The steps of an adjustment leave an adjustment or nothing.
LEMMA AdjustStockWork ==
    ASSUME TypeOK, NEW r \in Requests, stx[r] # Idle => stx[r].ref = "adjust", AdjustStep(r)
    PROVE  /\ stx'[r] # Idle => stx'[r].ref = "adjust"
           /\ \A q \in Requests : q # r => stx'[q] = stx[q]
<1>1. ASSUME NEW s \in Skus, NEW type \in MovementTypes, NEW q \in Quantities, AdjustRead(r, s, type, q)
      PROVE  /\ stx'[r].ref = "adjust"
             /\ \A p \in Requests : p # r => stx'[p] = stx[p]
  BY <1>1 DEF AdjustRead, ReadStock, TypeOK, StockTypeOK
<1>2. CASE AdjustSave(r)
  BY <1>2 DEF AdjustSave, SaveStock, Saved, Idle, TypeOK, StockTypeOK
<1>3. CASE AdjustCommit(r)
  BY <1>3 DEF AdjustCommit, CommitStock, TypeOK, StockTypeOK
<1>4. CASE AdjustAbandon(r)
  BY <1>4 DEF AdjustAbandon, TypeOK, StockTypeOK
<1>5. QED
  BY <1>1, <1>2, <1>3, <1>4 DEF AdjustStep

\* Every step keeps stock transactions with their orders.
LEMMA StockWorkStep == SystemInv /\ StockWork /\ [Next]_vars => StockWork'
<1> SUFFICES ASSUME SystemInv, StockWork, [Next]_vars PROVE StockWork'
  OBVIOUS
<1>0. TypeOK /\ OrderTables
  BY SystemInvGivesTypes DEF SystemInv
<1>1. ASSUME NEW r \in Requests, StockWorkOK(r)',
             \A q \in Requests : q # r => stx'[q] = stx[q] /\ otx'[q] = otx[q]
      PROVE  StockWork'
  BY <1>1 DEF StockWork, StockWorkOK, Stocking
<1>2. ASSUME NEW r \in Requests, NEW o \in Orders,
             \/ \E q \in OrderQtys : UpdateOrderRead(r, o, q)
             \/ \E t \in stateTransitions : TransitionRead(r, o, t)
             \/ ReceiveRead(r, o)
      PROVE  StockWork'
  <2>1. /\ stx' = stx /\ stx[r] = Idle
        /\ \A q \in Requests : q # r => otx'[q] = otx[q]
    BY <1>0, <1>2 DEF UpdateOrderRead, TransitionRead, ReceiveRead, Start, Free, stockVars, OrderTables
  <2>2. QED
    BY <1>1, <2>1 DEF StockWorkOK
<1>3. ASSUME NEW r \in Requests,
             \/ UpdateOrderWrite(r) \/ TransitionUpdate(r) \/ ReceiveUpdate(r) \/ ReceiveCommit(r)
             \/ TransitionCommit(r) /\ otx[r].event # "receive"
      PROVE  StockWork'
  <2>1. otx[r] # Idle /\ ~Stocking(r)
    BY <1>0, <1>3, WorkTypes DEF UpdateOrderWrite, TransitionUpdate, ReceiveUpdate, ReceiveCommit,
                                 TransitionCommit, Stocking
  <2>2. stx[r] = Idle
    BY <2>1 DEF StockWork, StockWorkOK
  <2>3. /\ stx' = stx
        /\ \A q \in Requests : q # r => otx'[q] = otx[q]
    BY <1>0, <1>3 DEF UpdateOrderWrite, TransitionUpdate, ReceiveUpdate, ReceiveCommit,
                      TransitionCommit, Finish, stockVars, OrderTables
  <2>4. QED
    BY <1>1, <2>2, <2>3 DEF StockWorkOK
<1>4. ASSUME NEW r \in Requests, HandleReceiveRead(r) PROVE StockWork'
  <2>1. /\ stx'[r].ref = otx[r].order /\ stx'[r].sku = SkuOf[otx[r].order]
        /\ \A q \in Requests : q # r => stx'[q] = stx[q]
    BY <1>0, <1>4 DEF HandleReceiveRead, ReadStock, TypeOK, StockTypeOK
  <2>2. otx' = otx /\ Stocking(r)
    BY <1>4 DEF HandleReceiveRead, orderVars
  <2>3. QED
    BY <1>1, <2>1, <2>2 DEF StockWorkOK, Stocking
<1>5. ASSUME NEW r \in Requests, HandleReceiveSave(r) PROVE StockWork'
  <2>1. stx[r] # Idle
    BY <1>5 DEF HandleReceiveSave, SaveStock, Idle
  <2>2. otx' = otx /\ Stocking(r) /\ otx[r] # Idle
    BY <1>5 DEF HandleReceiveSave, orderVars, Stocking, Idle
  <2>3. /\ stx'[r].ref = stx[r].ref /\ stx'[r].sku = stx[r].sku
        /\ \A q \in Requests : q # r => stx'[q] = stx[q]
    BY <1>0, <1>5 DEF HandleReceiveSave, SaveStock, Saved, TypeOK, StockTypeOK
  <2>4. QED
    BY <1>1, <2>1, <2>2, <2>3 DEF StockWork, StockWorkOK, Stocking
<1>6. ASSUME NEW r \in Requests, Abandon(r) \/ (TransitionCommit(r) /\ otx[r].event = "receive")
      PROVE  StockWork'
  <2>1. /\ stx'[r] = Idle
        /\ \A q \in Requests : q # r => stx'[q] = stx[q] /\ otx'[q] = otx[q]
    BY <1>0, <1>6 DEF Abandon, TransitionCommit, CommitStock, Finish, TypeOK, StockTypeOK
  <2>2. QED
    BY <1>1, <2>1 DEF StockWorkOK
<1>7. ASSUME NEW r \in Requests, otx[r] = Idle, AdjustStep(r), UNCHANGED orderVars PROVE StockWork'
  <2>1. stx[r] # Idle => stx[r].ref = "adjust"
    BY <1>7 DEF StockWork, StockWorkOK, Stocking, Idle
  <2>2. /\ stx'[r] # Idle => stx'[r].ref = "adjust"
        /\ \A q \in Requests : q # r => stx'[q] = stx[q]
    BY <1>0, <1>7, <2>1, AdjustStockWork
  <2>3. QED
    BY <1>1, <1>7, <2>2 DEF StockWorkOK, orderVars
<1>8. CASE stx' = stx /\ otx' = otx
  BY <1>8 DEF StockWork, StockWorkOK, Stocking
<1>9. CASE Stock
  BY <1>7, <1>8, <1>9 DEF Stock, ManageStep, Update, ResolveAlert, orderVars
<1>10. CASE \/ \E o \in Orders, q \in OrderQtys : CreateOrder(o, q) \/ RaiseInquiry(o, q)
            \/ UNCHANGED vars
  BY <1>8, <1>10 DEF CreateOrder, RaiseInquiry, Insert, vars, stockVars, orderVars
<1>11. QED
  BY <1>2, <1>3, <1>4, <1>5, <1>6, <1>9, <1>10 DEF Next, Proceed

\* At the start nothing is in hand.
LEMMA StockWorkInvariant == Spec => []StockWork
<1>1. Init => StockWork
  BY DEF Init, StockInit, StockWork, StockWorkOK
<1>2. QED
  BY <1>1, StockWorkStep, SystemInvariant, PTL DEF Spec

\* Request r commits a receipt.
Stocks(r) == TransitionCommit(r) /\ otx[r].event = "receive"

\* Only the commit of its receipt adds to the movements of an order, and it
\* adds one.
LEMMA StockedSteps ==
    ASSUME SystemInv, StockWork, [Next]_vars
    PROVE  \/ /\ \A r \in Requests : ~Stocks(r)
              /\ \A p \in Orders : StockedBy(p)' = StockedBy(p)
           \/ \E r \in Requests, o \in Orders :
                 /\ Stocks(r) /\ otx[r].order = o
                 /\ \E b : b \notin StockedBy(o) /\ StockedBy(o)' = StockedBy(o) \cup {b}
                 /\ \A p \in Orders : p # o => StockedBy(p)' = StockedBy(p)
<1>0. TypeOK /\ OrderTables /\ BookingInv
  BY SystemInvGivesTypes DEF SystemInv, StockInv
<1>1. ASSUME NEW r \in Requests, Stocks(r), NEW o \in Orders, otx[r].order = o
      PROVE  /\ \E b : b \notin StockedBy(o) /\ StockedBy(o)' = StockedBy(o) \cup {b}
             /\ \A p \in Orders : p # o => StockedBy(p)' = StockedBy(p)
  <2> DEFINE b == Booking(stx[r])
  <2>1. otx[r] # Idle /\ SkuOf[o] \in Skus
    BY <1>0, <1>1, CommitWrites, PurchaseAssumption DEF Stocks
  <2>2. CommitStock(r) /\ stx[r] # Idle /\ IsSaved(r)
    BY <1>1 DEF Stocks, TransitionCommit, CommitStock, Idle, IsSaved
  <2>3. stx[r].ref = o /\ stx[r].sku = SkuOf[o]
    BY <1>1, <2>1, <2>2 DEF StockWork, StockWorkOK
  <2>4. b.ref = o /\ b.id = stx[r].id
    BY <2>3 DEF Booking
  <2>5. b \notin movements[SkuOf[o]]
    BY <1>0, <2>2, <2>3, <2>4 DEF BookingInv, SaverIdsFresh
  <2>6. /\ movements'[SkuOf[o]] = movements[SkuOf[o]] \cup {b}
        /\ \A s \in Skus : s # SkuOf[o] => movements'[s] = movements[s]
    BY <1>0, <2>1, <2>2, <2>3 DEF CommitStock, TypeOK, StockTypeOK
  <2> HIDE DEF b
  <2>7. b \notin StockedBy(o) /\ StockedBy(o)' = StockedBy(o) \cup {b}
    BY <2>4, <2>5, <2>6 DEF StockedBy
  <2>8. ASSUME NEW p \in Orders, p # o PROVE StockedBy(p)' = StockedBy(p)
    <3>1. SkuOf[p] \in Skus
      BY PurchaseAssumption
    <3>2. QED
      BY <2>4, <2>6, <2>8, <3>1 DEF StockedBy
  <2>9. QED
    BY <2>7, <2>8
<1>2. ASSUME \A r \in Requests : ~Stocks(r), NEW p \in Orders PROVE StockedBy(p)' = StockedBy(p)
  <2>1. CASE movements' = movements
    BY <2>1 DEF StockedBy
  <2>2. ASSUME NEW r \in Requests, AdjustCommit(r) PROVE StockedBy(p)' = StockedBy(p)
    <3> DEFINE b == Booking(stx[r])
    <3>1. b.ref = "adjust" /\ "adjust" \notin Orders
      BY <2>2, InventoryAssumption, PurchaseAssumption DEF AdjustCommit, Booking
    <3>2. movements' = [movements EXCEPT ![stx[r].sku] = @ \cup {b}] /\ SkuOf[p] \in Skus
      BY <2>2, PurchaseAssumption DEF AdjustCommit, CommitStock
    <3> HIDE DEF b
    <3>3. movements'[SkuOf[p]] \in {movements[SkuOf[p]], movements[SkuOf[p]] \cup {b}}
      BY <1>0, <3>2 DEF TypeOK, StockTypeOK
    <3>4. QED
      BY <3>1, <3>3 DEF StockedBy
  <2>3. ASSUME NEW r \in Requests, AdjustStep(r)
        PROVE  movements' = movements \/ AdjustCommit(r)
    BY <2>3 DEF AdjustStep, AdjustRead, AdjustSave, AdjustAbandon
  <2>4. CASE Stock
    <3>1. CASE ManageStep
      BY <2>1, <3>1 DEF ManageStep, Update, ResolveAlert
    <3>2. QED
      BY <2>1, <2>2, <2>3, <2>4, <3>1 DEF Stock
  <2>5. ASSUME NEW r \in Requests, TransitionCommit(r) PROVE movements' = movements
    BY <1>2, <2>5 DEF Stocks, TransitionCommit, stockVars
  <2>6. ASSUME NEW r \in Requests,
               \/ UpdateOrderWrite(r) \/ TransitionUpdate(r) \/ ReceiveUpdate(r) \/ ReceiveCommit(r)
               \/ HandleReceiveRead(r) \/ HandleReceiveSave(r) \/ Abandon(r)
        PROVE  movements' = movements
    BY <2>6 DEF UpdateOrderWrite, TransitionUpdate, ReceiveUpdate, ReceiveCommit,
                HandleReceiveRead, HandleReceiveSave, Abandon, stockVars
  <2>7. ASSUME NEW r \in Requests, NEW o \in Orders,
               \/ \E q \in OrderQtys : UpdateOrderRead(r, o, q)
               \/ \E t \in stateTransitions : TransitionRead(r, o, t)
               \/ ReceiveRead(r, o)
        PROVE  movements' = movements
    BY <2>7 DEF UpdateOrderRead, TransitionRead, ReceiveRead, stockVars
  <2>8. CASE \/ \E o \in Orders, q \in OrderQtys : CreateOrder(o, q) \/ RaiseInquiry(o, q)
             \/ UNCHANGED vars
    BY <2>1, <2>8 DEF CreateOrder, RaiseInquiry, Insert, vars, stockVars
  <2>9. QED
    BY <2>1, <2>4, <2>5, <2>6, <2>7, <2>8 DEF Next, Proceed
<1>3. \A r \in Requests : Stocks(r) => otx[r].order \in Orders
  BY <1>0, CommitWrites DEF Stocks
<1>4. QED
  BY <1>1, <1>2, <1>3

\* The movements of an order are finitely many.
LEMMA StockedFinite ==
    ASSUME SystemInv, NEW o \in Orders
    PROVE  IsFiniteSet(StockedBy(o))
<1>1. IsFiniteSet(movements[SkuOf[o]])
  BY PurchaseAssumption DEF SystemInv, StockInv, BookingInv, FiniteTables
<1>2. StockedBy(o) \in SUBSET movements[SkuOf[o]]
  BY DEF StockedBy
<1>3. QED
  BY <1>1, <1>2, FS_Subset

\* At the start no movement names an order.
LEMMA StockedInit ==
    ASSUME Init, NEW o \in Orders
    PROVE  StockedBy(o) = {}
<1>1. SkuOf[o] \in Skus /\ "seed" \notin Orders
  BY InventoryAssumption, PurchaseAssumption
<1>2. movements[SkuOf[o]] = {SeedMovement(x) : x \in {y \in rows[SkuOf[o]] : y.qty > 0}}
  BY <1>1 DEF Init, StockInit
<1>3. \A m \in movements[SkuOf[o]] : m.ref = "seed"
  BY <1>2 DEF SeedMovement
<1>4. QED
  BY <1>1, <1>3 DEF StockedBy

\* Nobody receives an order directly.
NoDirectReceipt == \A r \in Requests : otx[r] # Idle => otx[r].op # "receive"

\* Receiving is all or nothing: as long as orders are received through the
\* state machine, every receive record has its stock movement and no order
\* moves stock without one, whatever requests overlap, fail or crash.
THEOREM PurchaseReceiptsAreStocked ==
    ASSUME "receive" \notin Operations
    PROVE  Spec => []ReceiptsAreStocked
<1>1. Init => NoDirectReceipt /\ ReceiptsAreStocked
  <2> SUFFICES ASSUME Init PROVE NoDirectReceipt /\ ReceiptsAreStocked
    OBVIOUS
  <2>1. \A o \in Orders : Cardinality(StockedBy(o)) = 0 /\ receipts[o] = 0
    BY StockedInit, FS_EmptySet DEF Init
  <2>2. NoDirectReceipt
    BY DEF Init, NoDirectReceipt
  <2>3. QED
    BY <2>1, <2>2 DEF ReceiptsAreStocked
<1>2. ASSUME OrderTables, NoDirectReceipt, [Next]_vars PROVE NoDirectReceipt'
  <2> SUFFICES ASSUME NEW r \in Requests, otx'[r] # Idle PROVE otx'[r].op # "receive"
    BY DEF NoDirectReceipt
  <2>1. KeepsWork(r) \/ BeginsWork(r)
    BY <1>2, WorkSteps
  <2>2. QED
    BY <1>2, <2>1 DEF NoDirectReceipt, KeepsWork, BeginsWork
<1>3. ASSUME SystemInv, StockWork, NoDirectReceipt, ReceiptsAreStocked, [Next]_vars
      PROVE  ReceiptsAreStocked'
  <2>0. OrderTables
    BY <1>3 DEF SystemInv
  <2>1. ASSUME NEW r \in Requests, Stocks(r), NEW o \in Orders, otx[r].order = o,
               \E b : b \notin StockedBy(o) /\ StockedBy(o)' = StockedBy(o) \cup {b},
               \A p \in Orders : p # o => StockedBy(p)' = StockedBy(p)
        PROVE  ReceiptsAreStocked'
    <3>1. Cardinality(StockedBy(o)') = Cardinality(StockedBy(o)) + 1
      BY <1>3, <2>1, StockedFinite, FS_AddElement
    <3>2. receipts' = [receipts EXCEPT ![o] = @ + 1]
      BY <2>1 DEF Stocks, TransitionCommit
    <3>3. receipts'[o] = receipts[o] + 1 /\ \A p \in Orders : p # o => receipts'[p] = receipts[p]
      BY <2>0, <3>2 DEF OrderTables
    <3>4. \A p \in Orders : p # o => Cardinality(StockedBy(p)') = receipts'[p]
      BY <1>3, <2>1, <3>3 DEF ReceiptsAreStocked
    <3>5. Cardinality(StockedBy(o)') = receipts'[o]
      BY <1>3, <3>1, <3>3 DEF ReceiptsAreStocked
    <3>6. \A p \in Orders : Cardinality(StockedBy(p)') = receipts'[p]
      BY <3>4, <3>5
    <3>7. QED
      BY <3>6 DEF ReceiptsAreStocked
  <2>2. ASSUME \A r \in Requests : ~Stocks(r), \A p \in Orders : StockedBy(p)' = StockedBy(p)
        PROVE  ReceiptsAreStocked'
    <3>1. ASSUME NEW r \in Requests, ReceiveCommit(r) PROVE FALSE
      BY <1>3, <2>0, <3>1, ReceiptWrites DEF NoDirectReceipt
    <3>2. ASSUME NEW r \in Requests, UpdateOrderWrite(r) \/ TransitionCommit(r)
          PROVE  receipts' = receipts
      BY <2>2, <3>2 DEF UpdateOrderWrite, TransitionCommit, Stocks
    <3>3. receipts' = receipts
      BY <1>3, <3>1, <3>2, TableSteps DEF Insert
    <3>4. QED
      BY <1>3, <2>2, <3>3 DEF ReceiptsAreStocked
  <2>3. QED
    BY <1>3, <2>1, <2>2, StockedSteps
<1>4. SystemInv => OrderTables
  BY DEF SystemInv
<1>5. QED
  BY <1>1, <1>2, <1>3, <1>4, SystemInvariant, StockWorkInvariant, PTL DEF Spec

-----------------------------------------------------------------------------
(***************************************************************************)
(* The newest log line is the status, as long as nobody uses the receive   *)
(* endpoint, which writes no log.  The argument is the row lock again: the *)
(* line's id is taken under the lock of the order it records.              *)
(***************************************************************************)

IsLocking(r) == otx[r].pc = "locked"

\* Nobody is receiving directly, and nobody works on an order that is not there.
WorkingOK(r) == otx[r] # Idle => otx[r].op # "receive" /\ Exists(otx[r].order)

\* An order is locked by one transition, whose line will be its newest.
LockingOK(r) ==
    IsLocking(r) =>
        /\ otx[r].op = "transition"
        /\ \A q \in Requests : IsLocking(q) /\ otx[q].order = otx[r].order => q = r
        /\ \A l \in logs[otx[r].order] : l.id < otx[r].log

LogInv ==
    /\ \A r \in Requests : WorkingOK(r) /\ LockingOK(r)
    /\ NewestLogIsStatus

\* A step that leaves the statuses, the histories and the logs alone, and in which
\* one request may begin, without a lock, or end.
LEMMA LogByNone ==
    ASSUME OrderTables, LogInv, NEW r \in Requests, logs' = logs, reached' = reached,
           \A p \in Orders : /\ orders'[p].status = orders[p].status
                            /\ orders'[p].history = orders[p].history,
           \A q \in Requests : q # r => otx'[q] = otx[q],
           \/ otx'[r] = Idle
           \/ otx'[r].pc = "validated" /\ otx'[r].op # "receive"
                  /\ otx'[r].order \in Orders /\ Exists(otx'[r].order)
    PROVE  LogInv'
<1> USE DEF LogInv
<1>1. NewestLogIsStatus'
  BY DEF NewestLogIsStatus, Exists
<1>2. \A q \in Requests : IsLocking(q)' => q # r /\ otx'[q] = otx[q] /\ IsLocking(q)
  BY DEF IsLocking, Idle
<1>3. \A q \in Requests : otx[q] # Idle => otx[q].order \in Orders
  BY DEF OrderTables, OrderTx
<1>4. \A q \in Requests : WorkingOK(q)'
  <2> SUFFICES ASSUME NEW q \in Requests, otx'[q] # Idle
               PROVE  otx'[q].op # "receive" /\ orders'[otx'[q].order].status # NoStatus
    BY DEF WorkingOK, Exists
  <2>1. /\ otx'[q].op # "receive" /\ otx'[q].order \in Orders
        /\ orders[otx'[q].order].status # NoStatus
    BY <1>3 DEF WorkingOK, Exists
  <2>2. QED
    BY <2>1
<1>5. ASSUME NEW q \in Requests, IsLocking(q)' PROVE LockingOK(q)'
  BY <1>2, <1>5 DEF LockingOK
<1>6. QED
  BY <1>1, <1>4, <1>5 DEF LockingOK

\* Locking an order takes a log id above those of its lines.
LEMMA LogLock ==
    ASSUME OrderTables, LogInv, NEW r \in Requests, TransitionUpdate(r)
    PROVE  LogInv'
<1> USE DEF LogInv
<1> DEFINE tx == otx[r]
           new == otx'[r]
           log == NewId(LogIds(tx.order))
<1>1. tx \in OrderTx /\ tx # Idle /\ tx.op = "transition"
  BY WorkTypes DEF TransitionUpdate
<1>2. otx' = [otx EXCEPT ![r].pc = "locked", ![r].log = log]
  BY DEF TransitionUpdate
<1>3. new = [tx EXCEPT !.pc = "locked", !.log = log]
  BY <1>2 DEF OrderTables
<1>4. \A i \in LogIds(tx.order) : i < log
  BY NewIdIsFresh DEF TransitionUpdate
<1> HIDE DEF log
<1>5. /\ new # Idle /\ new.pc = "locked" /\ new.op = "transition"
      /\ new.order = tx.order /\ new.log = log
  BY <1>1, <1>3 DEF OrderTx, Idle
<1>6. \A q \in Requests : q # r => otx'[q] = otx[q]
  BY <1>2 DEF OrderTables
<1>7. logs' = logs /\ orders' = orders /\ reached' = reached
  BY DEF TransitionUpdate
<1>8. \A q \in Requests : IsLocking(q) => otx[q].order # tx.order
  BY DEF TransitionUpdate, OrderLocked, IsLocking
<1> HIDE DEF tx, new
<1>9. NewestLogIsStatus'
  BY <1>7 DEF NewestLogIsStatus, Exists
<1>10. \A q \in Requests : WorkingOK(q)'
  BY <1>1, <1>5, <1>6, <1>7 DEF WorkingOK, Exists, new, tx
<1>11. ASSUME NEW q \in Requests, IsLocking(q)' PROVE LockingOK(q)'
  <2>1. CASE q = r
    <3>1. \A l \in logs[tx.order] : l.id \in LogIds(tx.order)
      BY DEF LogIds
    <3>2. QED
      BY <1>4, <1>5, <1>6, <1>7, <1>8, <2>1, <3>1 DEF LockingOK, IsLocking, new
  <2>2. CASE q # r
    BY <1>5, <1>6, <1>7, <1>8, <1>11, <2>2 DEF LockingOK, IsLocking, new
  <2>3. QED
    BY <2>1, <2>2
<1>12. QED
  BY <1>9, <1>10, <1>11 DEF LockingOK

\* The commit adds the newest line and sets the order to its status.
LEMMA LogCommit ==
    ASSUME OrderTables, LogInv, NEW r \in Requests, TransitionCommit(r)
    PROVE  LogInv'
<1> USE DEF LogInv
<1> DEFINE tx == otx[r]
           o == otx[r].order
           line == TransitionLog(otx[r])
<1>1. o \in Orders /\ tx.to \in AllStates /\ tx.log \in Ids /\ tx # Idle /\ IsLocking(r)
  BY WorkTypes DEF TransitionCommit, IsLocking
<1>2. line.id = tx.log /\ line.to = tx.to
  BY DEF TransitionLog
<1>3. /\ orders'[o].status = tx.to /\ \A p \in Orders : p # o => orders'[p] = orders[p]
      /\ logs'[o] = logs[o] \cup {line} /\ \A p \in Orders : p # o => logs'[p] = logs[p]
      /\ \A p \in Orders : p # o => reached'[p] = reached[p]
      /\ otx'[r] = Idle /\ \A q \in Requests : q # r => otx'[q] = otx[q]
  BY <1>1 DEF TransitionCommit, Become, Finish, OrderTables, Order
<1>4. \A l \in logs[o] : l.id < tx.log /\ l.id \in Int
  BY <1>1 DEF LockingOK, OrderTables, StatusLog, Ids
<1>5. \A q \in Requests : otx[q] # Idle => otx[q].order \in Orders
  BY DEF OrderTables, OrderTx
<1>6. \A q \in Requests : q # r /\ IsLocking(q) => otx[q].order # o /\ otx[q] # Idle
  BY <1>1 DEF LockingOK, IsLocking, Idle
<1> HIDE DEF tx, o, line
<1>7. NewestLogIsStatus'
  <2> SUFFICES ASSUME NEW p \in Orders, Exists(p)'
               PROVE  \/ \E l \in logs'[p] : l.to = orders'[p].status
                                            /\ \A k \in logs'[p] : k.id <= l.id
                      \/ /\ logs'[p] = {} /\ orders'[p].history = <<SeedItem>>
                         /\ reached'[p] = {orders'[p].status}
    BY DEF NewestLogIsStatus
  <2>1. CASE p = o
    BY <1>1, <1>2, <1>3, <1>4, <2>1 DEF Ids
  <2>2. CASE p # o
    BY <1>3, <2>2 DEF NewestLogIsStatus, Exists
  <2>3. QED
    BY <2>1, <2>2
<1>8. \A q \in Requests : WorkingOK(q)'
  <2> SUFFICES ASSUME NEW q \in Requests, otx'[q] # Idle
               PROVE  otx'[q].op # "receive" /\ orders'[otx'[q].order].status # NoStatus
    BY DEF WorkingOK, Exists
  <2>1. /\ q # r /\ otx'[q] = otx[q] /\ otx[q].op # "receive"
        /\ otx[q].order \in Orders /\ orders[otx[q].order].status # NoStatus
    BY <1>3, <1>5 DEF WorkingOK, Exists
  <2>2. QED
    BY <1>1, <1>3, <2>1, StatusNames
<1>9. ASSUME NEW q \in Requests, IsLocking(q)' PROVE LockingOK(q)'
  <2>1. q # r /\ IsLocking(q) /\ otx'[q] = otx[q]
    BY <1>3, <1>9 DEF IsLocking, Idle
  <2>2. logs'[otx[q].order] = logs[otx[q].order]
    BY <1>3, <1>5, <1>6, <2>1
  <2>3. \A p \in Requests : IsLocking(p)' => IsLocking(p) /\ otx'[p] = otx[p]
    BY <1>3 DEF IsLocking, Idle
  <2>4. QED
    BY <2>1, <2>2, <2>3 DEF LockingOK
<1>10. QED
  BY <1>7, <1>8, <1>9 DEF LockingOK

\* Every step keeps the log invariant, unless the receive endpoint is used.
LEMMA LogStep ==
    ASSUME "receive" \notin Operations
    PROVE  OrderTables /\ LogInv /\ [Next]_vars => LogInv'
<1> SUFFICES ASSUME OrderTables, LogInv, [Next]_vars PROVE LogInv'
  OBVIOUS
<1>1. ASSUME NEW o \in Orders, NEW q \in OrderQtys, CreateOrder(o, q) \/ RaiseInquiry(o, q)
      PROVE  LogInv'
  <2>1. PICK first \in {"inquiry", "ordered"} : Insert(o, first, q)
    BY <1>1 DEF CreateOrder, RaiseInquiry
  <2>2. /\ ~Exists(o) /\ first # NoStatus /\ otx' = otx
        /\ orders'[o].status = first /\ \A p \in Orders : p # o => orders'[p] = orders[p]
        /\ logs'[o] = {[id |-> 1, from |-> NoStatus, to |-> first]}
        /\ \A p \in Orders : p # o => logs'[p] = logs[p] /\ reached'[p] = reached[p]
    BY <2>1 DEF Insert, Become, OrderTables, NoStatus
  <2>3. \A r \in Requests : otx[r] # Idle => otx[r].order \in Orders /\ otx[r].order # o
    BY <2>2 DEF OrderTables, OrderTx, LogInv, WorkingOK
  <2>4. \A r \in Requests : IsLocking(r) => otx[r] # Idle
    BY DEF IsLocking, Idle
  <2>5. NewestLogIsStatus'
    <3> DEFINE line == [id |-> 1, from |-> NoStatus, to |-> first]
    <3>1. line.to = first /\ line.id <= line.id /\ logs'[o] = {line}
      BY <2>2
    <3> HIDE DEF line
    <3>2. \E l \in logs'[o] : l.to = orders'[o].status /\ \A k \in logs'[o] : k.id <= l.id
      BY <2>2, <3>1
    <3>3. QED
      BY <2>2, <3>2 DEF NewestLogIsStatus, Exists, LogInv
  <2>6. \A r \in Requests : WorkingOK(r)'
    BY <2>2, <2>3 DEF WorkingOK, Exists, LogInv
  <2>7. \A r \in Requests : LockingOK(r)'
    BY <2>2, <2>3, <2>4 DEF LockingOK, IsLocking, LogInv
  <2>8. QED
    BY <2>5, <2>6, <2>7 DEF LogInv
<1>2. ASSUME NEW r \in Requests, NEW o \in Orders,
             \/ \E q \in OrderQtys : UpdateOrderRead(r, o, q)
             \/ \E t \in stateTransitions : TransitionRead(r, o, t)
      PROVE  LogInv'
  <2>1. PICK op \in {"update", "transition"} : \E e, to, q : Start(r, op, o, e, to, q)
    BY <1>2 DEF UpdateOrderRead, TransitionRead
  <2>2. /\ otx'[r].pc = "validated" /\ otx'[r].op = op /\ otx'[r].order = o
        /\ \A q \in Requests : q # r => otx'[q] = otx[q]
    BY <2>1 DEF Start, OrderTables
  <2>3. Exists(o) /\ UNCHANGED <<orders, logs, reached>>
    BY <1>2 DEF UpdateOrderRead, TransitionRead, Exists, NoStatus
  <2>4. QED
    BY <2>2, <2>3, LogByNone
<1>3. ASSUME NEW r \in Requests, UpdateOrderWrite(r) \/ Abandon(r) PROVE LogInv'
  <2>1. otx'[r] = Idle /\ \A q \in Requests : q # r => otx'[q] = otx[q]
    BY <1>3 DEF UpdateOrderWrite, Abandon, Finish, OrderTables
  <2>2. logs' = logs /\ reached' = reached
    BY <1>3 DEF UpdateOrderWrite, Abandon
  <2>3. \A p \in Orders : orders'[p].status = orders[p].status /\ orders'[p].history = orders[p].history
    BY <1>3, UpdateWrites DEF Abandon
  <2>4. QED
    BY <2>1, <2>2, <2>3, LogByNone
<1>4. ASSUME NEW r \in Requests, TransitionUpdate(r) PROVE LogInv'
  BY <1>4, LogLock
<1>5. ASSUME NEW r \in Requests, TransitionCommit(r) PROVE LogInv'
  BY <1>5, LogCommit
<1>6. ASSUME NEW r \in Requests,
             (\E o \in Orders : ReceiveRead(r, o)) \/ ReceiveUpdate(r) \/ ReceiveCommit(r)
      PROVE  FALSE
  <2>1. CASE \E o \in Orders : ReceiveRead(r, o)
    BY <2>1 DEF ReceiveRead
  <2>2. CASE ReceiveUpdate(r) \/ ReceiveCommit(r)
    <3>1. otx[r] # Idle /\ otx[r].op = "receive"
      BY <2>2, WorkTypes DEF ReceiveUpdate, ReceiveCommit
    <3>2. QED
      BY <3>1 DEF LogInv, WorkingOK
  <2>3. QED
    BY <1>6, <2>1, <2>2
<1>7. CASE \/ \E r \in Requests : HandleReceiveRead(r) \/ HandleReceiveSave(r)
           \/ Stock
           \/ UNCHANGED vars
  <2>1. orders' = orders /\ otx' = otx /\ logs' = logs /\ reached' = reached
    BY <1>7 DEF HandleReceiveRead, HandleReceiveSave, Stock, vars, orderVars
  <2>2. QED
    BY <2>1 DEF LogInv, NewestLogIsStatus, Exists, IsLocking, WorkingOK, LockingOK
<1>8. QED
  BY <1>1, <1>2, <1>3, <1>4, <1>5, <1>6, <1>7 DEF Next, Proceed

\* At the start nothing is logged, and nothing is in hand.
LEMMA LogInit == Init => LogInv
<1> SUFFICES ASSUME Init PROVE LogInv
  OBVIOUS
<1>1. NewestLogIsStatus
  BY SeedShapes DEF Init, NewestLogIsStatus
<1>2. \A r \in Requests : WorkingOK(r) /\ LockingOK(r)
  BY DEF Init, WorkingOK, LockingOK, IsLocking, Idle
<1>3. QED
  BY <1>1, <1>2 DEF LogInv

\* As long as orders are received through the state machine, the newest line of
\* the status log states the status, for any number of concurrent requests; an
\* order without a line is one of the seed data that nothing has moved.
THEOREM PurchaseNewestLog ==
    ASSUME "receive" \notin Operations
    PROVE  Spec => []NewestLogIsStatus
<1>1. SystemInv => OrderTables
  BY DEF SystemInv
<1>2. OrderTables /\ LogInv /\ [Next]_vars => LogInv'
  BY LogStep
<1>3. LogInv => NewestLogIsStatus
  BY DEF LogInv
<1>4. QED
  BY <1>1, <1>2, <1>3, LogInit, SystemInvariant, PTL DEF Spec

-----------------------------------------------------------------------------
(***************************************************************************)
(* One request at a time, the system implements the abstract life cycle.   *)
(***************************************************************************)

\* Nothing has changed since the request at work read its order.
NothingStale ==
    \A r \in Requests : otx[r] # Idle =>
        Exists(otx[r].order) /\ otx[r].read = orders[otx[r].order]

\* The instance of the life cycle has the transition table of this module.
LEMMA SameTable ==
    ASSUME NEW from, NEW to
    PROVE  /\ Edge(from, to) => \E t \in Lifecycle!stateTransitions : from \in t.src /\ t.dst = to
           /\ Lifecycle!NoStatus = NoStatus
           /\ Lifecycle!SeedStatuses = SeedStatuses
<1>1. Lifecycle!stateTransitions = stateTransitions
  BY DEF stateTransitions, Lifecycle!stateTransitions, NoStatus, Lifecycle!NoStatus
<1>2. Lifecycle!NoStatus = NoStatus
  BY DEF NoStatus, Lifecycle!NoStatus
<1>3. Lifecycle!SeedStatuses = SeedStatuses
  BY DEF SeedStatuses, Lifecycle!SeedStatuses
<1>4. QED
  BY <1>1, <1>2, <1>3 DEF Edge

\* The abstract status.
StatusOf == [o \in Orders |-> orders[o].status]

\* A commit is an abstract step along the table.
LEMMA CommitAdvances ==
    ASSUME OrderTables, EarnedInv, NothingStale, NEW r \in Requests,
           TransitionCommit(r) \/ (ReceiveCommit(r) /\ otx[r].pc = "locked")
    PROVE  Lifecycle!Next
<1> DEFINE o == otx[r].order
           to == otx[r].to
<1>1. o \in Orders /\ to \in AllStates /\ otx[r] # Idle
  BY WorkTypes DEF TransitionCommit, ReceiveCommit
<1>2. Edge(orders[o].status, to) /\ orders[o].status # NoStatus
  BY <1>1 DEF TransitionCommit, ReceiveCommit, EarnedInv, WorkIsEarned, NothingStale, Exists
<1>3. orders'[o].status = to /\ \A p \in Orders : p # o => orders'[p] = orders[p]
  BY <1>1 DEF TransitionCommit, ReceiveCommit, OrderTables, Order
<1> HIDE DEF o, to
<1>4. StatusOf' = [StatusOf EXCEPT ![o] = to]
  BY <1>1, <1>3 DEF StatusOf
<1>5. /\ StatusOf[o] # Lifecycle!NoStatus
      /\ \E t \in Lifecycle!stateTransitions : StatusOf[o] \in t.src /\ t.dst = to
  BY <1>1, <1>2, SameTable DEF StatusOf
<1>6. QED
  BY <1>1, <1>4, <1>5 DEF Lifecycle!Next, Lifecycle!Advance, StatusOf

\* Every step of the system is an abstract step or leaves the statuses alone.
LEMMA StepRefines ==
    ASSUME OrderTables, EarnedInv, NothingStale, [Next]_vars
    PROVE  Lifecycle!Next \/ StatusOf' = StatusOf
<1>1. ASSUME NEW o \in Orders, NEW q \in OrderQtys, CreateOrder(o, q) \/ RaiseInquiry(o, q)
      PROVE  Lifecycle!Next
  <2>1. PICK first \in {"inquiry", "ordered"} : Insert(o, first, q)
    BY <1>1 DEF CreateOrder, RaiseInquiry
  <2>2. /\ orders[o].status = NoStatus /\ orders'[o].status = first
        /\ \A p \in Orders : p # o => orders'[p] = orders[p]
    BY <2>1 DEF Insert, Exists, OrderTables
  <2>3. StatusOf' = [StatusOf EXCEPT ![o] = first] /\ StatusOf[o] = Lifecycle!NoStatus
    BY <2>2, SameTable DEF StatusOf
  <2>4. QED
    BY <2>3 DEF Lifecycle!Next, Lifecycle!Create, StatusOf
<1>2. ASSUME NEW r \in Requests, TransitionCommit(r) \/ (ReceiveCommit(r) /\ otx[r].pc = "locked")
      PROVE  Lifecycle!Next
  BY <1>2, CommitAdvances
<1>3. ASSUME NEW r \in Requests, UpdateOrderWrite(r) \/ Abandon(r) PROVE StatusOf' = StatusOf
  BY <1>3, TermsOnly DEF StatusOf
<1>4. CASE orders' = orders
  BY <1>4 DEF StatusOf
<1>5. CASE \E r \in Requests :
              \/ TransitionUpdate(r) \/ HandleReceiveRead(r) \/ HandleReceiveSave(r)
              \/ ReceiveUpdate(r) \/ (ReceiveCommit(r) /\ otx[r].pc # "locked")
  BY <1>4, <1>5 DEF TransitionUpdate, HandleReceiveRead, HandleReceiveSave, orderVars,
                    ReceiveUpdate, ReceiveCommit
<1>6. CASE \E r \in Requests, o \in Orders :
              \/ \E q \in OrderQtys : UpdateOrderRead(r, o, q)
              \/ \E t \in stateTransitions : TransitionRead(r, o, t)
              \/ ReceiveRead(r, o)
  BY <1>4, <1>6 DEF UpdateOrderRead, TransitionRead, ReceiveRead
<1>7. CASE Stock \/ UNCHANGED vars
  BY <1>4, <1>7 DEF Stock, vars, orderVars
<1>8. QED
  BY <1>1, <1>2, <1>3, <1>5, <1>6, <1>7 DEF Next, Proceed

\* With one request nothing can get between its read and its commit.
LEMMA NothingStaleStep ==
    ASSUME NEW only, Requests = {only}
    PROVE  OrderTables /\ NothingStale /\ [Next]_vars => NothingStale'
<1> SUFFICES ASSUME OrderTables, NothingStale, [Next]_vars PROVE NothingStale'
  OBVIOUS
<1> DEFINE tx == otx[only]
<1>1. ASSUME NEW o \in Orders, NEW q \in OrderQtys, CreateOrder(o, q) \/ RaiseInquiry(o, q)
      PROVE  NothingStale'
  <2>1. PICK first \in {"inquiry", "ordered"} : Insert(o, first, q)
    BY <1>1 DEF CreateOrder, RaiseInquiry
  <2>2. otx' = otx /\ ~Exists(o) /\ \A p \in Orders : p # o => orders'[p] = orders[p]
    BY <2>1 DEF Insert, OrderTables
  <2>3. tx # Idle => tx.order \in Orders
    BY DEF OrderTables, OrderTx
  <2>4. QED
    BY <2>2, <2>3 DEF NothingStale, Exists
<1>2. ASSUME NEW o \in Orders, NEW op, NEW e, NEW to, NEW q, Exists(o),
             Start(only, op, o, e, to, q), orders' = orders
      PROVE  NothingStale'
  <2>1. otx'[only].order = o /\ otx'[only].read = orders[o]
    BY <1>2 DEF Start, OrderTables
  <2>2. QED
    BY <1>2, <2>1 DEF NothingStale, Exists
<1>3. ASSUME NEW o \in Orders,
             \/ \E q \in OrderQtys : UpdateOrderRead(only, o, q)
             \/ \E t \in stateTransitions : TransitionRead(only, o, t)
             \/ ReceiveRead(only, o)
      PROVE  NothingStale'
  <2>1. /\ Exists(o) /\ orders' = orders
        /\ \E op, e, to, q : Start(only, op, o, e, to, q)
    BY <1>3 DEF UpdateOrderRead, TransitionRead, ReceiveRead, Exists, NoStatus
  <2>2. QED
    BY <1>2, <2>1
<1>4. CASE UpdateOrderWrite(only) \/ TransitionCommit(only) \/ ReceiveCommit(only) \/ Abandon(only)
  <2>1. otx'[only] = Idle
    BY <1>4 DEF UpdateOrderWrite, TransitionCommit, ReceiveCommit, Abandon, Finish, OrderTables
  <2>2. QED
    BY <2>1 DEF NothingStale
<1>5. CASE TransitionUpdate(only) \/ ReceiveUpdate(only)
  <2>1. tx \in OrderTx /\ tx # Idle
    BY <1>5, WorkTypes DEF TransitionUpdate, ReceiveUpdate
  <2>2. /\ otx'[only].order = tx.order /\ otx'[only].read = tx.read
        /\ orders' = orders
    BY <1>5, <2>1 DEF TransitionUpdate, ReceiveUpdate, OrderTables, OrderTx
  <2>3. QED
    BY <2>1, <2>2 DEF NothingStale, Exists
<1>6. CASE HandleReceiveRead(only) \/ HandleReceiveSave(only) \/ Stock \/ UNCHANGED vars
  BY <1>6 DEF HandleReceiveRead, HandleReceiveSave, Stock, vars, orderVars, NothingStale, Exists
<1>7. QED
  BY <1>1, <1>3, <1>4, <1>5, <1>6 DEF Next, Proceed

\* With one request at a time, for any number of orders, the handlers implement
\* the life cycle: an order is created once, and every change of its status is
\* one event of the transition table.  (With two the run stale_transition shows
\* that they do not.)
THEOREM SerialFollowsLifecycle ==
    ASSUME NEW only, Requests = {only}
    PROVE  Spec => FollowsLifecycle
<1>1. Init => Lifecycle!Init
  <2> SUFFICES ASSUME Init PROVE Lifecycle!Init
    OBVIOUS
  <2>1. \A o \in Orders : orders[o].status \in {Lifecycle!NoStatus} \cup Lifecycle!SeedStatuses
    BY SeedShapes, SameTable DEF Exists
  <2>2. QED
    BY <2>1 DEF Lifecycle!Init
<1>2. Init => NothingStale
  BY DEF Init, NothingStale
<1>3. OrderTables /\ NothingStale /\ [Next]_vars => NothingStale'
  BY NothingStaleStep
<1>4. OrderTables /\ EarnedInv /\ NothingStale /\ [Next]_vars
          => [Lifecycle!Next]_([o \in Orders |-> orders[o].status])
  BY StepRefines DEF StatusOf
<1>5. SystemInv => OrderTables
  BY DEF SystemInv
<1>6. QED
  BY <1>1, <1>2, <1>3, <1>4, <1>5, SystemInvariant, EarnedInvariant, PTL
     DEF Spec, FollowsLifecycle, Lifecycle!Spec

-----------------------------------------------------------------------------
(***************************************************************************)
(* What else holds one request at a time.  Each of these needs that the    *)
(* copy a request decides from is the order it writes.                     *)
(***************************************************************************)

LEMMA NothingStaleInvariant ==
    ASSUME NEW only, Requests = {only}
    PROVE  Spec => []NothingStale
<1>1. Init => NothingStale
  BY DEF Init, NothingStale
<1>2. OrderTables /\ NothingStale /\ [Next]_vars => NothingStale'
  BY NothingStaleStep
<1>3. SystemInv => OrderTables
  BY DEF SystemInv
<1>4. QED
  BY <1>1, <1>2, <1>3, SystemInvariant, PTL DEF Spec

\* The terms of an order are frozen once it is ordered: the request that writes
\* them has seen it inquired or quoted, and nothing has moved it since.
THEOREM SerialTermsFrozen ==
    ASSUME NEW only, Requests = {only}
    PROVE  Spec => TermsFrozen
<1> DEFINE Frozen ==
        \A o \in Orders : Exists(o) /\ orders[o].status \notin {"inquiry", "quoting"} =>
            orders'[o].qty = orders[o].qty
<1>1. ASSUME OrderTables, WorkOnTable, NothingStale, [Next]_vars PROVE Frozen
  <2> SUFFICES ASSUME NEW o \in Orders, Exists(o), orders[o].status \notin {"inquiry", "quoting"}
               PROVE  orders'[o].qty = orders[o].qty
    OBVIOUS
  <2>1. ASSUME NEW p \in Orders, NEW first, NEW q, Insert(p, first, q)
        PROVE  orders'[o].qty = orders[o].qty
    BY <1>1, <2>1, InsertWrites DEF Exists
  <2>2. ASSUME NEW r \in Requests, UpdateOrderWrite(r) PROVE orders'[o].qty = orders[o].qty
    <3>1. /\ otx[r] # Idle /\ otx[r].op = "update"
          /\ \A p \in Orders : p # otx[r].order => orders'[p] = orders[p]
      BY <1>1, <2>2, UpdateWrites
    <3>2. orders[otx[r].order].status \in {"inquiry", "quoting"}
      BY <1>1, <3>1 DEF WorkOnTable, NothingStale
    <3>3. QED
      BY <3>1, <3>2
  <2>3. ASSUME NEW r \in Requests, TransitionCommit(r) PROVE orders'[o].qty = orders[o].qty
    BY <1>1, <2>3, CommitWrites
  <2>4. ASSUME NEW r \in Requests, ReceiveCommit(r) PROVE orders'[o].qty = orders[o].qty
    BY <1>1, <2>4, ReceiptWrites
  <2>5. QED
    BY <1>1, <2>1, <2>2, <2>3, <2>4, TableSteps
<1>2. SystemInv => OrderTables
  BY DEF SystemInv
<1>3. OrderTables /\ WorkOnTable /\ NothingStale /\ [Next]_vars => [Frozen]_vars
  BY <1>1
<1> HIDE DEF Frozen
<1>4. Spec => [][Frozen]_vars
  BY <1>2, <1>3, SystemInvariant, WorkOnTableInvariant, NothingStaleInvariant, PTL DEF Spec
<1>5. QED
  BY <1>4 DEF TermsFrozen, Frozen

\* With one request at a time the copy of the stock is the stock, whoever moves
\* it: a receipt or an adjustment.
LEMMA SerialStockInvariant ==
    ASSUME NEW only, Requests = {only}
    PROVE  Spec => []SerialInv
<1>1. Init => SerialInv
  BY SerialInit DEF Init
<1>2. SystemInv /\ SerialInv /\ [Next]_vars => SerialInv'
  BY SystemInvGivesTypes, OrdersStepMoves, SerialStep DEF SystemInv, StockInv
<1>3. QED
  BY <1>1, <1>2, SystemInvariant, PTL DEF Spec

\* With one request at a time receipts and adjustments move the oldest row of a SKU
\* and no other, whatever rows failed lookups have inserted beside it.
THEOREM SerialOrdersOldestRow ==
    ASSUME NEW only, Requests = {only}
    PROVE  Spec => []OldestRowMoves
BY SerialStockInvariant, PTL DEF SerialInv

\* With one request at a time the ledger is contiguous, across adjustments and
\* receipts of any number of orders.
THEOREM SerialOrdersLedger ==
    ASSUME NEW only, Requests = {only}
    PROVE  Spec => []LedgerContiguous
BY SerialStockInvariant, PTL DEF SerialInv

-----------------------------------------------------------------------------
(***************************************************************************)
(* The goods of an order enter the stock once.                             *)
(***************************************************************************)

\* The statuses an order can have after its receipt.
PastReceipt == {"received", "qc", "reconciling", "settled"}

\* No event leads out of them, and none of them can be received.
LEMMA NoWayBack ==
    /\ \A from, to : from \in PastReceipt /\ Edge(from, to) => to \in PastReceipt
    /\ \A t \in stateTransitions :
          t.name = "receive" => t.dst = "received" /\ t.src \cap PastReceipt = {}
<1>1. ASSUME NEW from \in PastReceipt, NEW t \in stateTransitions, from \in t.src
      PROVE  t.dst \in PastReceipt
  <2>1. from # NoStatus /\ from \notin {"inquiry", "quoting", "ordered", "shipped", "tracking", "cancelled"}
    <3>1. NoStatus \notin PastReceipt
      BY Zenon DEF PastReceipt, NoStatus
    <3>2. QED
      BY <3>1 DEF PastReceipt
  <2>2. \/ t.dst \in PastReceipt
        \/ t.src \subseteq {NoStatus, "inquiry", "quoting", "ordered", "shipped", "tracking", "cancelled"}
    BY DEF stateTransitions, PastReceipt
  <2>3. QED
    BY <1>1, <2>1, <2>2
<1>2. ASSUME NEW t \in stateTransitions, t.name = "receive"
      PROVE  t.dst = "received" /\ t.src = {"ordered", "shipped", "tracking"}
  BY <1>2 DEF stateTransitions
<1>3. {"ordered", "shipped", "tracking"} \cap PastReceipt = {}
  BY DEF PastReceipt
<1>4. QED
  BY <1>1, <1>2, <1>3 DEF Edge

\* An order that moved stock has moved it once, and is past its receipt.
StockedInv ==
    \A o \in Orders : StockedBy(o) # {} =>
        /\ orders[o].status \in PastReceipt
        /\ Cardinality(StockedBy(o)) = 1

\* A step that moves no stock keeps an order that did past its receipt.
LEMMA StaysPast ==
    ASSUME OrderTables, EarnedInv, NothingStale, [Next]_vars,
           NEW p \in Orders, orders[p].status \in PastReceipt
    PROVE  orders'[p].status \in PastReceipt
<1>1. ASSUME NEW o \in Orders, NEW first, NEW q, Insert(o, first, q)
      PROVE  orders'[p].status \in PastReceipt
  BY <1>1, InsertWrites DEF PastReceipt, NoStatus
<1>2. ASSUME NEW r \in Requests, UpdateOrderWrite(r) PROVE orders'[p].status \in PastReceipt
  BY <1>2, UpdateWrites
<1>3. ASSUME NEW r \in Requests, TransitionCommit(r) PROVE orders'[p].status \in PastReceipt
  <2>1. /\ otx[r] # Idle /\ otx[r].op = "transition"
        /\ orders'[otx[r].order].status = otx[r].to
        /\ \A o \in Orders : o # otx[r].order => orders'[o] = orders[o]
    BY <1>3, CommitWrites
  <2>2. Edge(orders[otx[r].order].status, otx[r].to)
    BY <2>1 DEF EarnedInv, WorkIsEarned, NothingStale
  <2>3. QED
    BY <2>1, <2>2, NoWayBack
<1>4. ASSUME NEW r \in Requests, ReceiveCommit(r) PROVE orders'[p].status \in PastReceipt
  <2>1. /\ otx[r] # Idle /\ otx[r].op = "receive"
        /\ orders'[otx[r].order].status \in {orders[otx[r].order].status, otx[r].to}
        /\ \A o \in Orders : o # otx[r].order => orders'[o] = orders[o]
    BY <1>4, ReceiptWrites
  <2>2. otx[r].to \in PastReceipt
    BY <2>1 DEF EarnedInv, WorkIsEarned, PastReceipt
  <2>3. QED
    BY <2>1, <2>2
<1>5. QED
  BY <1>1, <1>2, <1>3, <1>4, TableSteps

\* A receipt finds an order that has not moved stock before.
LEMMA StockedOnceStep ==
    ASSUME SystemInv, EarnedInv, WorkOnTable, StockWork, NothingStale, StockedInv, [Next]_vars
    PROVE  StockedInv'
<1>0. OrderTables
  BY DEF SystemInv
<1>1. ASSUME NEW p \in Orders, StockedBy(p)' = StockedBy(p), StockedBy(p)' # {}
      PROVE  orders'[p].status \in PastReceipt /\ Cardinality(StockedBy(p)') = 1
  BY <1>0, <1>1, StaysPast DEF StockedInv
<1>2. ASSUME NEW r \in Requests, Stocks(r), NEW o \in Orders, otx[r].order = o,
             NEW b, b \notin StockedBy(o), StockedBy(o)' = StockedBy(o) \cup {b}
      PROVE  orders'[o].status \in PastReceipt /\ Cardinality(StockedBy(o)') = 1
  <2>1. otx[r] # Idle /\ otx[r].op = "transition" /\ orders'[o].status = otx[r].to
    BY <1>0, <1>2, CommitWrites DEF Stocks
  <2>2. PICK t \in stateTransitions :
            t.name = "receive" /\ t.dst = otx[r].to /\ otx[r].read.status \in t.src
    BY <1>2, <2>1 DEF WorkOnTable, Stocks
  <2>3. otx[r].to = "received" /\ orders[o].status \notin PastReceipt
    BY <1>2, <2>1, <2>2, NoWayBack DEF NothingStale
  <2>4. StockedBy(o)' = {b}
    BY <1>2, <2>3 DEF StockedInv
  <2>5. Cardinality(StockedBy(o)') = 1
    BY <2>4, FS_Singleton
  <2>6. QED
    BY <2>1, <2>3, <2>5 DEF PastReceipt
<1>3. ASSUME NEW p \in Orders, StockedBy(p)' # {}
      PROVE  orders'[p].status \in PastReceipt /\ Cardinality(StockedBy(p)') = 1
  BY <1>1, <1>2, <1>3, StockedSteps
<1>4. QED
  BY <1>3 DEF StockedInv

\* The goods of an order enter the stock once: a receipt is decided from the
\* status the order has, and no later status can be received again.  (Two
\* receipts of one order may both be decided from "shipped".)
THEOREM SerialStockedOnce ==
    ASSUME NEW only, Requests = {only}
    PROVE  Spec => []StockedOnce
<1>1. Init => StockedInv
  BY StockedInit DEF StockedInv
<1>2. SystemInv /\ EarnedInv /\ WorkOnTable /\ StockWork /\ NothingStale /\ StockedInv /\ [Next]_vars
          => StockedInv'
  BY StockedOnceStep
<1>3. StockedInv => StockedOnce
  <2> SUFFICES ASSUME StockedInv, NEW o \in Orders PROVE Cardinality(StockedBy(o)) <= 1
    BY DEF StockedOnce
  <2>1. CASE StockedBy(o) = {}
    BY <2>1, FS_EmptySet
  <2>2. CASE StockedBy(o) # {}
    BY <2>2 DEF StockedInv
  <2>3. QED
    BY <2>1, <2>2
<1>4. QED
  BY <1>1, <1>2, <1>3, SystemInvariant, EarnedInvariant, WorkOnTableInvariant,
     StockWorkInvariant, NothingStaleInvariant, PTL DEF Spec

-----------------------------------------------------------------------------
(***************************************************************************)
(* The history in the order and the status log tell the same story.  They  *)
(* are written together, so it is enough that a transition appends to the  *)
(* history the order still has and takes the next id of the log.           *)
(***************************************************************************)

\* The items of history h and the lines of L, in their order: the item at i is that
\* of the line which has i - shift lines before it.  The first line of a created
\* order, and the first item of one of the seed data, stand alone.
Matches(h, L, shift) ==
    /\ Len(h) + 1 = Cardinality(L) + shift
    /\ \A i \in DOMAIN h : h[i] # SeedItem =>
          \E l \in L : l.to = h[i].to /\ Cardinality({k \in L : k.id < l.id}) + shift = i

Shift(o) == IF Seeded(o) THEN 2 ELSE 0

\* Another item and another line.
LEMMA MatchesAppend ==
    ASSUME NEW h \in Seq(HistoryItem), NEW L, L \subseteq StatusLog, IsFiniteSet(L),
           NEW shift \in {0, 2}, Matches(h, L, shift),
           NEW item \in HistoryItem, NEW line \in StatusLog, line.to = item.to,
           \A l \in L : l.id < line.id
    PROVE  Matches(Append(h, item), L \cup {line}, shift)
<1> DEFINE g == Append(h, item)
           M == L \cup {line}
<1>1. g \in Seq(HistoryItem) /\ Len(g) = Len(h) + 1 /\ Len(h) \in Nat
  OBVIOUS
<1>2. DOMAIN g = 1..(Len(h) + 1) /\ DOMAIN h = 1..Len(h)
  BY <1>1
<1>3. ASSUME NEW i \in 1..Len(h) PROVE g[i] = h[i]
  BY <1>1, <1>3
<1>4. g[Len(h) + 1] = item
  BY <1>1
<1>5. line \notin L /\ line.id \in Int /\ \A l \in L : l.id \in Int
  BY DEF StatusLog, Ids
<1>6. /\ Cardinality(L) \in Nat /\ Cardinality(M) = Cardinality(L) + 1
      /\ Len(h) + 1 = Cardinality(L) + shift
  <2>1. Cardinality(M) = Cardinality(L) + 1
    BY <1>5, FS_AddElement
  <2>2. Cardinality(L) \in Nat
    BY FS_CardinalityType
  <2>3. QED
    BY <1>1, <2>1, <2>2 DEF Matches
<1> HIDE DEF g
<1>7. ASSUME NEW i \in DOMAIN g, g[i] # SeedItem
      PROVE  \E l \in M : l.to = g[i].to /\ Cardinality({k \in M : k.id < l.id}) + shift = i
  <2>1. CASE i \in 1..Len(h)
    <3>1. g[i] = h[i]
      BY <1>3, <2>1
    <3>2. PICK l \in L : l.to = h[i].to /\ Cardinality({k \in L : k.id < l.id}) + shift = i
      BY <1>2, <1>7, <2>1, <3>1 DEF Matches
    <3>3. {k \in M : k.id < l.id} = {k \in L : k.id < l.id}
      BY <1>5
    <3>4. l.to = g[i].to /\ Cardinality({k \in M : k.id < l.id}) + shift = i
      BY <3>1, <3>2, <3>3
    <3>5. l \in M
      OBVIOUS
    <3> HIDE DEF M
    <3>6. QED
      BY <3>4, <3>5
  <2>2. CASE i = Len(h) + 1
    <3>1. {k \in M : k.id < line.id} = L
      BY <1>5
    <3>2. g[i].to = line.to
      BY <1>4, <2>2
    <3>3. Cardinality({k \in M : k.id < line.id}) + shift = i
      BY <1>6, <2>2, <3>1
    <3>4. line \in M
      OBVIOUS
    <3> HIDE DEF M
    <3>5. QED
      BY <3>2, <3>3, <3>4
  <2>3. i \in 1..Len(h) \/ i = Len(h) + 1
    BY <1>1, <1>2
  <2> HIDE DEF M
  <2>4. QED
    BY <2>1, <2>2, <2>3
<1>8. Len(g) + 1 = Cardinality(M) + shift
  BY <1>1, <1>6
<1>9. QED
  BY <1>7, <1>8 DEF Matches, g

\* The line an open transition has inserted comes after those committed.
LineIsNext ==
    \A r \in Requests : otx[r] # Idle /\ otx[r].pc = "locked" /\ otx[r].op = "transition" =>
        \A l \in logs[otx[r].order] : l.id < otx[r].log

HistoryInv ==
    /\ LineIsNext
    /\ \A o \in Orders : IsFiniteSet(logs[o])
    /\ \A o \in Orders : Exists(o) => Matches(orders[o].history, logs[o], Shift(o))

\* With one request, its line stays the next until it commits.
LEMMA LineIsNextStep ==
    ASSUME NEW only, Requests = {only}
    PROVE  OrderTables /\ NothingStale /\ LineIsNext /\ [Next]_vars => LineIsNext'
<1> SUFFICES ASSUME OrderTables, NothingStale, LineIsNext, [Next]_vars PROVE LineIsNext'
  OBVIOUS
<1> DEFINE tx == otx[only]
<1>1. ASSUME NEW o \in Orders, NEW q \in OrderQtys, CreateOrder(o, q) \/ RaiseInquiry(o, q)
      PROVE  LineIsNext'
  <2>1. PICK first : Insert(o, first, q)
    BY <1>1 DEF CreateOrder, RaiseInquiry
  <2>2. otx' = otx /\ ~Exists(o) /\ \A p \in Orders : p # o => logs'[p] = logs[p]
    BY <2>1 DEF Insert, OrderTables
  <2>3. tx # Idle => tx.order \in Orders /\ tx.order # o
    BY <2>2 DEF OrderTables, OrderTx, NothingStale
  <2>4. QED
    BY <2>2, <2>3 DEF LineIsNext
<1>2. ASSUME NEW o \in Orders,
             \/ \E q \in OrderQtys : UpdateOrderRead(only, o, q)
             \/ \E t \in stateTransitions : TransitionRead(only, o, t)
             \/ ReceiveRead(only, o)
      PROVE  LineIsNext'
  <2>1. \E op, e, to, q : Start(only, op, o, e, to, q)
    BY <1>2 DEF UpdateOrderRead, TransitionRead, ReceiveRead
  <2>2. PICK op, e, to, q : Start(only, op, o, e, to, q)
    BY <2>1
  <2>3. otx'[only].pc = "validated"
    BY <2>2 DEF Start, OrderTables
  <2>4. QED
    BY <2>3 DEF LineIsNext
<1>3. CASE UpdateOrderWrite(only) \/ TransitionCommit(only) \/ ReceiveCommit(only) \/ Abandon(only)
  <2>1. otx'[only] = Idle
    BY <1>3 DEF UpdateOrderWrite, TransitionCommit, ReceiveCommit, Abandon, Finish, OrderTables
  <2>2. QED
    BY <2>1 DEF LineIsNext
<1>4. CASE TransitionUpdate(only)
  <2> DEFINE log == NewId(LogIds(tx.order))
  <2>1. tx \in OrderTx /\ tx # Idle
    BY <1>4, WorkTypes DEF TransitionUpdate
  <2>2. \A i \in LogIds(tx.order) : i < log
    BY <1>4, NewIdIsFresh DEF TransitionUpdate
  <2>3. \A l \in logs[tx.order] : l.id \in LogIds(tx.order)
    BY DEF LogIds
  <2>4. otx' = [otx EXCEPT ![only].pc = "locked", ![only].log = log] /\ logs' = logs
    BY <1>4 DEF TransitionUpdate
  <2> HIDE DEF log
  <2>5. otx'[only].order = tx.order /\ otx'[only].log = log
    BY <2>1, <2>4 DEF OrderTables, OrderTx
  <2> HIDE DEF tx
  <2>6. \A l \in logs'[otx'[only].order] : l.id < otx'[only].log
    BY <2>2, <2>3, <2>4, <2>5
  <2>7. QED
    BY <2>6 DEF LineIsNext
<1>5. CASE ReceiveUpdate(only)
  <2>1. tx \in OrderTx /\ tx.op = "receive" /\ otx' = [otx EXCEPT ![only].pc = "locked"]
    BY <1>5, WorkTypes DEF ReceiveUpdate
  <2>2. otx'[only].op = "receive"
    BY <2>1 DEF OrderTables, OrderTx
  <2>3. QED
    BY <2>2 DEF LineIsNext
<1>6. CASE HandleReceiveRead(only) \/ HandleReceiveSave(only) \/ Stock \/ UNCHANGED vars
  <2>1. otx' = otx /\ logs' = logs
    BY <1>6 DEF HandleReceiveRead, HandleReceiveSave, Stock, vars, orderVars
  <2>2. QED
    BY <2>1 DEF LineIsNext
<1>7. QED
  BY <1>1, <1>2, <1>3, <1>4, <1>5, <1>6 DEF Next, Proceed

\* Every step writes the history and the log together, or neither.
LEMMA HistoryStep ==
    ASSUME NEW only, Requests = {only}
    PROVE  OrderTables /\ SeedInv /\ NothingStale /\ HistoryInv /\ [Next]_vars => HistoryInv'
<1> SUFFICES ASSUME OrderTables, SeedInv, NothingStale, HistoryInv, [Next]_vars PROVE HistoryInv'
  OBVIOUS
<1>1. LineIsNext'
  BY LineIsNextStep DEF HistoryInv
<1>2. ASSUME NEW p \in Orders
      PROVE  /\ IsFiniteSet(logs'[p])
             /\ Exists(p)' => Matches(orders'[p].history, logs'[p], Shift(p))
  <2>1. ASSUME NEW o \in Orders, NEW first, NEW q, Insert(o, first, q)
        PROVE  /\ IsFiniteSet(logs'[p])
               /\ Exists(p)' => Matches(orders'[p].history, logs'[p], Shift(p))
    <3> DEFINE line == [id |-> 1, from |-> NoStatus, to |-> first]
    <3>1. /\ orders'[o].history = <<>> /\ logs'[o] = {line}
          /\ \A k \in Orders : k # o => orders'[k] = orders[k] /\ logs'[k] = logs[k]
      BY <2>1, InsertWrites
    <3> HIDE DEF line
    <3>2. IsFiniteSet({line}) /\ Cardinality({line}) = 1
      BY FS_Singleton
    <3>3. Matches(<<>>, {line}, 0)
      BY <3>2 DEF Matches
    <3>4. CASE p = o
      <4>1. Shift(p) = 0
        BY <2>1, <3>4, InsertWrites DEF SeedInv, Exists, Shift
      <4>2. QED
        BY <3>1, <3>2, <3>3, <3>4, <4>1
    <3>5. CASE p # o
      BY <3>1, <3>5 DEF HistoryInv, Exists
    <3>6. QED
      BY <3>4, <3>5
  <2>2. ASSUME NEW r \in Requests, UpdateOrderWrite(r)
        PROVE  /\ IsFiniteSet(logs'[p])
               /\ Exists(p)' => Matches(orders'[p].history, logs'[p], Shift(p))
    <3>1. logs' = logs
      BY <2>2 DEF UpdateOrderWrite
    <3>2. QED
      BY <2>2, <3>1, UpdateWrites DEF HistoryInv, Exists
  <2>3. ASSUME NEW r \in Requests, ReceiveCommit(r)
        PROVE  /\ IsFiniteSet(logs'[p])
               /\ Exists(p)' => Matches(orders'[p].history, logs'[p], Shift(p))
    <3>1. otx[r] # Idle
      BY <2>3, ReceiptWrites
    <3>2. Exists(otx[r].order)
      BY <3>1 DEF NothingStale
    <3>3. QED
      BY <2>3, <3>2, ReceiptWrites DEF HistoryInv, Exists
  <2>4. ASSUME NEW r \in Requests, TransitionCommit(r)
        PROVE  /\ IsFiniteSet(logs'[p])
               /\ Exists(p)' => Matches(orders'[p].history, logs'[p], Shift(p))
    <3> DEFINE tx == otx[r]
               o == otx[r].order
               h == orders[o].history
               item == [from |-> tx.read.status, to |-> tx.to]
               line == TransitionLog(tx)
    <3>1. /\ tx # Idle /\ tx.op = "transition" /\ tx.pc = "locked" /\ o \in Orders /\ tx.log \in Ids
          /\ tx.to \in AllStates /\ tx.read.status \in AllStates
          /\ orders'[o].history = appendStatusHistory(tx) /\ logs'[o] = logs[o] \cup {line}
          /\ \A k \in Orders : k # o => orders'[k] = orders[k] /\ logs'[k] = logs[k]
      BY <2>4, CommitWrites
    <3>2. Exists(o) /\ tx.read = orders[o]
      BY <3>1 DEF NothingStale
    <3>3. appendStatusHistory(tx) = Append(h, item)
      BY <3>2 DEF appendStatusHistory
    <3>4. \A l \in logs[o] : l.id < tx.log
      BY <3>1 DEF HistoryInv, LineIsNext
    <3>5. line \in StatusLog /\ line.id = tx.log /\ line.to = tx.to
      BY <3>1, StatusNames DEF TransitionLog, StatusLog
    <3>6. item \in HistoryItem /\ item.to = tx.to
      BY <3>1 DEF HistoryItem
    <3>7. h \in Seq(HistoryItem) /\ logs[o] \subseteq StatusLog
      BY <3>1 DEF OrderTables, Order
    <3>8. IsFiniteSet(logs[o]) /\ Matches(h, logs[o], Shift(o)) /\ Shift(o) \in {0, 2}
      BY <3>1, <3>2 DEF HistoryInv, Shift
    <3> HIDE DEF tx, o, h, item, line
    <3>9. Matches(Append(h, item), logs[o] \cup {line}, Shift(o))
      BY <3>4, <3>5, <3>6, <3>7, <3>8, MatchesAppend
    <3>10. IsFiniteSet(logs[o] \cup {line})
      BY <3>8, FS_AddElement
    <3>11. CASE p = o
      BY <3>1, <3>3, <3>9, <3>10, <3>11
    <3>12. CASE p # o
      BY <3>1, <3>12 DEF HistoryInv, Exists
    <3>13. QED
      BY <3>11, <3>12
  <2>5. CASE UNCHANGED <<orders, logs>>
    BY <2>5 DEF HistoryInv, Exists
  <2>6. QED
    BY <2>1, <2>2, <2>3, <2>4, <2>5, TableSteps
<1>3. ASSUME NEW p \in Orders PROVE Shift(p)' = Shift(p)
  BY SeededSteps DEF Shift
<1>4. QED
  BY <1>1, <1>2, <1>3 DEF HistoryInv

\* With one request at a time the history in an order and its status log agree,
\* line by line.  (With two, the later commit overwrites the item of the
\* earlier one, while both lines stay.)
THEOREM SerialHistoryMatches ==
    ASSUME NEW only, Requests = {only}
    PROVE  Spec => []HistoryMatchesLogs
<1>1. Init => HistoryInv
  <2> SUFFICES ASSUME Init PROVE HistoryInv
    OBVIOUS
  <2>1. LineIsNext /\ \A o \in Orders : logs[o] = {}
    BY DEF Init, LineIsNext
  <2>2. IsFiniteSet({}) /\ Cardinality({}) = 0
    BY FS_EmptySet
  <2>3. Matches(<<SeedItem>>, {}, 2)
    BY <2>2 DEF Matches
  <2>4. ASSUME NEW o \in Orders, Exists(o) PROVE Matches(orders[o].history, {}, Shift(o))
    BY <2>3, <2>4, SeedShapes DEF Shift
  <2>5. QED
    BY <2>1, <2>2, <2>4 DEF HistoryInv
<1>2. OrderTables /\ SeedInv /\ NothingStale /\ HistoryInv /\ [Next]_vars => HistoryInv'
  BY HistoryStep
<1>3. SystemInv => OrderTables
  BY DEF SystemInv
<1>4. HistoryInv => HistoryMatchesLogs
  BY DEF HistoryInv, Matches, Shift, HistoryMatchesLogs, LinesBefore
<1>5. QED
  BY <1>1, <1>2, <1>3, <1>4, SystemInvariant, SeedInvariant, NothingStaleInvariant, PTL DEF Spec

=============================================================================
