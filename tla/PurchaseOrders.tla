--------------------------- MODULE PurchaseOrders ---------------------------
(***************************************************************************)
(* Purchase orders: the handlers of handler/purchase.go that create, edit, *)
(* advance and receive an order, composed with the stock tables of         *)
(* Inventory, which receiving an order writes in the same transaction.     *)
(*                                                                         *)
(* A handler reads the order before it opens its transaction and decides   *)
(* from that copy.  The UPDATE of the order names its id only, so it       *)
(* applies to whatever the row has become; it holds the row lock until the *)
(* transaction ends, and only then does the transaction take its snapshot. *)
(***************************************************************************)
EXTENDS Inventory, PurchaseFSM, Sequences

CONSTANTS
    Orders,        \* orders
    SkuOf,         \* SkuOf[o]: the SKU order o buys
    OrderQtys,     \* quantities an order may be placed for
    SeedStages,    \* statuses the seed data may give an order
    Operations,    \* the endpoints the clients call
    MaxLogs        \* bound: operations on an order start while it has fewer log lines

ASSUME PurchaseAssumption ==
    /\ SkuOf \in [Orders -> Skus]
    /\ OrderQtys \subseteq Nat \ {0}
    /\ SeedStages \subseteq SeedStatuses
    /\ Refs = Orders
    /\ MaxLogs \in Nat

VARIABLES
    orders,        \* orders[o]: the row of order o
    logs,          \* logs[o]: the committed purchase_status_logs of order o
    receipts,      \* receipts[o]: the number of receive records of order o
    otx,           \* otx[r]: what request r, working on an order, has in memory
    reached        \* auxiliary: reached[o], the statuses order o has had

orderVars == <<orders, logs, receipts, otx, reached>>
vars == <<stockVars, orderVars>>

Statuses == AllStates \cup {NoStatus}

\* The seed data writes a history item with other fields, {status, at, operator}:
\* read back, it names no status.
SeedItem == [from |-> NoStatus, to |-> NoStatus]

HistoryItem == [from : AllStates, to : AllStates] \cup {SeedItem}

Order == [status : Statuses, qty : Nat, history : Seq(HistoryItem)]

StatusLog == [id : Ids, from : Statuses, to : AllStates]

\* read: the row as it was read; to: the status the event leads to; qty: the
\* quantity to write or to receive; log: the id of the inserted log line.
OrderTx == [pc : {"validated", "locked"}, op : {"transition", "receive", "update"},
            order : Orders, event : AllEvents, read : Order, to : Statuses, qty : Nat,
            log : Ids \cup {0}]

\* Type invariant of the orders and of the requests working on them.
TypeOK ==
    /\ StockTypeOK
    /\ orders \in [Orders -> Order]
    /\ logs \in [Orders -> SUBSET StatusLog]
    /\ receipts \in [Orders -> Nat]
    /\ otx \in [Requests -> {Idle} \cup OrderTx]
    /\ reached \in [Orders -> SUBSET AllStates]

NoOrder == [status |-> NoStatus, qty |-> 0, history |-> <<>>]

SeedOrder == [status : SeedStages, qty : OrderQtys, history : {<<SeedItem>>}]

\* An order is still to come, or it is one of the seed data, at any stage but
\* without a log line or a receive record; its SKU is then stocked from the seed
\* data too.
Init ==
    /\ StockInit
    /\ orders \in [Orders -> {NoOrder} \cup SeedOrder]
    /\ \A o \in Orders : rows[SkuOf[o]] = {} => orders[o] = NoOrder
    /\ logs = [o \in Orders |-> {}]
    /\ receipts = [o \in Orders |-> 0]
    /\ otx = [r \in Requests |-> Idle]
    /\ reached = [o \in Orders |-> {orders[o].status} \ {NoStatus}]

Exists(o) == orders[o].status # NoStatus

\* The history is only ever appended to, so it tells an order of the seed data.
Seeded(o) == orders[o].history # <<>> /\ orders[o].history[1] = SeedItem

\* The lock an UPDATE of the order takes, until its transaction ends.
OrderLocked(o) == \E r \in Requests : otx[r].pc = "locked" /\ otx[r].order = o

Free(r) == otx[r] = Idle /\ stx[r] = Idle

\* A request begins: it has read order o and will, on event e, take it to
\* status "to", or write quantity q.
Start(r, op, o, e, to, q) ==
    /\ Free(r)
    /\ otx' = [otx EXCEPT ![r] =
           [pc |-> "validated", op |-> op, order |-> o, event |-> e, read |-> orders[o],
            to |-> to, qty |-> q, log |-> 0]]

Finish(r) == otx' = [otx EXCEPT ![r] = Idle]

\* The committed status of o becomes s.
Become(o, s) == reached' = [reached EXCEPT ![o] = @ \cup {s}]

-----------------------------------------------------------------------------
(***************************************************************************)
(* Creation and editing.                                                   *)
(***************************************************************************)

\* A transaction inserts the row and its first log line; until it commits no
\* other request can see them, so the two inserts are one step.
Insert(o, status, q) ==
    /\ ~Exists(o)
    /\ orders' = [orders EXCEPT ![o] = [status |-> status, qty |-> q, history |-> <<>>]]
    /\ logs' = [logs EXCEPT ![o] = {[id |-> 1, from |-> NoStatus, to |-> status]}]
    /\ Become(o, status)
    /\ UNCHANGED <<receipts, otx, stockVars>>

\* POST /purchases/orders
CreateOrder(o, q) == "create" \in Operations /\ Insert(o, "ordered", q)

\* The order a stock alert raises (inventory/service.go, triggerOne); the
\* alerts and the messages of that service are not part of this module.
RaiseInquiry(o, q) == "raise" \in Operations /\ Insert(o, "inquiry", q)

\* Seeded fault: an order may be edited in any status.
UpdateOrderReadUnchecked(r, o, q) ==
    /\ "update" \in Operations
    /\ Exists(o)
    /\ Start(r, "update", o, "quote", orders[o].status, q)
    /\ UNCHANGED <<orders, logs, receipts, reached, stockVars>>

\* PUT /purchases/orders/:id reads the order and refuses it unless it is still
\* being inquired or quoted ...
UpdateOrderRead(r, o, q) ==
    /\ "update" \in Operations
    /\ orders[o].status \in {"inquiry", "quoting"}
    /\ Start(r, "update", o, "quote", orders[o].status, q)
    /\ UNCHANGED <<orders, logs, receipts, reached, stockVars>>

\* ... and writes its terms in a statement of its own.
UpdateOrderWrite(r) ==
    LET tx == otx[r]
    IN  /\ tx.pc = "validated" /\ tx.op = "update"
        /\ ~OrderLocked(tx.order)
        /\ orders' = [orders EXCEPT ![tx.order].qty = tx.qty]
        /\ Finish(r)
        /\ UNCHANGED <<logs, receipts, reached, stockVars>>

-----------------------------------------------------------------------------
(***************************************************************************)
(* POST /purchases/orders/:id/transition                                    *)
(***************************************************************************)

LogIds(o) ==
    {l.id : l \in logs[o]} \cup {otx[r].log : r \in {q \in Requests :
        otx[q].pc = "locked" /\ otx[q].order = o}}

\* The bounds of a run: a transition starts only within them.
TransitionRoom(o) ==
    /\ Cardinality(logs[o]) < MaxLogs
    /\ RoomForAll(LogIds(o)) /\ StockRoom(SkuOf[o])

\* Seeded fault: the event is not checked against the status.
TransitionReadUnchecked(r, o, t) ==
    /\ "transition" \in Operations
    /\ Exists(o) /\ TransitionRoom(o)
    /\ Start(r, "transition", o, t.name, t.dst, orders[o].qty)
    /\ UNCHANGED <<orders, logs, receipts, reached, stockVars>>

\* First(&order) and the check of the event against the status read; t is the
\* line of the transition table the event takes.
TransitionRead(r, o, t) ==
    /\ "transition" \in Operations
    /\ Exists(o) /\ TransitionRoom(o)
    /\ orders[o].status \in t.src
    /\ Start(r, "transition", o, t.name, t.dst, orders[o].qty)
    /\ UNCHANGED <<orders, logs, receipts, reached, stockVars>>

\* Seeded fault: the status is updated without holding the row until commit.
TransitionUpdateUnlocked(r) ==
    LET tx == otx[r]
    IN  /\ tx.pc = "validated" /\ tx.op = "transition"
        /\ HasRoom(LogIds(tx.order))
        /\ otx' = [otx EXCEPT ![r].pc = "locked", ![r].log = NewId(LogIds(tx.order))]
        /\ UNCHANGED <<orders, logs, receipts, reached, stockVars>>

\* UPDATE purchase_orders SET status, status_history WHERE id = ?, then the
\* insert of the log line.
TransitionUpdate(r) ==
    LET tx == otx[r]
    IN  /\ tx.pc = "validated" /\ tx.op = "transition"
        /\ ~OrderLocked(tx.order)
        /\ HasRoom(LogIds(tx.order))
        /\ otx' = [otx EXCEPT ![r].pc = "locked", ![r].log = NewId(LogIds(tx.order))]
        /\ UNCHANGED <<orders, logs, receipts, reached, stockVars>>

\* The receive event goes on into handleReceive: default warehouse, its stock
\* row for the SKU, quantity increased by the quantity of the copy in memory.
Stocking(r) == otx[r].pc = "locked" /\ otx[r].op = "transition" /\ otx[r].event = "receive"

HandleReceiveRead(r) ==
    /\ Stocking(r)
    /\ \E inv \in Lookup(SkuOf[otx[r].order]) :
          ReadStock(r, SkuOf[otx[r].order], otx[r].order, inv, otx[r].qty)
    /\ UNCHANGED <<rows, movements, alerts, orderVars>>

\* Seeded fault: the movement is written outside the transaction of the order.
HandleReceiveSaveOutside(r) ==
    /\ Stocking(r)
    /\ SaveStock(r)
    /\ movements' = [movements EXCEPT ![stx[r].sku] = @ \cup {Booking(Saved(stx[r]))}]
    /\ UNCHANGED <<rows, alerts, orderVars>>

HandleReceiveSave(r) ==
    /\ Stocking(r)
    /\ SaveStock(r)
    /\ UNCHANGED <<rows, movements, alerts, orderVars>>

\* Seeded faults: the history that was read is dropped; the item starts from
\* the status the order has at the end.
appendStatusHistoryReset(tx) == <<[from |-> tx.read.status, to |-> tx.to]>>
appendStatusHistoryLate(tx) ==
    Append(tx.read.history, [from |-> orders[tx.order].status, to |-> tx.to])

\* status_history, appended to the history that was read.
appendStatusHistory(tx) ==
    Append(tx.read.history, [from |-> tx.read.status, to |-> tx.to])

\* The log line is built after Updates has written the new status back into
\* the struct, so order.Status is already the new status.
TransitionLog(tx) == [id |-> tx.log, from |-> tx.to, to |-> tx.to]

\* The commit publishes the order, its log line and, for a receipt, the stock,
\* the movement and the receive record.
TransitionCommit(r) ==
    LET tx == otx[r]
    IN  /\ tx.pc = "locked" /\ tx.op = "transition"
        /\ orders' = [orders EXCEPT ![tx.order].status = tx.to,
                                    ![tx.order].history = appendStatusHistory(tx)]
        /\ logs' = [logs EXCEPT ![tx.order] = @ \cup {TransitionLog(tx)}]
        /\ Become(tx.order, tx.to)
        /\ Finish(r)
        /\ \/ /\ tx.event = "receive"
              /\ CommitStock(r)
              /\ receipts' = [receipts EXCEPT ![tx.order] = @ + 1]
              /\ UNCHANGED alerts
           \/ /\ tx.event # "receive"
              /\ UNCHANGED <<receipts, stockVars>>

-----------------------------------------------------------------------------
(***************************************************************************)
(* POST /purchases/orders/:id/receive, the receipt "without the state       *)
(* machine": a receive record and, when the status read allows it, a new   *)
(* status.                                                                 *)
(***************************************************************************)
ReceiveRead(r, o) ==
    /\ "receive" \in Operations
    /\ Exists(o) /\ receipts[o] < MaxLogs
    /\ Start(r, "receive", o, "receive", "received", orders[o].qty)
    /\ UNCHANGED <<orders, logs, receipts, reached, stockVars>>

\* Seeded fault: a receipt sets the status whatever it was.
ReceiveUpdateUnchecked(r) ==
    LET tx == otx[r]
    IN  /\ tx.pc = "validated" /\ tx.op = "receive"
        /\ ~OrderLocked(tx.order)
        /\ otx' = [otx EXCEPT ![r].pc = "locked"]
        /\ UNCHANGED <<orders, logs, receipts, reached, stockVars>>

ReceiveUpdate(r) ==
    LET tx == otx[r]
    IN  /\ tx.pc = "validated" /\ tx.op = "receive"
        /\ CanTransition(tx.read.status, "receive")
        /\ ~OrderLocked(tx.order)
        /\ otx' = [otx EXCEPT ![r].pc = "locked"]
        /\ UNCHANGED <<orders, logs, receipts, reached, stockVars>>

\* The status was not to be changed, or its UPDATE failed and the error was
\* ignored: the receive record is committed all the same.
ReceiveCommit(r) ==
    LET tx == otx[r]
    IN  /\ tx.pc # "idle" /\ tx.op = "receive"
        /\ receipts' = [receipts EXCEPT ![tx.order] = @ + 1]
        /\ \/ /\ tx.pc = "locked"
              /\ orders' = [orders EXCEPT ![tx.order].status = tx.to]
              /\ Become(tx.order, tx.to)
           \/ /\ tx.pc = "validated"
              /\ UNCHANGED <<orders, reached>>
        /\ Finish(r)
        /\ UNCHANGED <<logs, stockVars>>

-----------------------------------------------------------------------------

\* Seeded fault: the rollback is forgotten and the locks stay.
AbandonLeaking(r) ==
    /\ otx[r] # Idle
    /\ otx' = [otx EXCEPT ![r].op = "update"]
    /\ UNCHANGED <<orders, logs, receipts, reached, stockVars>>

\* A failing statement, a deadlock victim, a lost connection or a crash: the
\* request ends and its transaction, stock included, is rolled back.
Abandon(r) ==
    /\ otx[r] # Idle
    /\ Finish(r)
    /\ stx' = [stx EXCEPT ![r] = Idle]
    /\ UNCHANGED <<orders, logs, receipts, reached, rows, movements, alerts>>

\* Adjustments and management of stock, by requests that are not working on
\* an order.
Stock ==
    /\ "stock" \in Operations
    /\ \/ \E r \in Requests : otx[r] = Idle /\ AdjustStep(r)
       \/ ManageStep
    /\ UNCHANGED orderVars

\* The steps of request r on an order it has read.
Proceed(r) ==
    \/ UpdateOrderWrite(r)
    \/ TransitionUpdate(r)
    \/ HandleReceiveRead(r)
    \/ HandleReceiveSave(r)
    \/ TransitionCommit(r)
    \/ ReceiveUpdate(r)
    \/ ReceiveCommit(r)

Next ==
    \/ \E o \in Orders, q \in OrderQtys : CreateOrder(o, q) \/ RaiseInquiry(o, q)
    \/ \E r \in Requests :
          \/ \E o \in Orders :
                \/ \E q \in OrderQtys : UpdateOrderRead(r, o, q)
                \/ \E t \in stateTransitions : TransitionRead(r, o, t)
                \/ ReceiveRead(r, o)
          \/ Proceed(r)
          \/ Abandon(r)
    \/ Stock

Spec == Init /\ [][Next]_vars

\* A request that has begun keeps running: every goroutine is scheduled, and
\* InnoDB grants a row lock to its waiters in turn.
FairSpec ==
    /\ Spec
    /\ \A r \in Requests :
          SF_vars(Proceed(r) \/ ((AdjustSave(r) \/ AdjustCommit(r)) /\ UNCHANGED orderVars))

-----------------------------------------------------------------------------
(***************************************************************************)
(* Properties.                                                             *)
(***************************************************************************)

\* No stage is reached out of thin air: whatever the interleaving, an order began
\* as inquiry or ordered, or where the seed data put it, and every other status it
\* has had is one event away from another it has had, though not always from the
\* one it was leaving.
StagesAreEarned ==
    \A o \in Orders : Exists(o) =>
        /\ orders[o].status \in reached[o]
        /\ \E first \in reached[o] :
              /\ Seeded(o) \/ first \in {"inquiry", "ordered"}
              /\ \A s \in reached[o] \ {first} : \E from \in reached[o] : Edge(from, s)

\* An order is settled only if it has been reconciled and received before, unless
\* it is one the seed data began with.
SettledWasReceived ==
    \A o \in Orders :
        orders[o].status = "settled" /\ ~Seeded(o) => {"reconciling", "received"} \subseteq reached[o]

\* Movements that order o caused.
StockedBy(o) == {m \in movements[SkuOf[o]] : m.ref = o}

\* Receiving is all or nothing (architecture.md 3.3): every receive record of
\* an order has its stock movement, and no order moves stock without one.
ReceiptsAreStocked == \A o \in Orders : Cardinality(StockedBy(o)) = receipts[o]

\* The goods of an order enter the stock once: no status that follows the
\* receipt leads back to one the order can be received in.
StockedOnce == \A o \in Orders : Cardinality(StockedBy(o)) <= 1

\* The newest log line of an order (the one ListStatusLogs shows first) states
\* the status it has: the line is inserted under the row lock of the update it
\* records, so the log neither falls behind the order nor overtakes it.  Only an
\* order of the seed data that nothing has moved since has no line.
NewestLogIsStatus ==
    \A o \in Orders : Exists(o) =>
        \/ \E l \in logs[o] : l.to = orders[o].status /\ \A k \in logs[o] : k.id <= l.id
        \/ logs[o] = {} /\ orders[o].history = <<SeedItem>> /\ reached[o] = {orders[o].status}

\* The terms of an order are frozen once it is ordered: UpdateOrder accepts an
\* order in inquiry or quoting only.
TermsFrozen ==
    [][\A o \in Orders : Exists(o) /\ orders[o].status \notin {"inquiry", "quoting"} =>
           orders'[o].qty = orders[o].qty]_vars

\* The log lines of order o that were written before line l.
LinesBefore(o, l) == {k \in logs[o] : k.id < l.id}

\* The status log and the history in the order tell the same story: one
\* history item for every log line, in the order of the lines and with the same
\* target.  A created order has a line more, that of its creation, and an order of
\* the seed data an item more, that of the seed.
HistoryMatchesLogs ==
    \A o \in Orders : Exists(o) =>
        LET h == orders[o].history
            shift == IF Seeded(o) THEN 2 ELSE 0
        IN  /\ Len(h) + 1 = Cardinality(logs[o]) + shift
            /\ \A i \in DOMAIN h : h[i] # SeedItem =>
                  \E l \in logs[o] :
                     l.to = h[i].to /\ Cardinality(LinesBefore(o, l)) + shift = i

\* Every item of a history is an edge of the transition table, but for the first
\* item of an order of the seed data, which the code reads back and rewrites as
\* one without statuses.
HistoryIsLegal ==
    \A o \in Orders : \A i \in DOMAIN orders[o].history :
        LET item == orders[o].history[i]
        IN  Edge(item.from, item.to) \/ (i = 1 /\ item = SeedItem)

\* A status changes along an edge of the transition table, from the status the
\* order really has.
StatusFollowsTable ==
    [][\A o \in Orders : Exists(o) /\ orders'[o].status # orders[o].status =>
           Edge(orders[o].status, orders'[o].status)]_vars

\* A request that works on an order or on stock answers, whatever the others hold
\* locked: a receipt waits for the stock row an adjustment or another receipt has
\* saved, while its own order is locked for others.
RequestsFinish ==
    \A r \in Requests : ~Free(r) ~> Free(r)

\* The orders as the abstract life cycle sees them.
Lifecycle == INSTANCE OrderLifecycle WITH status <- [o \in Orders |-> orders[o].status]

\* One request at a time, the detailed system implements the life cycle.
FollowsLifecycle == Lifecycle!Spec

=============================================================================
