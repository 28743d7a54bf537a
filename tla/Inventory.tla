----------------------------- MODULE Inventory -----------------------------
(***************************************************************************)
(* The stock tables of one warehouse (inventories, inventory_movements,    *)
(* stock_alerts) and the handlers of handler/inventory.go that write them. *)
(*                                                                         *)
(* Every HTTP request runs in a goroutine of its own, and a stock change   *)
(* is one database transaction: it reads the row, computes the new         *)
(* quantity in memory, saves the whole row back and books a movement.      *)
(* The "FOR UPDATE" option the code sets is the query option of GORM v1;   *)
(* GORM v2 ignores it, so the read is an InnoDB snapshot read that takes   *)
(* no lock.  The save takes the exclusive lock of the row, held until the  *)
(* transaction ends; nothing is visible to others before the commit, but   *)
(* the ids of the inserted rows are handed out by the inserts.             *)
(***************************************************************************)
EXTENDS Integers, FiniteSets

CONSTANTS
    Requests,      \* the requests the server may be executing at one time
    Skus,          \* SKUs kept in the warehouse
    Refs,          \* documents other than an adjustment that move stock
    Quantities,    \* signed quantities a client may adjust by
    Thresholds,    \* safety stocks a client or the seed data may set
    SeedQtys,      \* quantities the seed data may give a row
    MaxAdjusts,    \* bound: an adjustment starts while there are fewer of them
    MaxIds         \* bound: ids a table hands out per SKU or order

ASSUME InventoryAssumption ==
    /\ Quantities \subseteq Int \ {0}
    /\ Thresholds \subseteq Nat
    /\ SeedQtys \subseteq Nat
    /\ MaxAdjusts \in Nat
    /\ MaxIds \in Nat \ {0}
    /\ {"adjust", "seed"} \cap Refs = {}

VARIABLES
    rows,        \* rows[s]: the committed inventory rows of SKU s
    movements,   \* movements[s]: the committed movements of SKU s
    alerts,      \* alerts[s]: the number of pending alerts of SKU s
    stx          \* stx[r]: the stock transaction request r has open

stockVars == <<rows, movements, alerts, stx>>

Ids == 1..MaxIds

MovementTypes == {"inbound", "outbound", "adjust", "return"}

InventoryRow == [id : Ids, qty : Int, safety : Nat]

Movement == [id : Ids, row : Ids, ref : Refs \cup {"adjust", "seed"}, before : Int, after : Int]

Idle == [pc |-> "idle"]

\* What a transaction holds after its read, and after its save and insert.
\* row = 0 says that the read came back without a row, so that the save inserts one.
ReadTx == [pc : {"read"}, sku : Skus, ref : Refs \cup {"adjust"}, row : Ids \cup {0},
           before : Int, after : Int, safety : Nat]

SavedTx == [pc : {"saved"}, sku : Skus, ref : Refs \cup {"adjust"}, row : Ids, id : Ids,
            before : Int, after : Int, safety : Nat]

\* Type invariant of the stock tables.
StockTypeOK ==
    /\ rows \in [Skus -> SUBSET InventoryRow]
    /\ movements \in [Skus -> SUBSET Movement]
    /\ alerts \in [Skus -> Nat]
    /\ stx \in [Requests -> {Idle} \cup ReadTx \cup SavedTx]

SeedRow == [id : {1}, qty : SeedQtys, safety : Thresholds]

\* The receipt the seed data books for a row with stock; it stands for the two
\* lines of buildMovements, an inbound and the lock that follows it.
SeedMovement(x) == [id |-> 1, row |-> x.id, ref |-> "seed", before |-> 0, after |-> x.qty]

\* A SKU starts without a row (production), or with the one the seed data has
\* for it, its movement if there is stock, and an alert if there is too little.
StockInit ==
    /\ rows \in [Skus -> {{}} \cup {{x} : x \in SeedRow}]
    /\ movements = [s \in Skus |-> {SeedMovement(x) : x \in {y \in rows[s] : y.qty > 0}}]
    /\ alerts = [s \in Skus |-> IF \E x \in rows[s] : x.qty = 0 \/ x.qty < x.safety THEN 1 ELSE 0]
    /\ stx = [r \in Requests |-> Idle]

-----------------------------------------------------------------------------
(***************************************************************************)
(* The stock part of a transaction, shared by Adjust and handleReceive.    *)
(***************************************************************************)

\* An auto-increment id: above every id in use.  (The ids lost to a rollback
\* are handed out again, which keeps their order.)
HasRoom(used) == \E n \in Ids : \A u \in used : u < n
NewId(used) == CHOOSE n \in Ids : \A u \in used : u < n

\* The requests that have saved stock of SKU s and not committed yet.
Savers(s) == {r \in Requests : stx[r].pc = "saved" /\ stx[r].sku = s}

RowIds(s) == {x.id : x \in rows[s]} \cup {stx[r].row : r \in Savers(s)}
MovementIds(s) == {m.id : m \in movements[s]} \cup {stx[r].id : r \in Savers(s)}

\* A request that inserts starts while there is an id left for each request, so that
\* none is stopped half-way by the bound.
RoomForAll(used) == \A u \in used : u + Cardinality(Requests) <= MaxIds
StockRoom(s) == RoomForAll(RowIds(s)) /\ RoomForAll(MovementIds(s))

NoRow == [id |-> 0, qty |-> 0, safety |-> 0]

\* Seeded fault: the newest row is taken.
FirstRowsNewest(s) == {x \in rows[s] : \A y \in rows[s] : y.id <= x.id}

\* Of the rows the snapshot shows, the one with the smallest id.
FirstRows(s) == {x \in rows[s] : \A y \in rows[s] : x.id <= y.id}

\* What First(&inv) may leave in memory.  Any error is taken for a missing row,
\* and so is a query that fails although there is one: the request goes on with
\* a zero row, which it will insert.
Lookup(s) == FirstRows(s) \cup {NoRow}

ReadStock(r, s, ref, inv, delta) ==
    /\ stx[r] = Idle
    /\ inv \in Lookup(s)
    /\ stx' = [stx EXCEPT ![r] =
           [pc |-> "read", sku |-> s, ref |-> ref, row |-> inv.id,
            before |-> inv.qty, after |-> inv.qty + delta, safety |-> inv.safety]]

\* A saved row stays locked until its transaction ends.
RowLocked(s, row) == \E r \in Savers(s) : stx[r].row = row

\* The transaction after it has saved its row and inserted its movement.
Saved(t) ==
    [pc |-> "saved", sku |-> t.sku, ref |-> t.ref,
     row |-> IF t.row = 0 THEN NewId(RowIds(t.sku)) ELSE t.row,
     id |-> NewId(MovementIds(t.sku)),
     before |-> t.before, after |-> t.after, safety |-> t.safety]

\* Seeded fault: the save does not wait for the transaction that holds the row.
SaveStockUnlocked(r) ==
    /\ stx[r].pc = "read"
    /\ HasRoom(MovementIds(stx[r].sku)) /\ HasRoom(RowIds(stx[r].sku))
    /\ stx' = [stx EXCEPT ![r] = Saved(stx[r])]

\* Save(&inv) waits for the lock of the row, an insert for nobody; then the
\* movement is inserted.
SaveStock(r) ==
    /\ stx[r].pc = "read"
    /\ ~RowLocked(stx[r].sku, stx[r].row)
    /\ HasRoom(MovementIds(stx[r].sku)) /\ HasRoom(RowIds(stx[r].sku))
    /\ stx' = [stx EXCEPT ![r] = Saved(stx[r])]

\* Seeded fault: before_qty is filled in after the row was changed in memory.
BookingAfterAssignment(t) ==
    [id |-> t.id, row |-> t.row, ref |-> t.ref, before |-> t.after, after |-> t.after]

\* The row as Save(&inv) writes it (every column, from the copy in memory),
\* and the movement the transaction books.
SavedRow(t) == [id |-> t.row, qty |-> t.after, safety |-> t.safety]
Booking(t) == [id |-> t.id, row |-> t.row, ref |-> t.ref, before |-> t.before, after |-> t.after]

\* The commit publishes the saved row and the booked movement together.
CommitStock(r) ==
    LET t == stx[r]
    IN  /\ t.pc = "saved"
        /\ rows' = [rows EXCEPT ![t.sku] = {x \in @ : x.id # t.row} \cup {SavedRow(t)}]
        /\ movements' = [movements EXCEPT ![t.sku] = @ \cup {Booking(t)}]
        /\ stx' = [stx EXCEPT ![r] = Idle]

-----------------------------------------------------------------------------
(***************************************************************************)
(* The handlers.                                                           *)
(***************************************************************************)

\* The adjustments of SKU s, booked or under way.
Adjusts(s) ==
    Cardinality({m \in movements[s] : m.ref = "adjust"}) +
    Cardinality({r \in Requests : stx[r].pc # "idle" /\ stx[r].ref = "adjust" /\ stx[r].sku = s})

\* Seeded fault: the check against negative stock is gone.
AdjustReadUnchecked(r, s, type, q) ==
    /\ Adjusts(s) < MaxAdjusts /\ StockRoom(s)
    /\ \E inv \in Lookup(s) :
          /\ inv # NoRow \/ (q > 0 /\ type = "inbound")
          /\ ReadStock(r, s, "adjust", inv, q)
    /\ UNCHANGED <<rows, movements, alerts>>

\* POST /inventory/adjust up to the arithmetic.  Without a row an inbound quantity
\* creates one, and the result may not be negative; the requests refused here
\* roll back without having written anything.
AdjustRead(r, s, type, q) ==
    /\ Adjusts(s) < MaxAdjusts /\ StockRoom(s)
    /\ \E inv \in Lookup(s) :
          /\ inv # NoRow \/ (q > 0 /\ type = "inbound")
          /\ inv.qty + q >= 0
          /\ ReadStock(r, s, "adjust", inv, q)
    /\ UNCHANGED <<rows, movements, alerts>>

AdjustSave(r) ==
    /\ stx[r].pc = "read" /\ stx[r].ref = "adjust"
    /\ SaveStock(r)
    /\ UNCHANGED <<rows, movements, alerts>>

\* The movement is booked and, at or below the safety stock, an alert row is
\* added; the error of that insert is ignored, so the alert may be missing.
AdjustCommit(r) ==
    LET t == stx[r]
        low == t.safety > 0 /\ t.after <= t.safety
    IN  /\ t.pc = "saved" /\ t.ref = "adjust"
        /\ CommitStock(r)
        /\ \/ low /\ alerts' = [alerts EXCEPT ![t.sku] = @ + 1]
           \/ UNCHANGED alerts

\* Rollback, lost connection or crash: the transaction leaves no trace.
AdjustAbandon(r) ==
    /\ stx[r].pc # "idle" /\ stx[r].ref = "adjust"
    /\ stx' = [stx EXCEPT ![r] = Idle]
    /\ UNCHANGED <<rows, movements, alerts>>

\* PUT /inventory/:id sets the safety stock of one row.
Update(s, row, threshold) ==
    /\ ~RowLocked(s, row.id)
    /\ rows' = [rows EXCEPT ![s] = (@ \ {row}) \cup {[row EXCEPT !.safety = threshold]}]
    /\ UNCHANGED <<movements, alerts, stx>>

\* POST /inventory/alerts/:id/resolve
ResolveAlert(s) ==
    /\ alerts[s] > 0
    /\ alerts' = [alerts EXCEPT ![s] = @ - 1]
    /\ UNCHANGED <<rows, movements, stx>>

AdjustStep(r) ==
    \/ \E s \in Skus, type \in MovementTypes, q \in Quantities : AdjustRead(r, s, type, q)
    \/ AdjustSave(r)
    \/ AdjustCommit(r)
    \/ AdjustAbandon(r)

ManageStep ==
    \E s \in Skus :
        \/ \E row \in rows[s], threshold \in Thresholds : Update(s, row, threshold)
        \/ ResolveAlert(s)

StockNext == (\E r \in Requests : AdjustStep(r)) \/ ManageStep

StockSpec == StockInit /\ [][StockNext]_stockVars

-----------------------------------------------------------------------------
(***************************************************************************)
(* Properties.                                                             *)
(***************************************************************************)

\* Stock never goes below zero: the check of Adjust ("afterQty < 0" is
\* refused) survives every interleaving, although two requests may check
\* against the same quantity.
StockNeverNegative ==
    \A s \in Skus : \A x \in rows[s] : x.qty >= 0

\* The newest movement booked for a row (the one ListMovements shows first)
\* states the quantity the row has now: the movement is inserted under the row
\* lock, so the order of the movements is the order of the saves, even when a
\* save was computed from a quantity that had changed meanwhile.
NewestMovementIsStock ==
    \A s \in Skus : \A m \in movements[s] :
        (\A n \in movements[s] : n.row = m.row => n.id <= m.id) =>
            \E x \in rows[s] : x.id = m.row /\ x.qty = m.after

\* The ledger is contiguous: every movement of a row starts from the quantity
\* the one before it left ("atomic operation + movement record", Adjust).  It
\* fails as soon as two requests read a row before either saves it.
LedgerContiguous ==
    \A s \in Skus : \A m, n \in movements[s] :
        /\ m.row = n.row /\ m.id < n.id
        /\ ~\E k \in movements[s] : k.row = m.row /\ m.id < k.id /\ k.id < n.id
        => n.before = m.after

\* The stock of a SKU lives in the oldest of its rows, for receipts and adjustments
\* alike: a row inserted beside it, because a lookup failed, keeps the one movement
\* it came with, and what it holds is never counted with the rest.
OldestRowMoves ==
    \A s \in Skus : \A m, n \in movements[s] :
        m # n /\ m.row = n.row => \A x \in rows[s] : m.row <= x.id

=============================================================================
