--------------------------- MODULE InventoryProofs ---------------------------
(***************************************************************************)
(* Proofs about the stock tables, for any sets of requests, SKUs and       *)
(* documents and any quantities.                                           *)
(*                                                                         *)
(* The steps that can change the tables are few, and the handlers of other *)
(* modules use the same ones: StockMove names them all, the lemmas say     *)
(* what a StockMove preserves, and a module that composes Inventory only   *)
(* has to show that its steps are StockMoves.                              *)
(***************************************************************************)
EXTENDS Inventory, FiniteSetTheorems, TLAPS

\* What a transaction on the stock tables may do, whichever handler runs it.
MoveRead ==
    /\ \E r \in Requests, s \in Skus, ref \in Refs \cup {"adjust"}, delta \in Int :
          \E inv \in Lookup(s) : ReadStock(r, s, ref, inv, delta) /\ inv.qty + delta >= 0
    /\ UNCHANGED <<rows, movements, alerts>>

MoveSave == (\E r \in Requests : SaveStock(r)) /\ UNCHANGED <<rows, movements, alerts>>

MoveCommit == (\E r \in Requests : CommitStock(r)) /\ alerts' \in [Skus -> Nat]

MoveAbandon ==
    /\ \E r \in Requests : stx' = [stx EXCEPT ![r] = Idle]
    /\ UNCHANGED <<rows, movements, alerts>>

StockMove ==
    \/ MoveRead \/ MoveSave \/ MoveCommit \/ MoveAbandon
    \/ ManageStep \/ UNCHANGED stockVars

-----------------------------------------------------------------------------
(***************************************************************************)
(* The helpers.                                                            *)
(***************************************************************************)

\* What a lookup leaves is a row of the table, the one with the smallest id, or
\* the zero row.
LEMMA LookupIsRow ==
    ASSUME StockTypeOK, NEW s \in Skus, NEW inv \in Lookup(s)
    PROVE  /\ inv = NoRow \/ (inv \in rows[s] /\ \A y \in rows[s] : inv.id <= y.id)
           /\ inv.id \in Ids \cup {0}
           /\ inv.qty \in Int
           /\ inv.safety \in Nat
<1>1. inv = NoRow \/ (inv \in rows[s] /\ \A y \in rows[s] : inv.id <= y.id)
  BY DEF Lookup, FirstRows
<1>2. rows[s] \subseteq InventoryRow
  BY DEF StockTypeOK
<1>3. QED
  BY <1>1, <1>2 DEF NoRow, InventoryRow

\* The id an insert is given is above every id in use.
LEMMA NewIdIsFresh ==
    ASSUME NEW used, HasRoom(used)
    PROVE  NewId(used) \in Ids /\ \A u \in used : u < NewId(used)
BY DEF HasRoom, NewId

\* What Saved makes of a transaction that has read.
LEMMA SavedFields ==
    ASSUME StockTypeOK, NEW r \in Requests, SaveStock(r)
    PROVE  /\ stx[r] \in ReadTx
           /\ Saved(stx[r]) \in SavedTx
           /\ Saved(stx[r]).sku = stx[r].sku
           /\ Saved(stx[r]).after = stx[r].after
           /\ \A i \in MovementIds(stx[r].sku) : i < Saved(stx[r]).id
           /\ IF stx[r].row = 0
              THEN \A i \in RowIds(stx[r].sku) : i < Saved(stx[r]).row
              ELSE Saved(stx[r]).row = stx[r].row
<1> DEFINE t == stx[r]
<1>1. t \in ReadTx
  BY DEF StockTypeOK, SaveStock, Idle, SavedTx
<1>2. /\ NewId(MovementIds(t.sku)) \in Ids
      /\ \A i \in MovementIds(t.sku) : i < NewId(MovementIds(t.sku))
  BY NewIdIsFresh DEF SaveStock
<1>3. /\ NewId(RowIds(t.sku)) \in Ids
      /\ \A i \in RowIds(t.sku) : i < NewId(RowIds(t.sku))
  BY NewIdIsFresh DEF SaveStock
<1> HIDE DEF t
<1>4. Saved(t) \in SavedTx
  BY <1>1, <1>2, <1>3 DEF Saved, ReadTx, SavedTx
<1>5. QED
  BY <1>1, <1>2, <1>3, <1>4 DEF Saved, t

-----------------------------------------------------------------------------
(***************************************************************************)
(* Types.                                                                  *)
(***************************************************************************)

\* Every stock move keeps the types of the tables and of the transactions.
LEMMA StockTypeStep == StockTypeOK /\ StockMove => StockTypeOK'
<1> SUFFICES ASSUME StockTypeOK, StockMove PROVE StockTypeOK'
  OBVIOUS
<1>1. CASE MoveRead
  <2>1. PICK r \in Requests, s \in Skus, ref \in Refs \cup {"adjust"}, delta \in Int :
            \E inv \in Lookup(s) : ReadStock(r, s, ref, inv, delta)
    BY <1>1 DEF MoveRead
  <2>. PICK inv \in Lookup(s) : ReadStock(r, s, ref, inv, delta)
    BY <2>1
  <2> DEFINE t == [pc |-> "read", sku |-> s, ref |-> ref, row |-> inv.id,
                   before |-> inv.qty, after |-> inv.qty + delta,
                   safety |-> inv.safety]
  <2>2. t \in ReadTx
    BY LookupIsRow DEF ReadTx
  <2>3. stx' = [stx EXCEPT ![r] = t]
    BY DEF ReadStock
  <2> HIDE DEF t
  <2>4. QED
    BY <1>1, <2>2, <2>3 DEF MoveRead, StockTypeOK
<1>2. CASE MoveSave
  <2>1. PICK r \in Requests : SaveStock(r)
    BY <1>2 DEF MoveSave
  <2>2. Saved(stx[r]) \in SavedTx
    BY <2>1, SavedFields
  <2>3. stx' = [stx EXCEPT ![r] = Saved(stx[r])]
    BY <2>1 DEF SaveStock
  <2>4. QED
    BY <1>2, <2>2, <2>3 DEF MoveSave, StockTypeOK
<1>3. CASE MoveCommit
  <2>1. PICK r \in Requests : CommitStock(r)
    BY <1>3 DEF MoveCommit
  <2>2. stx[r] \in SavedTx
    BY <2>1 DEF CommitStock, StockTypeOK, Idle, ReadTx
  <2>3. SavedRow(stx[r]) \in InventoryRow /\ Booking(stx[r]) \in Movement
    BY <2>2 DEF SavedTx, SavedRow, Booking, InventoryRow, Movement
  <2>4. QED
    BY <1>3, <2>1, <2>2, <2>3 DEF MoveCommit, CommitStock, StockTypeOK, SavedTx
<1>4. CASE MoveAbandon
  BY <1>4 DEF MoveAbandon, StockTypeOK
<1>5. CASE ManageStep
  <2>1. PICK s \in Skus :
            \/ \E row \in rows[s], threshold \in Thresholds : Update(s, row, threshold)
            \/ ResolveAlert(s)
    BY <1>5 DEF ManageStep
  <2>2. CASE \E row \in rows[s], threshold \in Thresholds : Update(s, row, threshold)
    <3>1. PICK row \in rows[s], threshold \in Thresholds : Update(s, row, threshold)
      BY <2>2
    <3>2. row \in InventoryRow /\ threshold \in Nat
      BY InventoryAssumption DEF StockTypeOK
    <3>3. [row EXCEPT !.safety = threshold] \in InventoryRow
      BY <3>2 DEF InventoryRow
    <3>4. QED
      BY <3>1, <3>3 DEF Update, StockTypeOK
  <2>3. CASE ResolveAlert(s)
    BY <2>3 DEF ResolveAlert, StockTypeOK
  <2>4. QED
    BY <2>1, <2>2, <2>3
<1>6. CASE UNCHANGED stockVars
  BY <1>6 DEF stockVars, StockTypeOK
<1>7. QED
  BY <1>1, <1>2, <1>3, <1>4, <1>5, <1>6 DEF StockMove

\* The fields of a seeded row and of its movement.
LEMMA SeedFields ==
    ASSUME NEW x \in SeedRow
    PROVE  /\ x \in InventoryRow /\ x.id = 1 /\ x.qty >= 0
           /\ SeedMovement(x) \in Movement
           /\ SeedMovement(x).row = x.id /\ SeedMovement(x).after = x.qty
<1>1. 1 \in Ids
  BY InventoryAssumption DEF Ids
<1>2. /\ x = [id |-> x.id, qty |-> x.qty, safety |-> x.safety]
      /\ x.id = 1 /\ x.qty \in SeedQtys /\ x.safety \in Thresholds
  BY DEF SeedRow
<1>3. x.qty \in Nat /\ x.safety \in Nat
  BY <1>2, InventoryAssumption
<1>4. x \in InventoryRow
  BY <1>1, <1>2, <1>3 DEF InventoryRow
<1>5. SeedMovement(x) \in Movement
  BY <1>1, <1>2, <1>3 DEF SeedMovement, Movement
<1>6. QED
  BY <1>2, <1>3, <1>4, <1>5 DEF SeedMovement

\* What the seed data may give a SKU: no row and no movement, or one row and
\* movements that end at its quantity.
LEMMA SeedShape ==
    ASSUME StockInit, NEW s \in Skus
    PROVE  /\ \A x \in rows[s] : x \in InventoryRow /\ x.qty >= 0
           /\ \A m \in movements[s] :
                 m \in Movement /\ \E x \in rows[s] : x.id = m.row /\ x.qty = m.after
<1>1. movements[s] = {SeedMovement(x) : x \in {y \in rows[s] : y.qty > 0}}
  BY DEF StockInit
<1>2. \A x \in rows[s] : x \in SeedRow
  <2>1. rows[s] \in {{}} \cup {{x} : x \in SeedRow}
    BY DEF StockInit
  <2>2. QED
    BY <2>1
<1>3. \A x \in rows[s] : x \in InventoryRow /\ x.qty >= 0
  BY <1>2, SeedFields
<1>4. ASSUME NEW m \in movements[s]
      PROVE  m \in Movement /\ \E x \in rows[s] : x.id = m.row /\ x.qty = m.after
  <2>1. PICK x \in rows[s] : m = SeedMovement(x)
    BY <1>1, <1>4
  <2>2. /\ SeedMovement(x) \in Movement
        /\ SeedMovement(x).row = x.id /\ SeedMovement(x).after = x.qty
    BY <1>2, SeedFields
  <2>3. QED
    BY <2>1, <2>2
<1>5. QED
  BY <1>3, <1>4

\* The seed data is well typed.
LEMMA StockTypeInit == StockInit => StockTypeOK
<1> SUFFICES ASSUME StockInit PROVE StockTypeOK
  OBVIOUS
<1>1. ASSUME NEW s \in Skus PROVE rows[s] \subseteq InventoryRow /\ movements[s] \subseteq Movement
  <2>1. /\ \A x \in rows[s] : x \in InventoryRow
        /\ \A m \in movements[s] : m \in Movement
    BY SeedShape
  <2>2. QED
    BY <2>1
<1>2. rows \in [Skus -> SUBSET InventoryRow]
  <2>1. rows = [s \in Skus |-> rows[s]]
    BY DEF StockInit
  <2>2. QED
    BY <1>1, <2>1
<1>3. movements \in [Skus -> SUBSET Movement]
  <2>1. movements = [s \in Skus |-> movements[s]]
    BY DEF StockInit
  <2>2. QED
    BY <1>1, <2>1
<1>4. alerts \in [Skus -> Nat]
  BY DEF StockInit
<1>5. QED
  BY <1>2, <1>3, <1>4 DEF StockInit, StockTypeOK

-----------------------------------------------------------------------------
(***************************************************************************)
(* No negative stock.  The check is made on the copy a request has read,   *)
(* so the invariant has to follow the copy up to the commit.               *)
(***************************************************************************)

NeverNegativeInv ==
    /\ StockNeverNegative
    /\ \A r \in Requests : stx[r] # Idle => stx[r].after >= 0

\* A stock move keeps the committed and the computed quantities above zero.
LEMMA NeverNegativeStep ==
    StockTypeOK /\ NeverNegativeInv /\ StockMove => NeverNegativeInv'
<1> SUFFICES ASSUME StockTypeOK, NeverNegativeInv, StockMove PROVE NeverNegativeInv'
  OBVIOUS
<1> USE DEF NeverNegativeInv, StockNeverNegative
<1>1. CASE MoveRead
  <2>1. PICK r \in Requests, s \in Skus, ref \in Refs \cup {"adjust"}, delta \in Int :
            \E inv \in Lookup(s) : ReadStock(r, s, ref, inv, delta) /\ inv.qty + delta >= 0
    BY <1>1 DEF MoveRead
  <2>2. stx'[r].after >= 0 /\ \A q \in Requests : q # r => stx'[q] = stx[q]
    BY <2>1 DEF ReadStock, StockTypeOK
  <2>3. rows' = rows
    BY <1>1 DEF MoveRead
  <2>4. QED
    BY <2>2, <2>3
<1>2. CASE MoveSave
  <2>1. PICK r \in Requests : SaveStock(r)
    BY <1>2 DEF MoveSave
  <2>2. stx[r] # Idle
    BY <2>1 DEF SaveStock, Idle
  <2>3. stx'[r] = Saved(stx[r]) /\ \A q \in Requests : q # r => stx'[q] = stx[q]
    BY <2>1 DEF SaveStock, StockTypeOK
  <2>4. Saved(stx[r]).after = stx[r].after
    BY <2>1, SavedFields
  <2>5. rows' = rows
    BY <1>2 DEF MoveSave
  <2>6. QED
    BY <2>2, <2>3, <2>4, <2>5
<1>3. CASE MoveCommit
  <2>1. PICK r \in Requests : CommitStock(r)
    BY <1>3 DEF MoveCommit
  <2>2. stx[r] # Idle /\ stx[r].after >= 0
    BY <2>1 DEF CommitStock, Idle
  <2>3. stx'[r] = Idle /\ \A q \in Requests : q # r => stx'[q] = stx[q]
    BY <2>1 DEF CommitStock, StockTypeOK
  <2>4. ASSUME NEW s \in Skus, NEW x \in rows'[s] PROVE x.qty >= 0
    <3>1. x \in rows[s] \/ x = SavedRow(stx[r])
      BY <2>1 DEF CommitStock, StockTypeOK
    <3>2. QED
      BY <2>2, <3>1 DEF SavedRow
  <2>5. QED
    BY <2>3, <2>4
<1>4. CASE MoveAbandon
  BY <1>4 DEF MoveAbandon, StockTypeOK
<1>5. CASE ManageStep
  <2>1. PICK s \in Skus :
            \/ \E row \in rows[s], threshold \in Thresholds : Update(s, row, threshold)
            \/ ResolveAlert(s)
    BY <1>5 DEF ManageStep
  <2>2. CASE \E row \in rows[s], threshold \in Thresholds : Update(s, row, threshold)
    <3>1. PICK row \in rows[s], threshold \in Thresholds : Update(s, row, threshold)
      BY <2>2
    <3>2. [row EXCEPT !.safety = threshold].qty = row.qty
      BY <3>1 DEF StockTypeOK, InventoryRow
    <3>3. \A k \in Skus : rows'[k] \subseteq rows[k] \cup {[row EXCEPT !.safety = threshold]}
      BY <3>1 DEF Update, StockTypeOK
    <3>4. QED
      BY <3>1, <3>2, <3>3 DEF Update
  <2>3. CASE ResolveAlert(s)
    BY <2>3 DEF ResolveAlert
  <2>4. QED
    BY <2>1, <2>2, <2>3
<1>6. CASE UNCHANGED stockVars
  BY <1>6 DEF stockVars
<1>7. QED
  BY <1>1, <1>2, <1>3, <1>4, <1>5, <1>6 DEF StockMove

\* The seed data has no negative stock.
LEMMA NeverNegativeInit == StockInit => NeverNegativeInv
<1> SUFFICES ASSUME StockInit PROVE NeverNegativeInv
  OBVIOUS
<1>1. \A s \in Skus : \A x \in rows[s] : x.qty >= 0
  BY SeedShape
<1>2. QED
  BY <1>1 DEF StockInit, NeverNegativeInv, StockNeverNegative

-----------------------------------------------------------------------------
(***************************************************************************)
(* The newest movement of a row is its stock.  The argument is the row     *)
(* lock: one transaction at a time has saved a row, it took its movement   *)
(* id under the lock, and so its movement is the newest when it commits.   *)
(***************************************************************************)

IsSaved(r) == stx[r].pc = "saved"

\* A row is saved by one transaction at a time.
OneSaver ==
    \A r, q \in Requests :
        IsSaved(r) /\ IsSaved(q) /\ stx[r].sku = stx[q].sku /\ stx[r].row = stx[q].row => r = q

\* Its movement id is above those of the row's committed movements.
SaverIsNewest ==
    \A r \in Requests : IsSaved(r) =>
        \A m \in movements[stx[r].sku] : m.row = stx[r].row => m.id < stx[r].id

\* No movement belongs to a row that is not there.
MovementsHaveRows ==
    \A s \in Skus : \A m \in movements[s] : \E x \in rows[s] : x.id = m.row

LedgerInv == OneSaver /\ SaverIsNewest /\ MovementsHaveRows /\ NewestMovementIsStock

\* A save takes a row nobody else has saved, and the next movement id.
LEMMA LedgerSave == StockTypeOK /\ LedgerInv /\ MoveSave => LedgerInv'
<1> SUFFICES ASSUME StockTypeOK, LedgerInv, MoveSave PROVE LedgerInv'
  OBVIOUS
<1> USE DEF LedgerInv
<1>1. PICK r \in Requests : SaveStock(r)
  BY DEF MoveSave
<1> DEFINE t == Saved(stx[r])
           s == stx[r].sku
<1>2. /\ stx[r] \in ReadTx /\ t \in SavedTx /\ t.sku = s
      /\ \A i \in MovementIds(s) : i < t.id
      /\ IF stx[r].row = 0 THEN \A i \in RowIds(s) : i < t.row ELSE t.row = stx[r].row
  BY <1>1, SavedFields
<1>3. stx'[r] = t /\ \A q \in Requests : q # r => stx'[q] = stx[q]
  BY <1>1 DEF SaveStock, StockTypeOK
<1>4. rows' = rows /\ movements' = movements
  BY DEF MoveSave
<1>5. \A i \in RowIds(s) : i \in Int
  <2>1. \A q \in Savers(s) : stx[q] \in SavedTx
    BY DEF Savers, StockTypeOK, Idle, ReadTx
  <2>2. QED
    BY <1>2, <2>1 DEF RowIds, StockTypeOK, InventoryRow, ReadTx, SavedTx, Ids
<1>6. \A q \in Requests : IsSaved(q) /\ stx[q].sku = s => stx[q].row # t.row
  <2> SUFFICES ASSUME NEW q \in Requests, IsSaved(q), stx[q].sku = s PROVE stx[q].row # t.row
    OBVIOUS
  <2>1. q \in Savers(s) /\ stx[q].row \in RowIds(s)
    BY DEF Savers, RowIds, IsSaved
  <2>2. CASE stx[r].row = 0
    BY <1>2, <1>5, <2>1, <2>2 DEF SavedTx, Ids
  <2>3. CASE stx[r].row # 0
    BY <1>1, <1>2, <2>1, <2>3 DEF SaveStock, RowLocked
  <2>4. QED
    BY <2>2, <2>3
<1> HIDE DEF t, s
<1>7. OneSaver'
  <2> SUFFICES ASSUME NEW p \in Requests, NEW q \in Requests, IsSaved(p)', IsSaved(q)',
                      stx'[p].sku = stx'[q].sku, stx'[p].row = stx'[q].row
               PROVE  p = q
    BY DEF OneSaver, IsSaved
  <2>1. CASE p # r /\ q # r
    BY <1>3, <2>1 DEF OneSaver, IsSaved
  <2>2. CASE p = r /\ q # r
    BY <1>2, <1>3, <1>6, <2>2 DEF IsSaved
  <2>3. CASE p # r /\ q = r
    BY <1>2, <1>3, <1>6, <2>3 DEF IsSaved
  <2>4. QED
    BY <2>1, <2>2, <2>3
<1>8. SaverIsNewest'
  <2> SUFFICES ASSUME NEW q \in Requests, IsSaved(q)',
                      NEW m \in movements[stx'[q].sku], m.row = stx'[q].row
               PROVE  m.id < stx'[q].id
    BY <1>4 DEF SaverIsNewest, IsSaved
  <2>1. CASE q = r
    <3>1. m.id \in MovementIds(s)
      BY <1>2, <1>3, <2>1 DEF MovementIds
    <3>2. QED
      BY <1>2, <1>3, <2>1, <3>1
  <2>2. CASE q # r
    BY <1>3, <2>2 DEF SaverIsNewest, IsSaved
  <2>3. QED
    BY <2>1, <2>2
<1>9. MovementsHaveRows' /\ NewestMovementIsStock'
  BY <1>4 DEF MovementsHaveRows, NewestMovementIsStock
<1>10. QED
  BY <1>7, <1>8, <1>9

\* A commit books the newest movement of its row and sets the row to it.
LEMMA LedgerCommit == StockTypeOK /\ LedgerInv /\ MoveCommit => LedgerInv'
<1> SUFFICES ASSUME StockTypeOK, LedgerInv, MoveCommit PROVE LedgerInv'
  OBVIOUS
<1> USE DEF LedgerInv
<1>1. PICK r \in Requests : CommitStock(r)
  BY DEF MoveCommit
<1> DEFINE t == stx[r]
           b == Booking(t)
           x0 == SavedRow(t)
<1>2. t \in SavedTx /\ IsSaved(r)
  BY <1>1 DEF CommitStock, StockTypeOK, Idle, ReadTx, IsSaved
<1>3. /\ b.id = t.id /\ b.row = t.row /\ b.after = t.after
      /\ x0.id = t.row /\ x0.qty = t.after
  BY DEF Booking, SavedRow
<1>4. /\ stx'[r] = Idle /\ \A q \in Requests : q # r => stx'[q] = stx[q]
      /\ rows'[t.sku] = {x \in rows[t.sku] : x.id # t.row} \cup {x0}
      /\ movements'[t.sku] = movements[t.sku] \cup {b}
      /\ \A s \in Skus : s # t.sku => rows'[s] = rows[s] /\ movements'[s] = movements[s]
  BY <1>1, <1>2 DEF CommitStock, StockTypeOK, SavedTx
<1>5. t.sku \in Skus /\ t.id \in Int
  BY <1>2 DEF SavedTx, Ids
<1>6. \A q \in Requests : IsSaved(q)' => q # r /\ IsSaved(q) /\ stx'[q] = stx[q] /\ stx[q] \in SavedTx
  BY <1>4 DEF IsSaved, Idle, StockTypeOK, ReadTx
<1>7. OneSaver'
  BY <1>6 DEF OneSaver, IsSaved
<1> HIDE DEF t, b, x0
<1>8. SaverIsNewest'
  <2> SUFFICES ASSUME NEW q \in Requests, IsSaved(q)',
                      NEW m \in movements'[stx[q].sku], m.row = stx[q].row
               PROVE  m.id < stx[q].id
    BY <1>6 DEF SaverIsNewest, IsSaved
  <2>1. m \in movements[stx[q].sku] \/ (m = b /\ stx[q].sku = t.sku)
    BY <1>4, <1>6 DEF SavedTx
  <2>2. CASE m \in movements[stx[q].sku]
    BY <1>6, <2>2 DEF SaverIsNewest
  <2>3. CASE m = b /\ stx[q].sku = t.sku
    BY <1>2, <1>3, <1>6, <2>3 DEF OneSaver, t
  <2>4. QED
    BY <2>1, <2>2, <2>3
<1>9. MovementsHaveRows'
  BY <1>3, <1>4, <1>5 DEF MovementsHaveRows
<1>10. NewestMovementIsStock'
  <2> SUFFICES ASSUME NEW s \in Skus, NEW m \in movements'[s],
                      \A n \in movements'[s] : n.row = m.row => n.id <= m.id
               PROVE  \E x \in rows'[s] : x.id = m.row /\ x.qty = m.after
    BY DEF NewestMovementIsStock
  <2>1. CASE s # t.sku
    BY <1>4, <2>1 DEF NewestMovementIsStock
  <2>2. CASE s = t.sku /\ m.row # t.row
    <3>1. m \in movements[s] /\ \A n \in movements[s] : n.row = m.row => n.id <= m.id
      BY <1>3, <1>4, <2>2
    <3>2. PICK x \in rows[s] : x.id = m.row /\ x.qty = m.after
      BY <3>1 DEF NewestMovementIsStock
    <3>3. QED
      BY <1>4, <2>2, <3>2
  <2>3. CASE s = t.sku /\ m.row = t.row
    <3>1. b \in movements'[s] /\ b.id <= m.id
      BY <1>3, <1>4, <2>3
    <3>2. m = b
      <4>1. \A n \in movements[s] : n.row = t.row => n.id < t.id /\ n.id \in Int
        BY <1>2, <2>3 DEF SaverIsNewest, t, StockTypeOK, Movement, Ids
      <4>2. QED
        BY <1>3, <1>4, <1>5, <2>3, <3>1, <4>1
    <3>3. QED
      BY <1>3, <1>4, <2>3, <3>2
  <2>4. QED
    BY <2>1, <2>2, <2>3
<1>11. QED
  BY <1>7, <1>8, <1>9, <1>10

\* Reading and giving up leave fewer savers; managing the rows keeps their
\* ids and quantities.
LEMMA LedgerRest ==
    ASSUME StockTypeOK, LedgerInv,
           MoveRead \/ MoveAbandon \/ ManageStep \/ UNCHANGED stockVars
    PROVE  LedgerInv'
<1> USE DEF LedgerInv
<1>1. CASE (MoveRead \/ MoveAbandon \/ UNCHANGED stockVars)
  <2>1. \A q \in Requests : IsSaved(q)' => IsSaved(q) /\ stx'[q] = stx[q]
    <3>1. CASE MoveRead
      BY <3>1 DEF MoveRead, ReadStock, IsSaved, StockTypeOK
    <3>2. CASE MoveAbandon
      BY <3>2 DEF MoveAbandon, IsSaved, Idle, StockTypeOK
    <3>3. CASE UNCHANGED stockVars
      BY <3>3 DEF stockVars, IsSaved
    <3>4. QED
      BY <1>1, <3>1, <3>2, <3>3
  <2>2. rows' = rows /\ movements' = movements
    BY <1>1 DEF MoveRead, MoveAbandon, stockVars
  <2>3. OneSaver'
    BY <2>1 DEF OneSaver
  <2>4. SaverIsNewest'
    BY <2>1, <2>2 DEF SaverIsNewest
  <2>5. MovementsHaveRows' /\ NewestMovementIsStock'
    BY <2>2 DEF MovementsHaveRows, NewestMovementIsStock
  <2>6. QED
    BY <2>3, <2>4, <2>5
<1>2. CASE ManageStep
  <2>1. movements' = movements /\ stx' = stx
    BY <1>2 DEF ManageStep, Update, ResolveAlert
  <2>2. \A s \in Skus : \A x \in rows[s] : \E y \in rows'[s] : y.id = x.id /\ y.qty = x.qty
    <3>1. CASE rows' = rows
      BY <3>1
    <3>2. CASE \E s \in Skus : \E row \in rows[s], threshold \in Thresholds :
                   Update(s, row, threshold)
      <4>1. PICK s \in Skus : \E row \in rows[s], threshold \in Thresholds :
                Update(s, row, threshold)
        BY <3>2
      <4>2. PICK row \in rows[s], threshold \in Thresholds : Update(s, row, threshold)
        BY <4>1
      <4> DEFINE new == [row EXCEPT !.safety = threshold]
      <4>3. new.id = row.id /\ new.qty = row.qty
        BY DEF StockTypeOK, InventoryRow
      <4> HIDE DEF new
      <4>4. /\ rows'[s] = (rows[s] \ {row}) \cup {new}
            /\ \A k \in Skus : k # s => rows'[k] = rows[k]
        BY <4>2 DEF Update, StockTypeOK, new
      <4>5. QED
        BY <4>3, <4>4
    <3>3. QED
      BY <1>2, <3>1, <3>2 DEF ManageStep, ResolveAlert
  <2>3. OneSaver' /\ SaverIsNewest'
    BY <2>1 DEF OneSaver, SaverIsNewest, IsSaved
  <2>4. MovementsHaveRows'
    BY <2>1, <2>2 DEF MovementsHaveRows
  <2>5. NewestMovementIsStock'
    <3> SUFFICES ASSUME NEW s \in Skus, NEW m \in movements[s],
                        \A n \in movements[s] : n.row = m.row => n.id <= m.id
                 PROVE  \E x \in rows'[s] : x.id = m.row /\ x.qty = m.after
      BY <2>1 DEF NewestMovementIsStock
    <3>1. PICK x \in rows[s] : x.id = m.row /\ x.qty = m.after
      BY DEF NewestMovementIsStock
    <3>2. QED
      BY <2>2, <3>1
  <2>6. QED
    BY <2>3, <2>4, <2>5
<1>3. QED
  BY <1>1, <1>2

\* Every stock move keeps the ledger invariant, and it holds at the start.
LEMMA LedgerStep == StockTypeOK /\ LedgerInv /\ StockMove => LedgerInv'
BY LedgerSave, LedgerCommit, LedgerRest DEF StockMove

LEMMA LedgerInit == StockInit => LedgerInv
<1> SUFFICES ASSUME StockInit PROVE LedgerInv
  OBVIOUS
<1>1. \A r \in Requests : ~IsSaved(r)
  BY DEF StockInit, IsSaved, Idle
<1>2. \A s \in Skus : \A m \in movements[s] : \E x \in rows[s] : x.id = m.row /\ x.qty = m.after
  BY SeedShape
<1>3. QED
  BY <1>1, <1>2 DEF LedgerInv, OneSaver, SaverIsNewest, MovementsHaveRows, NewestMovementIsStock

-----------------------------------------------------------------------------
(***************************************************************************)
(* Identifiers.  A table that counts its movements needs to know that each *)
(* commit adds one, so that the id a transaction holds is nobody else's.   *)
(***************************************************************************)

\* The movement id a transaction holds is not booked, and no other holds it.
SaverIdsFresh ==
    \A r \in Requests : IsSaved(r) =>
        /\ \A m \in movements[stx[r].sku] : m.id # stx[r].id
        /\ \A q \in Requests :
              IsSaved(q) /\ stx[q].sku = stx[r].sku /\ stx[q].id = stx[r].id => q = r

\* The primary key of the inventory rows.
RowIdsUnique == \A s \in Skus : \A x, y \in rows[s] : x.id = y.id => x = y

FiniteTables == \A s \in Skus : IsFiniteSet(rows[s]) /\ IsFiniteSet(movements[s])

BookingInv == SaverIdsFresh /\ RowIdsUnique /\ FiniteTables

\* A save takes a movement id above those booked and those held.
LEMMA BookingSave == StockTypeOK /\ BookingInv /\ MoveSave => BookingInv'
<1> SUFFICES ASSUME StockTypeOK, BookingInv, MoveSave PROVE BookingInv'
  OBVIOUS
<1>1. PICK r \in Requests : SaveStock(r)
  BY DEF MoveSave
<1> DEFINE t == Saved(stx[r])
           s == stx[r].sku
<1>2. t.sku = s /\ s \in Skus /\ t.id \in Int /\ \A i \in MovementIds(s) : i < t.id
  BY <1>1, SavedFields DEF ReadTx, SavedTx, Ids
<1>3. stx'[r] = t /\ \A q \in Requests : q # r => stx'[q] = stx[q]
  BY <1>1 DEF SaveStock, StockTypeOK
<1>4. rows' = rows /\ movements' = movements
  BY DEF MoveSave
<1>5. /\ \A m \in movements[s] : m.id \in MovementIds(s)
      /\ \A q \in Requests : IsSaved(q) /\ stx[q].sku = s => stx[q].id \in MovementIds(s)
  BY DEF MovementIds, Savers, IsSaved
<1> HIDE DEF t, s
<1>6. ASSUME NEW q \in Requests, IsSaved(q)' PROVE \A m \in movements[stx'[q].sku] : m.id # stx'[q].id
  <2>1. CASE q = r
    BY <1>2, <1>3, <1>5, <2>1
  <2>2. CASE q # r
    BY <1>3, <1>6, <2>2 DEF BookingInv, SaverIdsFresh, IsSaved
  <2>3. QED
    BY <2>1, <2>2
<1>7. ASSUME NEW p \in Requests, NEW q \in Requests, IsSaved(p)', IsSaved(q)',
             stx'[p].sku = stx'[q].sku, stx'[p].id = stx'[q].id
      PROVE  p = q
  <2>1. CASE p # r /\ q # r
    BY <1>3, <1>7, <2>1 DEF BookingInv, SaverIdsFresh, IsSaved
  <2>2. CASE p = r /\ q # r
    BY <1>2, <1>3, <1>5, <1>7, <2>2 DEF IsSaved
  <2>3. CASE p # r /\ q = r
    BY <1>2, <1>3, <1>5, <1>7, <2>3 DEF IsSaved
  <2>4. QED
    BY <2>1, <2>2, <2>3
<1>8. SaverIdsFresh'
  BY <1>4, <1>6, <1>7 DEF SaverIdsFresh
<1>9. QED
  BY <1>4, <1>8 DEF BookingInv, RowIdsUnique, FiniteTables

\* A commit books an id nobody else holds and replaces the row of its id.
LEMMA BookingCommit == StockTypeOK /\ BookingInv /\ MoveCommit => BookingInv'
<1> SUFFICES ASSUME StockTypeOK, BookingInv, MoveCommit PROVE BookingInv'
  OBVIOUS
<1>1. PICK r \in Requests : CommitStock(r)
  BY DEF MoveCommit
<1> DEFINE t == stx[r]
           b == Booking(t)
           x0 == SavedRow(t)
           others == {x \in rows[t.sku] : x.id # t.row}
<1>2. t \in SavedTx /\ IsSaved(r) /\ t.sku \in Skus
  BY <1>1 DEF CommitStock, StockTypeOK, Idle, ReadTx, SavedTx, IsSaved
<1>3. b.id = t.id /\ x0.id = t.row
  BY DEF Booking, SavedRow
<1>4. /\ stx'[r] = Idle /\ \A q \in Requests : q # r => stx'[q] = stx[q]
      /\ rows'[t.sku] = others \cup {x0}
      /\ movements'[t.sku] = movements[t.sku] \cup {b}
      /\ \A s \in Skus : s # t.sku => rows'[s] = rows[s] /\ movements'[s] = movements[s]
  BY <1>1, <1>2 DEF CommitStock, StockTypeOK, SavedTx
<1>5. \A q \in Requests : IsSaved(q)' =>
          q # r /\ IsSaved(q) /\ stx'[q] = stx[q] /\ stx[q].sku \in Skus
  BY <1>4 DEF IsSaved, Idle, StockTypeOK, ReadTx, SavedTx
<1>6. \A x \in others : x \in rows[t.sku] /\ x.id # t.row
  OBVIOUS
<1>7. IsFiniteSet(others \cup {x0}) /\ IsFiniteSet(movements[t.sku] \cup {b})
  <2>1. IsFiniteSet(rows[t.sku]) /\ IsFiniteSet(movements[t.sku]) /\ others \in SUBSET rows[t.sku]
    BY <1>2 DEF BookingInv, FiniteTables
  <2> HIDE DEF others, x0, b
  <2>2. IsFiniteSet(others)
    BY <2>1, FS_Subset
  <2>3. QED
    BY <2>1, <2>2, FS_AddElement
<1> HIDE DEF t, b, x0, others
<1>8. SaverIdsFresh'
  <2>1. ASSUME NEW q \in Requests, IsSaved(q)', NEW m \in movements'[stx[q].sku]
        PROVE  m.id # stx[q].id
    <3>1. m \in movements[stx[q].sku] \/ (m = b /\ stx[q].sku = t.sku)
      BY <1>4, <1>5, <2>1
    <3>2. QED
      BY <1>2, <1>3, <1>5, <2>1, <3>1 DEF BookingInv, SaverIdsFresh, t
  <2>2. QED
    BY <1>5, <2>1 DEF BookingInv, SaverIdsFresh
<1>9. RowIdsUnique'
  <2> SUFFICES ASSUME NEW s \in Skus, NEW x \in rows'[s], NEW y \in rows'[s], x.id = y.id
               PROVE  x = y
    BY DEF RowIdsUnique
  <2>1. CASE s # t.sku
    BY <1>4, <2>1 DEF BookingInv, RowIdsUnique
  <2>2. CASE s = t.sku
    BY <1>2, <1>3, <1>4, <1>6, <2>2 DEF BookingInv, RowIdsUnique
  <2>3. QED
    BY <2>1, <2>2
<1>10. FiniteTables'
  BY <1>4, <1>7 DEF BookingInv, FiniteTables
<1>11. QED
  BY <1>8, <1>9, <1>10 DEF BookingInv

\* An edited row keeps its id and its quantity.
LEMMA UpdateKeeps ==
    ASSUME StockTypeOK, NEW s \in Skus, NEW row \in rows[s], NEW threshold, Update(s, row, threshold)
    PROVE  \E new :
              /\ new.id = row.id /\ new.qty = row.qty
              /\ rows'[s] = (rows[s] \ {row}) \cup {new}
              /\ \A k \in Skus : k # s => rows'[k] = rows[k]
<1> DEFINE new == [row EXCEPT !.safety = threshold]
<1>1. new.id = row.id /\ new.qty = row.qty
  BY DEF StockTypeOK, InventoryRow
<1>2. rows'[s] = (rows[s] \ {row}) \cup {new} /\ \A k \in Skus : k # s => rows'[k] = rows[k]
  BY DEF Update, StockTypeOK
<1>3. QED
  BY <1>1, <1>2

\* Reading and giving up leave fewer ids held; managing the rows keeps theirs.
LEMMA BookingRest ==
    ASSUME StockTypeOK, BookingInv,
           MoveRead \/ MoveAbandon \/ ManageStep \/ UNCHANGED stockVars
    PROVE  BookingInv'
<1>1. CASE (MoveRead \/ MoveAbandon \/ UNCHANGED stockVars)
  <2>1. \A q \in Requests : IsSaved(q)' => IsSaved(q) /\ stx'[q] = stx[q]
    <3>1. CASE MoveRead
      BY <3>1 DEF MoveRead, ReadStock, IsSaved, StockTypeOK
    <3>2. CASE MoveAbandon
      BY <3>2 DEF MoveAbandon, IsSaved, Idle, StockTypeOK
    <3>3. CASE UNCHANGED stockVars
      BY <3>3 DEF stockVars, IsSaved
    <3>4. QED
      BY <1>1, <3>1, <3>2, <3>3
  <2>2. rows' = rows /\ movements' = movements
    BY <1>1 DEF MoveRead, MoveAbandon, stockVars
  <2>3. SaverIdsFresh'
    BY <2>1, <2>2 DEF BookingInv, SaverIdsFresh
  <2>4. QED
    BY <2>2, <2>3 DEF BookingInv, RowIdsUnique, FiniteTables
<1>2. CASE ManageStep
  <2>1. movements' = movements /\ stx' = stx
    BY <1>2 DEF ManageStep, Update, ResolveAlert
  <2>2. SaverIdsFresh'
    BY <2>1 DEF BookingInv, SaverIdsFresh, IsSaved
  <2>3. RowIdsUnique' /\ FiniteTables'
    <3>1. CASE rows' = rows
      BY <2>1, <3>1 DEF BookingInv, RowIdsUnique, FiniteTables
    <3>2. ASSUME NEW s \in Skus, NEW row \in rows[s], NEW threshold, Update(s, row, threshold)
          PROVE  RowIdsUnique' /\ FiniteTables'
      <4>1. PICK new :
                /\ new.id = row.id
                /\ rows'[s] = (rows[s] \ {row}) \cup {new}
                /\ \A k \in Skus : k # s => rows'[k] = rows[k]
        BY <3>2, UpdateKeeps
      <4>2. RowIdsUnique'
        BY <4>1 DEF BookingInv, RowIdsUnique
      <4>3. IsFiniteSet(rows'[s])
        <5>1. IsFiniteSet(rows[s]) /\ rows[s] \ {row} \in SUBSET rows[s]
          BY DEF BookingInv, FiniteTables
        <5>2. IsFiniteSet(rows[s] \ {row})
          BY <5>1, FS_Subset
        <5>3. QED
          BY <4>1, <5>2, FS_AddElement
      <4>4. QED
        BY <2>1, <4>1, <4>2, <4>3 DEF BookingInv, FiniteTables
    <3>3. QED
      BY <1>2, <3>1, <3>2 DEF ManageStep, ResolveAlert
  <2>4. QED
    BY <2>2, <2>3 DEF BookingInv
<1>3. QED
  BY <1>1, <1>2

\* Every stock move keeps the identifiers apart, and they are at the start.
LEMMA BookingStep == StockTypeOK /\ BookingInv /\ StockMove => BookingInv'
BY BookingSave, BookingCommit, BookingRest DEF StockMove

LEMMA BookingInit == StockInit => BookingInv
<1> SUFFICES ASSUME StockInit PROVE BookingInv
  OBVIOUS
<1>1. ASSUME NEW s \in Skus
      PROVE  /\ IsFiniteSet(rows[s]) /\ IsFiniteSet(movements[s])
             /\ \A x, y \in rows[s] : x = y
  <2>1. rows[s] = {} \/ \E x : rows[s] = {x}
    BY DEF StockInit
  <2>2. movements[s] = {SeedMovement(x) : x \in {y \in rows[s] : y.qty > 0}}
    BY DEF StockInit
  <2>3. movements[s] = {} \/ \E m : movements[s] = {m}
    BY <2>1, <2>2
  <2>4. IsFiniteSet(rows[s])
    BY <2>1, FS_EmptySet, FS_Singleton
  <2>5. IsFiniteSet(movements[s])
    BY <2>3, FS_EmptySet, FS_Singleton
  <2>6. QED
    BY <2>1, <2>4, <2>5
<1>2. \A r \in Requests : ~IsSaved(r)
  BY DEF StockInit, IsSaved, Idle
<1>3. QED
  BY <1>1, <1>2 DEF BookingInv, SaverIdsFresh, RowIdsUnique, FiniteTables

-----------------------------------------------------------------------------
(***************************************************************************)
(* One request at a time.  What the transaction has read is what the table *)
(* says, up to its commit: it books from the quantity the oldest row has,  *)
(* or starts the ledger of a row of its own.                               *)
(***************************************************************************)

\* The copy in memory is the oldest row of the table, or a zero row that is, or
\* will be, inserted with an id of its own.
CopyIsOldest(t) ==
    \E x \in rows[t.sku] :
        x.id = t.row /\ x.qty = t.before /\ \A y \in rows[t.sku] : x.id <= y.id

CopyIsNew(t) == IF t.pc = "read" THEN t.row = 0 ELSE \A y \in rows[t.sku] : y.id < t.row

CopyIsCurrent == \A r \in Requests : stx[r] # Idle => CopyIsOldest(stx[r]) \/ CopyIsNew(stx[r])

SerialInv == CopyIsCurrent /\ OldestRowMoves /\ LedgerContiguous

\* A commit that has read the latest quantity continues the ledger.
LEMMA SerialCommit ==
    ASSUME NEW only, Requests = {only}, StockTypeOK, LedgerInv, BookingInv, SerialInv, MoveCommit
    PROVE  SerialInv'
<1>1. CommitStock(only)
  BY DEF MoveCommit
<1> DEFINE t == stx[only]
           b == Booking(t)
           x0 == SavedRow(t)
           old == rows[t.sku]
<1>2. /\ t \in SavedTx /\ IsSaved(only) /\ t # Idle /\ t.sku \in Skus
      /\ t.id \in Int /\ t.row \in Int /\ t.pc = "saved"
  BY <1>1 DEF CommitStock, StockTypeOK, Idle, ReadTx, SavedTx, IsSaved, Ids
<1>3. b.id = t.id /\ b.row = t.row /\ b.before = t.before /\ x0.id = t.row
  BY DEF Booking, SavedRow
<1>4. /\ stx'[only] = Idle
      /\ rows'[t.sku] = {x \in old : x.id # t.row} \cup {x0}
      /\ movements'[t.sku] = movements[t.sku] \cup {b}
      /\ \A s \in Skus : s # t.sku => rows'[s] = rows[s] /\ movements'[s] = movements[s]
  BY <1>1, <1>2 DEF CommitStock, StockTypeOK, SavedTx
<1>5. CopyIsOldest(t) \/ \A y \in old : y.id < t.row
  BY <1>2 DEF SerialInv, CopyIsCurrent, CopyIsNew
<1>6. \A y \in old : y.id \in Int
  BY <1>2 DEF StockTypeOK, InventoryRow, Ids
<1>7. \A m \in movements[t.sku] : \E y \in old : y.id = m.row
  BY <1>2 DEF LedgerInv, MovementsHaveRows
<1> HIDE DEF t, b, x0, old
<1>8. CopyIsCurrent'
  BY <1>4 DEF CopyIsCurrent
<1>9. OldestRowMoves'
  <2> SUFFICES ASSUME NEW s \in Skus, NEW m \in movements'[s], NEW n \in movements'[s],
                      m # n, m.row = n.row, NEW x \in rows'[s]
               PROVE  m.row <= x.id
    BY DEF OldestRowMoves
  <2>1. CASE s # t.sku
    BY <1>4, <2>1 DEF SerialInv, OldestRowMoves
  <2>2. CASE s = t.sku /\ m.row = t.row
    <3>1. \E k \in movements[t.sku] : k.row = t.row
      BY <1>4, <2>2
    <3>2. CopyIsOldest(t)
      BY <1>2, <1>5, <1>6, <1>7, <3>1
    <3>3. \A y \in old : t.row <= y.id
      BY <3>2 DEF CopyIsOldest, old
    <3>4. QED
      BY <1>2, <1>3, <1>4, <2>2, <3>3
  <2>3. CASE s = t.sku /\ m.row # t.row
    <3>1. m \in movements[t.sku] /\ n \in movements[t.sku]
      BY <1>3, <1>4, <2>3
    <3>2. \A y \in old : m.row <= y.id
      BY <1>2, <3>1 DEF SerialInv, OldestRowMoves, old
    <3>3. PICK z \in old : z.id = m.row
      BY <1>7, <3>1
    <3>4. m.row <= t.row
      BY <1>2, <1>5, <1>6, <3>2, <3>3 DEF CopyIsOldest, old
    <3>5. QED
      BY <1>3, <1>4, <2>3, <3>2, <3>4
  <2>4. QED
    BY <2>1, <2>2, <2>3
<1>10. LedgerContiguous'
  <2> SUFFICES ASSUME NEW s \in Skus, NEW m \in movements'[s], NEW n \in movements'[s],
                      m.row = n.row, m.id < n.id,
                      ~ \E k \in movements'[s] : k.row = m.row /\ m.id < k.id /\ k.id < n.id
               PROVE  n.before = m.after
    BY DEF LedgerContiguous
  <2>1. CASE m \in movements[s] /\ n \in movements[s]
    <3>1. movements[s] \subseteq movements'[s]
      BY <1>2, <1>4
    <3>2. QED
      BY <2>1, <3>1 DEF SerialInv, LedgerContiguous
  <2>2. CASE m \in movements[s] /\ n = b /\ s = t.sku
    <3>1. \A k \in movements[s] : k.id \in Int /\ (k.row = t.row => k.id < t.id)
      BY <1>2, <2>2 DEF LedgerInv, SaverIsNewest, t, StockTypeOK, Movement, Ids
    <3>2. ASSUME NEW k \in movements[s], k.row = m.row PROVE k.id <= m.id
      BY <1>2, <1>3, <1>4, <2>2, <3>1, <3>2
    <3>3. PICK x \in rows[s] : x.id = m.row /\ x.qty = m.after
      BY <2>2, <3>2 DEF LedgerInv, NewestMovementIsStock
    <3>4. PICK z \in rows[s] : z.id = t.row /\ z.qty = t.before
      BY <1>2, <1>3, <1>5, <1>6, <2>2, <3>3 DEF CopyIsOldest, old
    <3>5. x = z
      BY <1>3, <2>2, <3>3, <3>4 DEF BookingInv, RowIdsUnique
    <3>6. QED
      BY <1>3, <2>2, <3>3, <3>4, <3>5
  <2>3. CASE m = b /\ s = t.sku
    <3>1. n.id <= t.id
      BY <1>2, <1>3, <1>4, <2>3 DEF LedgerInv, SaverIsNewest, t, StockTypeOK, Movement, Ids
    <3>2. n.id \in Int
      BY <1>2, <1>3, <1>4, <2>3 DEF StockTypeOK, Movement, Ids
    <3>3. QED
      BY <1>2, <1>3, <2>3, <3>1, <3>2
  <2>4. QED
    BY <1>2, <1>4, <2>1, <2>2, <2>3
<1>11. QED
  BY <1>8, <1>9, <1>10 DEF SerialInv

\* With one request no stock move spoils the copy, the row or the ledger.
LEMMA SerialStep ==
    ASSUME NEW only, Requests = {only}
    PROVE  StockTypeOK /\ LedgerInv /\ BookingInv /\ SerialInv /\ StockMove => SerialInv'
<1> SUFFICES ASSUME StockTypeOK, LedgerInv, BookingInv, SerialInv, StockMove PROVE SerialInv'
  OBVIOUS
<1>1. CASE MoveRead
  <2>1. PICK s \in Skus, ref \in Refs \cup {"adjust"}, delta \in Int :
            \E inv \in Lookup(s) : ReadStock(only, s, ref, inv, delta)
    BY <1>1 DEF MoveRead
  <2>. PICK inv \in Lookup(s) : ReadStock(only, s, ref, inv, delta)
    BY <2>1
  <2>2. /\ stx'[only].sku = s /\ stx'[only].pc = "read"
        /\ stx'[only].row = inv.id /\ stx'[only].before = inv.qty
    BY DEF ReadStock, StockTypeOK
  <2>3. rows' = rows /\ movements' = movements
    BY <1>1 DEF MoveRead
  <2>4. inv = NoRow \/ (inv \in rows[s] /\ \A y \in rows[s] : inv.id <= y.id)
    BY LookupIsRow
  <2>5. CopyIsCurrent'
    BY <2>2, <2>3, <2>4 DEF CopyIsCurrent, CopyIsOldest, CopyIsNew, NoRow
  <2>6. QED
    BY <2>3, <2>5 DEF SerialInv, OldestRowMoves, LedgerContiguous
<1>2. CASE MoveSave
  <2>1. SaveStock(only)
    BY <1>2 DEF MoveSave
  <2>2. stx[only] \in ReadTx /\ stx'[only] = Saved(stx[only])
    BY <2>1, SavedFields DEF SaveStock, StockTypeOK
  <2>3. /\ stx'[only].sku = stx[only].sku /\ stx'[only].pc = "saved"
        /\ stx'[only].before = stx[only].before
        /\ stx[only].row # 0 => stx'[only].row = stx[only].row
        /\ stx[only].row = 0 => \A i \in RowIds(stx[only].sku) : i < stx'[only].row
    BY <2>1, <2>2, SavedFields DEF Saved
  <2>4. rows' = rows /\ movements' = movements
    BY <1>2 DEF MoveSave
  <2>5. stx[only] # Idle /\ stx[only].pc = "read" /\ stx[only].sku \in Skus
    BY <2>2 DEF ReadTx, Idle
  <2>6. CopyIsCurrent'
    <3>1. \A x \in rows[stx[only].sku] : x.id # 0 /\ x.id \in RowIds(stx[only].sku)
      BY <2>5 DEF StockTypeOK, InventoryRow, Ids, RowIds
    <3>2. CASE stx[only].row = 0
      BY <2>3, <2>4, <3>1, <3>2 DEF CopyIsCurrent, CopyIsNew
    <3>3. CASE stx[only].row # 0
      <4>1. CopyIsOldest(stx[only])
        BY <2>5, <3>3 DEF SerialInv, CopyIsCurrent, CopyIsNew
      <4>2. CopyIsOldest(stx[only])'
        BY <2>3, <2>4, <3>3, <4>1 DEF CopyIsOldest
      <4>3. QED
        BY <4>2 DEF CopyIsCurrent
    <3>4. QED
      BY <3>2, <3>3
  <2>7. QED
    BY <2>4, <2>6 DEF SerialInv, OldestRowMoves, LedgerContiguous
<1>3. CASE MoveCommit
  BY <1>3, SerialCommit
<1>4. CASE MoveAbandon
  <2>1. stx'[only] = Idle /\ rows' = rows /\ movements' = movements
    BY <1>4 DEF MoveAbandon, StockTypeOK
  <2>2. QED
    BY <2>1 DEF SerialInv, CopyIsCurrent, OldestRowMoves, LedgerContiguous
<1>5. CASE ManageStep
  <2>1. movements' = movements /\ stx' = stx
    BY <1>5 DEF ManageStep, Update, ResolveAlert
  <2>2. CASE rows' = rows
    BY <2>1, <2>2 DEF SerialInv, CopyIsCurrent, CopyIsOldest, CopyIsNew, OldestRowMoves, LedgerContiguous
  <2>3. ASSUME NEW s \in Skus, NEW row \in rows[s], NEW threshold, Update(s, row, threshold)
        PROVE  SerialInv'
    <3>1. PICK new :
              /\ new.id = row.id /\ new.qty = row.qty
              /\ rows'[s] = (rows[s] \ {row}) \cup {new}
              /\ \A k \in Skus : k # s => rows'[k] = rows[k]
      BY <2>3, UpdateKeeps
    <3>2. ASSUME NEW k \in Skus
          PROVE  /\ \A y \in rows'[k] : \E x \in rows[k] : x.id = y.id /\ x.qty = y.qty
                 /\ \A x \in rows[k] : \E y \in rows'[k] : x.id = y.id /\ x.qty = y.qty
      BY <3>1
    <3>3. OldestRowMoves'
      BY <2>1, <3>2 DEF SerialInv, OldestRowMoves
    <3>4. CopyIsCurrent'
      <4> SUFFICES ASSUME stx[only] # Idle
                   PROVE  CopyIsOldest(stx[only])' \/ CopyIsNew(stx[only])'
        BY <2>1 DEF CopyIsCurrent
      <4>1. stx[only].sku \in Skus
        BY DEF StockTypeOK, ReadTx, SavedTx
      <4>2. CASE CopyIsOldest(stx[only])
        BY <2>1, <3>2, <4>1, <4>2 DEF CopyIsOldest
      <4>3. CASE CopyIsNew(stx[only])
        BY <2>1, <3>2, <4>1, <4>3 DEF CopyIsNew
      <4>4. QED
        BY <4>2, <4>3 DEF SerialInv, CopyIsCurrent
    <3>5. QED
      BY <2>1, <3>3, <3>4 DEF SerialInv, LedgerContiguous
  <2>4. QED
    BY <1>5, <2>2, <2>3 DEF ManageStep, ResolveAlert
<1>6. CASE UNCHANGED stockVars
  BY <1>6 DEF stockVars, SerialInv, CopyIsCurrent, CopyIsOldest, CopyIsNew, OldestRowMoves, LedgerContiguous
<1>7. QED
  BY <1>1, <1>2, <1>3, <1>4, <1>5, <1>6 DEF StockMove

\* The seed data has one row per SKU and at most one movement of it.
LEMMA SerialInit == StockInit => SerialInv
<1> SUFFICES ASSUME StockInit PROVE SerialInv
  OBVIOUS
<1>1. \A r \in Requests : stx[r] = Idle
  BY DEF StockInit
<1>2. ASSUME NEW s \in Skus, NEW m \in movements[s]
      PROVE  m.id = 1 /\ \A n \in movements[s] : m = n
  <2>1. rows[s] = {} \/ \E x : rows[s] = {x}
    BY DEF StockInit
  <2>2. movements[s] = {SeedMovement(x) : x \in {y \in rows[s] : y.qty > 0}}
    BY DEF StockInit
  <2>3. QED
    BY <1>2, <2>1, <2>2 DEF SeedMovement
<1>3. LedgerContiguous
  BY <1>2 DEF LedgerContiguous
<1>4. OldestRowMoves
  BY <1>2 DEF OldestRowMoves
<1>5. QED
  BY <1>1, <1>3, <1>4 DEF SerialInv, CopyIsCurrent

-----------------------------------------------------------------------------
(***************************************************************************)
(* The inventory handlers on their own.                                    *)
(***************************************************************************)

StockInv == StockTypeOK /\ NeverNegativeInv /\ LedgerInv /\ BookingInv

\* What the four arguments above add up to.
LEMMA StockInvInit == StockInit => StockInv
BY StockTypeInit, NeverNegativeInit, LedgerInit, BookingInit DEF StockInv

LEMMA StockInvStep == StockInv /\ StockMove => StockInv'
BY StockTypeStep, NeverNegativeStep, LedgerStep, BookingStep DEF StockInv

\* A step of an adjustment is a stock move; reading is one because the handler
\* has checked the result.
LEMMA AdjustStepMoves ==
    ASSUME StockTypeOK, NEW r \in Requests, AdjustStep(r)
    PROVE  StockMove
<1>1. ASSUME NEW s \in Skus, NEW type \in MovementTypes, NEW q \in Quantities,
             AdjustRead(r, s, type, q)
      PROVE  MoveRead
  <2>1. q \in Int
    BY InventoryAssumption
  <2>2. QED
    BY <1>1, <2>1 DEF AdjustRead, MoveRead
<1>2. CASE AdjustSave(r)
  BY <1>2 DEF AdjustSave, StockMove, MoveSave
<1>3. CASE AdjustCommit(r)
  <2>1. CommitStock(r) /\ stx[r].pc = "saved"
    BY <1>3 DEF AdjustCommit
  <2>2. alerts' \in [Skus -> Nat]
    BY <1>3 DEF AdjustCommit, StockTypeOK
  <2>3. QED
    BY <2>1, <2>2 DEF StockMove, MoveCommit
<1>4. CASE AdjustAbandon(r)
  BY <1>4 DEF AdjustAbandon, StockMove, MoveAbandon
<1>5. QED
  BY <1>1, <1>2, <1>3, <1>4 DEF AdjustStep, StockMove

\* The inductive invariant of the inventory handlers.
LEMMA StockInvariant == StockSpec => []StockInv
<1>1. StockInv /\ [StockNext]_stockVars => StockInv'
  BY AdjustStepMoves, StockInvStep DEF StockNext, StockMove, StockInv
<1>2. QED
  BY <1>1, StockInvInit, PTL DEF StockSpec

\* And what it is extended by when requests do not overlap.
LEMMA SerialInvariant ==
    ASSUME NEW only, Requests = {only}
    PROVE  StockSpec => []SerialInv
<1>1. StockInv /\ SerialInv /\ [StockNext]_stockVars => SerialInv'
  BY AdjustStepMoves, SerialStep DEF StockNext, StockMove, StockInv
<1>2. StockSpec => StockInit /\ [][StockNext]_stockVars
  BY DEF StockSpec
<1>3. QED
  BY <1>1, <1>2, SerialInit, StockInvariant, PTL

\* No interleaving of adjustments makes the stock negative, whatever the
\* number of requests, SKUs and quantities.
THEOREM InventoryNeverNegative == StockSpec => []StockNeverNegative
<1>1. StockInv => StockNeverNegative
  BY DEF StockInv, NeverNegativeInv
<1>2. QED
  BY <1>1, StockInvariant, PTL

\* The newest movement of a row states its quantity, although adjustments lose
\* each other's updates.
THEOREM InventoryNewestMovement == StockSpec => []NewestMovementIsStock
<1>1. StockInv => NewestMovementIsStock
  BY DEF StockInv, LedgerInv
<1>2. QED
  BY <1>1, StockInvariant, PTL

\* Adjusted by one request at a time, only the oldest row of a SKU ever moves a
\* second time, although a failed lookup may insert others beside it.
THEOREM SerialOldestRow ==
    ASSUME NEW only, Requests = {only}
    PROVE  StockSpec => []OldestRowMoves
BY SerialInvariant, PTL DEF SerialInv

\* Adjusted by one request at a time, the ledger is contiguous: every movement
\* starts from the quantity the one before it left.  (With two, the run
\* adjust_lost_update shows that it is not.)
THEOREM SerialLedger ==
    ASSUME NEW only, Requests = {only}
    PROVE  StockSpec => []LedgerContiguous
BY SerialInvariant, PTL DEF SerialInv

=============================================================================
