-------------------------- MODULE StockAlertsProofs --------------------------
(***************************************************************************)
(* Proofs about StockAlerts, for any sets of scans, users and SKUs, any    *)
(* stock and any bounds.                                                   *)
(***************************************************************************)
EXTENDS StockAlerts, InventoryProofs

\* The stock tables and the tables the scans write.
ScansOK ==
    /\ scan \in [Scanners -> Scan]
    /\ raised \in [Skus -> Nat]
    /\ unread \in [Users -> [Skus -> Nat]]
    /\ managers \subseteq Users
    /\ supplied \subseteq Skus
    /\ blind \in [Scanners -> SUBSET Skus]
    /\ misreads \in Nat
    /\ miscounts \in [Skus -> Nat]

\* The rows scan a has still to work on.
Ahead(a) == IF scan[a].pc \in {"loaded", "raising"} THEN scan[a].todo ELSE {}

-----------------------------------------------------------------------------
(***************************************************************************)
(* Types.                                                                  *)
(***************************************************************************)

\* A scan that is not idle has rows to do, and more from stage to stage.
LEMMA ScanFields ==
    ASSUME ScansOK, NEW a \in Scanners
    PROVE  /\ scan[a].pc = "listed" => scan[a].todo \subseteq RowRef
           /\ scan[a].pc \in {"loaded", "raising"} =>
                 scan[a].todo \subseteq RowRef /\ scan[a].users \subseteq Users
           /\ scan[a].pc = "raising" => scan[a].row \in RowRef
BY DEF ScansOK, Scan, Idle

\* Whatever the count of the pending alerts says, the transaction begins with it.
LEMMA TriggerCounts ==
    ASSUME NEW a, NEW s, Trigger(a, s) \/ TriggerMiscount(a, s)
    PROVE  \E pending \in BOOLEAN : TriggerCounted(a, s, pending)
<1>1. ASSUME Trigger(a, s) PROVE \E pending \in BOOLEAN : TriggerCounted(a, s, pending)
  <2>1. (alerts[s] > 0) \in BOOLEAN
    BY SMT
  <2>2. TriggerCounted(a, s, alerts[s] > 0)
    BY <1>1 DEF Trigger
  <2>3. QED
    BY <2>1, <2>2, Zenon
<1>2. ASSUME TriggerMiscount(a, s) PROVE \E pending \in BOOLEAN : TriggerCounted(a, s, pending)
  BY <1>2, Zenon DEF TriggerMiscount
<1>3. QED
  BY <1>1, <1>2

\* What is left after a row, or after loading, is a scan again.
LEMMA OnwardTypes ==
    ASSUME NEW todo, todo \subseteq RowRef, NEW users, users \subseteq Users
    PROVE  Onward(todo, users) \in Scan
BY DEF Onward, Scan, Idle

\* One more message about SKU s for some of the users.
LEMMA TellTypes ==
    ASSUME unread \in [Users -> [Skus -> Nat]], NEW s \in Skus, NEW U
    PROVE  [u \in Users |-> IF u \in U THEN [unread[u] EXCEPT ![s] = @ + 1] ELSE unread[u]]
               \in [Users -> [Skus -> Nat]]
<1>1. ASSUME NEW u \in Users PROVE [unread[u] EXCEPT ![s] = @ + 1] \in [Skus -> Nat]
  OBVIOUS
<1>2. QED
  BY <1>1

\* No step of a scan breaks a type.
LEMMA ScanTypes ==
    ASSUME TypeOK, NEW a \in Scanners, ScanStep(a)
    PROVE  TypeOK'
<1> USE DEF TypeOK
<1>0. ScansOK
  BY DEF ScansOK
<1>1. CASE ListLow(a)
  <2>1. [pc |-> "listed", todo |-> Low] \in Scan
    BY DEF Scan, Low
  <2>2. QED
    BY <1>1, <2>1 DEF ListLow, stockVars, StockTypeOK
<1>2. ASSUME NEW known, NEW users, users \subseteq Users, Load(a, known, users)
      PROVE  /\ scan' \in [Scanners -> Scan]
             /\ UNCHANGED <<stockVars, raised, unread, managers, supplied, miscounts>>
  <2> DEFINE todo == {x \in scan[a].todo : x.sku \notin known /\ x.sku \in supplied}
  <2>1. todo \subseteq RowRef
    BY <1>0, <1>2, ScanFields DEF Load
  <2>2. Onward(todo, users) \in Scan
    BY <1>2, <2>1, OnwardTypes
  <2>3. QED
    BY <1>2, <2>2 DEF Load
<1>3. CASE ScanLoad(a)
  <2>1. Load(a, Unread, managers)
    BY <1>3 DEF ScanLoad
  <2>2. QED
    BY <1>2, <1>3, <2>1 DEF ScanLoad, stockVars, StockTypeOK
<1>4. CASE ScanMisload(a)
  <2>1. \/ Load(a, Unread, {})
        \/ \E users \in {managers, {}} : Load(a, {}, users)
    BY <1>4 DEF ScanMisload
  <2>2. blind' \in [Scanners -> SUBSET Skus] /\ misreads' \in Nat
    BY <1>4 DEF ScanMisload, Unread
  <2>3. /\ scan' \in [Scanners -> Scan]
        /\ UNCHANGED <<stockVars, raised, unread, managers, supplied, miscounts>>
    BY <1>2, <2>1
  <2>4. QED
    BY <2>2, <2>3 DEF stockVars, StockTypeOK
<1>5. ASSUME NEW s \in Skus, NEW pending \in BOOLEAN, TriggerCounted(a, s, pending),
             miscounts' \in [Skus -> Nat]
      PROVE  TypeOK'
  <2>1. PICK x \in scan[a].todo :
            scan' = [scan EXCEPT ![a] =
                [pc |-> "raising", todo |-> scan[a].todo, users |-> scan[a].users,
                 row |-> x, alerted |-> pending]]
    BY <1>5 DEF TriggerCounted
  <2>2. [pc |-> "raising", todo |-> scan[a].todo, users |-> scan[a].users,
         row |-> x, alerted |-> pending] \in Scan
    BY <1>0, <1>5, ScanFields DEF TriggerCounted, Scan
  <2>3. QED
    BY <1>5, <2>1, <2>2 DEF TriggerCounted, stockVars, StockTypeOK
<1>t. ASSUME NEW s \in Skus, Trigger(a, s) \/ TriggerMiscount(a, s) PROVE TypeOK'
  <2>1. miscounts' = miscounts \/ miscounts' = [miscounts EXCEPT ![s] = @ + 1]
    BY <1>t, Zenon DEF Trigger, TriggerMiscount
  <2>2. miscounts' \in [Skus -> Nat]
    BY <2>1
  <2>3. QED
    BY <1>5, <1>t, <2>2, TriggerCounts, Zenon
<1>6. ASSUME NEW s \in Skus, TriggerCommit(a, s) PROVE TypeOK'
  <2>1. Onward(scan[a].todo \ {scan[a].row}, scan[a].users) \in Scan
    BY <1>0, <1>6, ScanFields, OnwardTypes DEF TriggerCommit, Raising
  <2>2. scan' \in [Scanners -> Scan]
    BY <1>6, <2>1 DEF TriggerCommit
  <2>3. unread' \in [Users -> [Skus -> Nat]]
    BY <1>6, TellTypes DEF TriggerCommit
  <2>4. raised' \in [Skus -> Nat] /\ blind' \in [Scanners -> SUBSET Skus]
    BY <1>6 DEF TriggerCommit
  <2>5. alerts' \in [Skus -> Nat]
    BY <1>6 DEF TriggerCommit, StockTypeOK
  <2>6. QED
    BY <1>6, <2>2, <2>3, <2>4, <2>5 DEF TriggerCommit, StockTypeOK
<1>7. CASE TriggerFail(a)
  <2>1. Onward(scan[a].todo \ {scan[a].row}, scan[a].users) \in Scan
    BY <1>0, <1>7, ScanFields, OnwardTypes DEF TriggerFail
  <2>2. QED
    BY <1>7, <2>1 DEF TriggerFail, stockVars, StockTypeOK
<1>8. CASE ScanEnd(a)
  <2>1. Idle \in Scan
    BY DEF Scan
  <2>2. QED
    BY <1>8, <2>1 DEF ScanEnd, stockVars, StockTypeOK
<1>9. QED
  BY <1>1, <1>3, <1>4, <1>t, <1>6, <1>7, <1>8 DEF ScanStep

\* Nor does reading a message.
LEMMA ReadTypes ==
    ASSUME TypeOK, NEW u \in Users, (\E s \in Skus : MarkRead(u, s)) \/ MarkAllRead(u)
    PROVE  TypeOK'
<1> USE DEF TypeOK
<1>1. unread[u] \in [Skus -> Nat]
  OBVIOUS
<1>2. ASSUME NEW s \in Skus, MarkRead(u, s) PROVE TypeOK'
  <2>1. unread[u][s] - 1 \in Nat
    BY <1>1, <1>2 DEF MarkRead
  <2>2. [unread[u] EXCEPT ![s] = @ - 1] \in [Skus -> Nat]
    BY <1>1, <2>1
  <2>3. unread' = [unread EXCEPT ![u] = [unread[u] EXCEPT ![s] = @ - 1]]
    BY <1>2 DEF MarkRead
  <2>4. unread' \in [Users -> [Skus -> Nat]]
    BY <2>2, <2>3
  <2>5. QED
    BY <1>2, <2>4 DEF MarkRead, stockVars, StockTypeOK
<1>3. CASE MarkAllRead(u)
  BY <1>3 DEF MarkAllRead, stockVars, StockTypeOK
<1>4. QED
  BY <1>2, <1>3

\* Every step keeps the types; the stock tables are Inventory's business.
LEMMA AlertsTypeStep == TypeOK /\ [Next]_vars => TypeOK'
<1> SUFFICES ASSUME TypeOK, [Next]_vars PROVE TypeOK'
  OBVIOUS
<1>1. ASSUME NEW u \in Users, UpdateUser(u) PROVE TypeOK'
  BY <1>1 DEF UpdateUser, TypeOK, stockVars, StockTypeOK
<1>2. CASE StockNext /\ UNCHANGED alertVars
  <2>1. StockMove
    BY <1>2, AdjustStepMoves DEF StockNext, StockMove, TypeOK
  <2>2. StockTypeOK'
    BY <2>1, StockTypeStep DEF TypeOK
  <2>3. QED
    BY <1>2, <2>2 DEF TypeOK, alertVars
<1>3. CASE UNCHANGED vars
  BY <1>3 DEF vars, stockVars, alertVars, TypeOK, StockTypeOK
<1>4. QED
  BY <1>1, <1>2, <1>3, ScanTypes, ReadTypes DEF Next, ReadStep

\* Nothing has happened yet.
LEMMA AlertsTypeInit == Init => TypeOK
BY StockTypeInit DEF Init, ScanInit, TypeOK, Scan

\* Every reachable state of scans, messages and stock is well typed: CheckAndTrigger
\* next to adjustments and readers.
THEOREM AlertsTypes == Spec => []TypeOK
BY AlertsTypeInit, AlertsTypeStep, PTL DEF Spec

-----------------------------------------------------------------------------
(***************************************************************************)
(* Deduplication.                                                          *)
(***************************************************************************)

\* What a scan still works on it believes to be unread nowhere; where it is
\* wrong, it is blind.  The row of an open transaction is one of them.
BlindInv ==
    \A a \in Scanners :
        /\ scan[a].pc = "raising" => scan[a].row \in scan[a].todo
        /\ \A x \in Ahead(a) : Told(x.sku) => x.sku \in blind[a]

\* A step that adds neither rows to a scan nor messages keeps the invariant.
LEMMA QuietScans ==
    ASSUME BlindInv, blind' = blind,
           \A b \in Scanners : Ahead(b)' \subseteq Ahead(b),
           \A b \in Scanners : (scan[b].pc = "raising")' => (scan[b].row \in scan[b].todo)',
           \A s : Told(s)' => Told(s)
    PROVE  BlindInv'
BY DEF BlindInv

\* The scans a step of scan a leaves alone, and what is left for a itself.
LEMMA OnwardAhead ==
    ASSUME ScansOK, NEW a \in Scanners, NEW todo, NEW users,
           scan' = [scan EXCEPT ![a] = Onward(todo, users)]
    PROVE  /\ Ahead(a)' = todo
           /\ scan'[a].pc # "raising"
           /\ \A b \in Scanners \ {a} : scan'[b] = scan[b] /\ Ahead(b)' = Ahead(b)
BY DEF ScansOK, Ahead, Onward, Idle

\* Loading leaves the rows of SKUs that are not unread, or are in the blind spot.
LEMMA LoadBlind ==
    ASSUME TypeOK, BlindInv, NEW a \in Scanners, ScanLoad(a) \/ ScanMisload(a)
    PROVE  BlindInv'
<1>0. ScansOK
  BY DEF TypeOK, ScansOK
<1>1. ASSUME NEW known, NEW users, Load(a, known, users),
             \A s \in Unread : s \in known \/ s \in blind'[a],
             \A b \in Scanners \ {a} : blind'[b] = blind[b]
      PROVE  BlindInv'
  <2> DEFINE todo == {x \in scan[a].todo : x.sku \notin known /\ x.sku \in supplied}
  <2>1. scan' = [scan EXCEPT ![a] = Onward(todo, users)] /\ unread' = unread
    BY <1>1 DEF Load
  <2>2. /\ Ahead(a)' = todo
        /\ scan'[a].pc # "raising"
        /\ \A b \in Scanners \ {a} : scan'[b] = scan[b] /\ Ahead(b)' = Ahead(b)
    BY <1>0, <2>1, OnwardAhead
  <2>3. ASSUME NEW x \in todo, Told(x.sku)' PROVE x.sku \in blind'[a]
    <3>1. x.sku \in Skus
      BY <1>0, <1>1, ScanFields DEF Load, RowRef
    <3>2. x.sku \in Unread
      BY <2>1, <2>3, <3>1 DEF Told, Unread
    <3>3. QED
      BY <1>1, <3>2
  <2>4. \A b \in Scanners \ {a} : \A x \in Ahead(b)' : Told(x.sku)' => x.sku \in blind'[b]
    BY <1>1, <2>1, <2>2 DEF BlindInv, Told
  <2>5. QED
    BY <2>2, <2>3, <2>4 DEF BlindInv
<1>2. CASE ScanLoad(a)
  BY <1>1, <1>2 DEF ScanLoad, TypeOK
<1>3. CASE Load(a, Unread, {}) /\ blind' = [blind EXCEPT ![a] = {}]
  BY <1>1, <1>3 DEF TypeOK
<1>4. ASSUME NEW users, Load(a, {}, users), blind' = [blind EXCEPT ![a] = Unread]
      PROVE  BlindInv'
  <2>1. blind'[a] = Unread /\ \A b \in Scanners \ {a} : blind'[b] = blind[b]
    BY <1>4 DEF TypeOK
  <2>2. QED
    BY <1>1, <1>4, <2>1
<1>5. QED
  BY <1>2, <1>3, <1>4 DEF ScanMisload

\* The messages a transaction writes are in the blind spot of every scan that
\* has loaded its own before.
LEMMA CommitBlind ==
    ASSUME TypeOK, BlindInv, NEW a \in Scanners, NEW s \in Skus, TriggerCommit(a, s)
    PROVE  BlindInv'
<1> DEFINE users == scan[a].users
<1>0. ScansOK
  BY DEF TypeOK, ScansOK
<1>1. /\ Ahead(a)' = scan[a].todo \ {scan[a].row}
      /\ scan'[a].pc # "raising"
      /\ \A b \in Scanners \ {a} : scan'[b] = scan[b] /\ Ahead(b)' = Ahead(b)
  BY <1>0, OnwardAhead DEF TriggerCommit
<1>2. \A b \in Scanners : Ahead(b)' \subseteq Ahead(b)
  BY <1>1 DEF Ahead, TriggerCommit, Raising
<1>3. ASSUME NEW k, Told(k)' PROVE Told(k) \/ (k = s /\ users # {})
  <2>1. PICK u \in Users : unread'[u][k] > 0
    BY <1>3 DEF Told
  <2>2. unread'[u] = IF u \in users THEN [unread[u] EXCEPT ![s] = @ + 1] ELSE unread[u]
    BY DEF TriggerCommit
  <2>3. CASE u \in users /\ k = s
    BY <2>3
  <2>4. CASE u \notin users \/ k # s
    <3>1. unread'[u][k] = unread[u][k]
      BY <2>2, <2>4 DEF TypeOK
    <3>2. QED
      BY <2>1, <3>1 DEF Told
  <2>5. QED
    BY <2>3, <2>4
<1>4. ASSUME NEW b \in Scanners, NEW x \in Ahead(b)', Told(x.sku)'
      PROVE  x.sku \in blind'[b]
  <2>1. x \in Ahead(b)
    BY <1>2
  <2>2. scan[b].pc \in {"loaded", "raising"}
    BY <2>1 DEF Ahead
  <2>3. blind'[b] = IF users # {} THEN blind[b] \cup {s} ELSE blind[b]
    BY <2>2 DEF TriggerCommit
  <2>4. CASE Told(x.sku)
    BY <2>1, <2>3, <2>4 DEF BlindInv
  <2>5. CASE x.sku = s /\ users # {}
    BY <2>3, <2>5
  <2>6. QED
    BY <1>3, <1>4, <2>4, <2>5
<1>5. QED
  BY <1>1, <1>4 DEF BlindInv

\* The invariant is inductive.
LEMMA BlindStep == TypeOK /\ BlindInv /\ [Next]_vars => BlindInv'
<1> SUFFICES ASSUME TypeOK, BlindInv, [Next]_vars PROVE BlindInv'
  OBVIOUS
<1>0. ScansOK
  BY DEF TypeOK, ScansOK
<1>1. ASSUME NEW a \in Scanners, ListLow(a) \/ ScanEnd(a) PROVE BlindInv'
  <2>1. /\ Ahead(a)' = {} /\ scan'[a].pc # "raising"
        /\ \A b \in Scanners \ {a} : scan'[b] = scan[b] /\ Ahead(b)' = Ahead(b)
    BY <1>0, <1>1 DEF ListLow, ScanEnd, Ahead, ScansOK, Idle
  <2>2. blind' = blind /\ unread' = unread
    BY <1>1 DEF ListLow, ScanEnd
  <2>3. QED
    BY <2>1, <2>2, QuietScans DEF BlindInv, Told
<1>2. ASSUME NEW a \in Scanners, NEW s \in Skus, NEW pending \in BOOLEAN,
             TriggerCounted(a, s, pending)
      PROVE  BlindInv'
  <2>1. /\ Ahead(a)' = Ahead(a)
        /\ (scan[a].row \in scan[a].todo)'
        /\ \A b \in Scanners \ {a} : scan'[b] = scan[b] /\ Ahead(b)' = Ahead(b)
    BY <1>0, <1>2 DEF TriggerCounted, Ahead, ScansOK
  <2>2. blind' = blind /\ unread' = unread
    BY <1>2 DEF TriggerCounted
  <2>3. QED
    BY <2>1, <2>2, QuietScans DEF BlindInv, Told
<1>3. ASSUME NEW a \in Scanners, TriggerFail(a) PROVE BlindInv'
  <2>1. /\ Ahead(a)' = scan[a].todo \ {scan[a].row}
        /\ scan'[a].pc # "raising"
        /\ \A b \in Scanners \ {a} : scan'[b] = scan[b] /\ Ahead(b)' = Ahead(b)
    BY <1>0, <1>3, OnwardAhead DEF TriggerFail
  <2>2. Ahead(a) = scan[a].todo
    BY <1>3 DEF TriggerFail, Ahead
  <2>3. blind' = blind /\ unread' = unread
    BY <1>3 DEF TriggerFail
  <2>4. QED
    BY <2>1, <2>2, <2>3, QuietScans DEF BlindInv, Told
<1>4. ASSUME scan' = scan, blind' = blind, \A s : Told(s)' => Told(s) PROVE BlindInv'
  BY <1>4, QuietScans DEF BlindInv, Ahead
<1>5. CASE ReadStep
  <2>1. ASSUME NEW u \in Users, NEW s \in Skus, MarkRead(u, s), NEW k, Told(k)' PROVE Told(k)
    <3>1. PICK v \in Users : unread'[v][k] > 0
      BY <2>1 DEF Told
    <3>2. unread'[v][k] = unread[v][k] \/ (v = u /\ k = s)
      BY <2>1 DEF MarkRead, TypeOK
    <3>3. QED
      BY <2>1, <3>1, <3>2 DEF MarkRead, Told
  <2>2. ASSUME NEW u \in Users, MarkAllRead(u), NEW k \in Skus, Told(k)' PROVE Told(k)
    <3>1. PICK v \in Users : unread'[v][k] > 0
      BY <2>2 DEF Told
    <3>2. unread'[v][k] = IF v = u THEN 0 ELSE unread[v][k]
      BY <2>2 DEF MarkAllRead, TypeOK
    <3>3. QED
      BY <3>1, <3>2 DEF Told
  <2>3. scan' = scan /\ blind' = blind
    BY <1>5 DEF ReadStep, MarkRead, MarkAllRead
  <2>4. ASSUME NEW u \in Users, MarkAllRead(u) PROVE BlindInv'
    <3>1. ASSUME NEW b \in Scanners, NEW x \in Ahead(b)' PROVE x \in Ahead(b) /\ x.sku \in Skus
      BY <1>0, <2>3, <3>1, ScanFields DEF Ahead, RowRef
    <3>2. QED
      BY <2>2, <2>3, <2>4, <3>1 DEF BlindInv
  <2>5. QED
    BY <1>4, <1>5, <2>1, <2>3, <2>4 DEF ReadStep
<1>6. CASE \E u \in Users : UpdateUser(u)
  BY <1>4, <1>6 DEF UpdateUser, Told
<1>7. CASE UNCHANGED alertVars
  BY <1>4, <1>7 DEF alertVars, Told
<1>8. QED
  BY <1>1, <1>2, <1>3, <1>5, <1>6, <1>7, LoadBlind, CommitBlind, TriggerCounts
     DEF Next, ScanStep, vars

\* No order is raised for a SKU with an unread message, unless the scan could
\* not have read that message when it loaded them (CheckAndTrigger): for any
\* number of scans, whenever they start and whatever is read meanwhile.
THEOREM AlertsRaisedOnlyUnseen == Spec => RaisedOnlyUnseen
<1> DEFINE Excused ==
        \A a \in Scanners, s \in Skus : TriggerCommit(a, s) /\ Told(s) => s \in blind[a]
<1>1. BlindInv => Excused
  <2> SUFFICES ASSUME BlindInv, NEW a \in Scanners, NEW s \in Skus, TriggerCommit(a, s), Told(s)
               PROVE  s \in blind[a]
    OBVIOUS
  <2>1. scan[a].row \in Ahead(a) /\ scan[a].row.sku = s
    BY DEF BlindInv, Ahead, TriggerCommit, Raising
  <2>2. QED
    BY <2>1 DEF BlindInv
<1>2. BlindInv /\ [Next]_vars => [Excused]_vars
  BY <1>1
<1>3. Init => BlindInv
  BY DEF Init, ScanInit, BlindInv, Ahead, Idle
<1>4. QED
  BY <1>2, <1>3, AlertsTypeInit, AlertsTypeStep, BlindStep, PTL DEF Spec, RaisedOnlyUnseen

-----------------------------------------------------------------------------
(***************************************************************************)
(* Messages and orders.                                                    *)
(***************************************************************************)

\* The transaction that writes the messages writes the order.
LEMMA MessagesStep == TypeOK /\ MessagesHaveOrders /\ [Next]_vars => MessagesHaveOrders'
<1> SUFFICES ASSUME TypeOK, MessagesHaveOrders, [Next]_vars PROVE MessagesHaveOrders'
  OBVIOUS
<1> USE DEF TypeOK, MessagesHaveOrders
<1>1. ASSUME NEW a \in Scanners, NEW s \in Skus, TriggerCommit(a, s) PROVE MessagesHaveOrders'
  <2> SUFFICES ASSUME NEW u \in Users, NEW k \in Skus PROVE unread'[u][k] <= raised'[k]
    OBVIOUS
  <2>1. unread'[u][k] = IF u \in scan[a].users /\ k = s THEN unread[u][k] + 1 ELSE unread[u][k]
    BY <1>1 DEF TriggerCommit
  <2>2. raised'[k] = IF k = s THEN raised[k] + 1 ELSE raised[k]
    BY <1>1 DEF TriggerCommit
  <2>3. unread[u][k] \in Nat /\ raised[k] \in Nat
    OBVIOUS
  <2>4. QED
    BY <2>1, <2>2, <2>3
<1>2. ASSUME NEW u \in Users, NEW s \in Skus, MarkRead(u, s) PROVE MessagesHaveOrders'
  <2> SUFFICES ASSUME NEW v \in Users, NEW k \in Skus PROVE unread'[v][k] <= raised'[k]
    OBVIOUS
  <2>1. unread'[v][k] = IF v = u /\ k = s THEN unread[v][k] - 1 ELSE unread[v][k]
    BY <1>2 DEF MarkRead
  <2>2. raised' = raised /\ unread[v][k] \in Nat /\ raised[k] \in Nat
    BY <1>2 DEF MarkRead
  <2>3. QED
    BY <2>1, <2>2
<1>3. ASSUME NEW u \in Users, MarkAllRead(u) PROVE MessagesHaveOrders'
  BY <1>3 DEF MarkAllRead
<1>4. CASE UNCHANGED <<unread, raised>>
  BY <1>4
<1>5. ASSUME NEW a \in Scanners, ScanStep(a) PROVE MessagesHaveOrders'
  <2>1. ASSUME NEW s \in Skus, Trigger(a, s) \/ TriggerMiscount(a, s)
        PROVE  UNCHANGED <<unread, raised>>
    BY <2>1, TriggerCounts DEF TriggerCounted
  <2>2. ScanLoad(a) \/ ScanMisload(a) => UNCHANGED <<unread, raised>>
    BY DEF ScanLoad, ScanMisload, Load
  <2>3. ListLow(a) \/ TriggerFail(a) \/ ScanEnd(a) => UNCHANGED <<unread, raised>>
    BY DEF ListLow, TriggerFail, ScanEnd
  <2>4. QED
    BY <1>1, <1>4, <1>5, <2>1, <2>2, <2>3 DEF ScanStep
<1>6. (\E u \in Users : UpdateUser(u)) \/ UNCHANGED alertVars => UNCHANGED <<unread, raised>>
  BY DEF UpdateUser, alertVars
<1>7. QED
  BY <1>2, <1>3, <1>4, <1>5, <1>6 DEF Next, ReadStep, vars

\* Nobody has more unread messages about a SKU than orders were raised for it
\* (triggerOne writes both or neither).
THEOREM AlertsMessagesHaveOrders == Spec => []MessagesHaveOrders
<1>1. Init => MessagesHaveOrders
  BY DEF Init, ScanInit, MessagesHaveOrders
<1>2. QED
  BY <1>1, AlertsTypeInit, AlertsTypeStep, MessagesStep, PTL DEF Spec

-----------------------------------------------------------------------------
(***************************************************************************)
(* Pending alerts.  A transaction that saw none pending will add one,      *)
(* whatever the others add meanwhile; but there are no more of them than   *)
(* scans, and a new one only while nothing is pending, or the count of     *)
(* what is pending failed, which is counted.                               *)
(***************************************************************************)

\* The scans whose transaction will add an alert of SKU s when it commits.
Owing(s) == {a \in Scanners : Raising(a, s) /\ ~scan[a].alerted}

Adjustments(s) == {m \in movements[s] : m.ref = "adjust"}

PendingInv ==
    \A s \in Skus :
        alerts[s] + Cardinality(Owing(s))
            <= Cardinality(Scanners) + miscounts[s] + Cardinality(Adjustments(s))

\* Both counts are of finite sets.
LEMMA PendingCounts ==
    ASSUME FiniteTables, NEW s \in Skus
    PROVE  /\ IsFiniteSet(Owing(s)) /\ Cardinality(Owing(s)) \in Nat
           /\ Cardinality(Owing(s)) <= Cardinality(Scanners)
           /\ Cardinality(Scanners) \in Nat /\ Cardinality(Scanners) >= 1
           /\ IsFiniteSet(Adjustments(s)) /\ Cardinality(Adjustments(s)) \in Nat
<1>1. IsFiniteSet(Scanners) /\ Owing(s) \in SUBSET Scanners
  BY AlertsAssumption DEF Owing
<1>2. IsFiniteSet(movements[s]) /\ Adjustments(s) \in SUBSET movements[s]
  BY DEF FiniteTables, Adjustments
<1>3. IsFiniteSet(Owing(s)) /\ Cardinality(Owing(s)) <= Cardinality(Scanners)
  BY <1>1, FS_Subset
<1>4. IsFiniteSet(Adjustments(s))
  BY <1>2, FS_Subset
<1>5. Cardinality(Scanners) \in Nat /\ Cardinality(Owing(s)) \in Nat
  BY <1>1, <1>3, FS_CardinalityType
<1>6. Cardinality(Scanners) # 0
  BY <1>1, AlertsAssumption, FS_EmptySet
<1>7. Cardinality(Adjustments(s)) \in Nat
  BY <1>4, FS_CardinalityType
<1>8. QED
  BY <1>3, <1>4, <1>5, <1>6, <1>7

\* The stock tables behind the scans.
LEMMA AlertsBookingStep == TypeOK /\ BookingInv /\ [Next]_vars => BookingInv'
<1> SUFFICES ASSUME TypeOK, BookingInv, [Next]_vars PROVE BookingInv'
  OBVIOUS
<1>1. CASE UNCHANGED <<rows, movements, stx>>
  BY <1>1 DEF BookingInv, SaverIdsFresh, RowIdsUnique, FiniteTables, IsSaved
<1>2. CASE StockNext
  <2>1. StockMove
    BY <1>2, AdjustStepMoves DEF StockNext, StockMove, TypeOK
  <2>2. QED
    BY <2>1, BookingStep DEF TypeOK
<1>3. ASSUME NEW a \in Scanners, ScanStep(a) PROVE UNCHANGED <<rows, movements, stx>>
  <2>1. ASSUME NEW s \in Skus,
               Trigger(a, s) \/ TriggerMiscount(a, s) \/ TriggerCommit(a, s)
        PROVE  UNCHANGED <<rows, movements, stx>>
    BY <2>1, TriggerCounts DEF TriggerCounted, TriggerCommit, stockVars
  <2>2. ScanLoad(a) \/ ScanMisload(a) => UNCHANGED <<rows, movements, stx>>
    BY DEF ScanLoad, ScanMisload, Load, stockVars
  <2>3. ListLow(a) \/ TriggerFail(a) \/ ScanEnd(a) => UNCHANGED <<rows, movements, stx>>
    BY DEF ListLow, TriggerFail, ScanEnd, stockVars
  <2>4. QED
    BY <1>3, <2>1, <2>2, <2>3 DEF ScanStep
<1>4. ReadStep \/ (\E u \in Users : UpdateUser(u)) \/ UNCHANGED vars
          => UNCHANGED <<rows, movements, stx>>
  BY DEF ReadStep, MarkRead, MarkAllRead, UpdateUser, vars, stockVars
<1>5. QED
  BY <1>1, <1>2, <1>3, <1>4 DEF Next

\* A step that adds neither alerts nor scans that owe one.
LEMMA QuietPending ==
    ASSUME FiniteTables, PendingInv, TypeOK, NEW s \in Skus,
           alerts'[s] = alerts[s], movements'[s] = movements[s], miscounts'[s] = miscounts[s],
           Owing(s)' \subseteq Owing(s)
    PROVE  alerts'[s] + Cardinality(Owing(s)')
               <= Cardinality(Scanners) + miscounts'[s] + Cardinality(Adjustments(s)')
<1>1. Cardinality(Owing(s)') <= Cardinality(Owing(s)) /\ Cardinality(Owing(s)') \in Nat
  BY PendingCounts, FS_Subset, FS_CardinalityType
<1>2. Adjustments(s)' = Adjustments(s)
  BY DEF Adjustments
<1>3. alerts[s] + Cardinality(Owing(s))
          <= Cardinality(Scanners) + miscounts[s] + Cardinality(Adjustments(s))
  BY DEF PendingInv
<1>4. alerts[s] \in Nat /\ miscounts[s] \in Nat
  BY DEF TypeOK, StockTypeOK
<1>5. QED
  BY <1>1, <1>2, <1>3, <1>4, PendingCounts

\* Scans: counting the pending alerts makes a scan owe one only if there are
\* none, or if the count fails; committing pays it.
LEMMA PendingScan ==
    ASSUME TypeOK, FiniteTables, PendingInv, NEW a \in Scanners, ScanStep(a)
    PROVE  PendingInv'
<1>0. ScansOK
  BY DEF TypeOK, ScansOK
<1>a. ASSUME NEW s \in Skus PROVE alerts[s] \in Nat /\ miscounts[s] \in Nat
  BY DEF TypeOK, StockTypeOK
<1>1. ASSUME scan'[a].pc # "raising", UNCHANGED <<alerts, movements, miscounts>>,
             \A b \in Scanners \ {a} : scan'[b] = scan[b]
      PROVE  PendingInv'
  <2> SUFFICES ASSUME NEW s \in Skus
               PROVE  alerts'[s] + Cardinality(Owing(s)')
                          <= Cardinality(Scanners) + miscounts'[s] + Cardinality(Adjustments(s)')
    BY DEF PendingInv
  <2>1. Owing(s)' \subseteq Owing(s)
    BY <1>1 DEF Owing, Raising
  <2>2. QED
    BY <1>1, <2>1, QuietPending
<1>2. CASE ListLow(a) \/ ScanEnd(a)
  BY <1>0, <1>1, <1>2 DEF ListLow, ScanEnd, Idle, ScansOK, stockVars
<1>3. CASE ScanLoad(a) \/ ScanMisload(a)
  <2>1. PICK todo, users : scan' = [scan EXCEPT ![a] = Onward(todo, users)]
    BY <1>3 DEF ScanLoad, ScanMisload, Load
  <2>2. UNCHANGED <<alerts, movements, miscounts>>
    BY <1>3 DEF ScanLoad, ScanMisload, Load, stockVars
  <2>3. QED
    BY <1>0, <1>1, <2>1, <2>2, OnwardAhead
<1>4. CASE TriggerFail(a)
  BY <1>0, <1>1, <1>4, OnwardAhead DEF TriggerFail, stockVars
<1>5. ASSUME NEW k \in Skus, Trigger(a, k) PROVE PendingInv'
  <2> SUFFICES ASSUME NEW s \in Skus
               PROVE  alerts'[s] + Cardinality(Owing(s)')
                          <= Cardinality(Scanners) + miscounts'[s] + Cardinality(Adjustments(s)')
    BY DEF PendingInv
  <2>0. /\ scan'[a].alerted = (alerts[k] > 0) /\ scan'[a].row.sku = k
        /\ \A b \in Scanners \ {a} : scan'[b] = scan[b]
        /\ UNCHANGED <<alerts, movements, miscounts>>
    BY <1>0, <1>5 DEF Trigger, TriggerCounted, ScansOK, stockVars
  <2>1. /\ alerts[k] > 0 => scan'[a].alerted
        /\ scan'[a].row.sku = k
        /\ \A b \in Scanners \ {a} : scan'[b] = scan[b]
        /\ UNCHANGED <<alerts, movements, miscounts>>
    BY <2>0, Zenon
  <2>2. CASE s = k /\ alerts[s] = 0
    <3>1. Cardinality(Owing(s)') <= Cardinality(Scanners) /\ Cardinality(Owing(s)') \in Nat
      <4>1. Owing(s)' \in SUBSET Scanners
        BY DEF Owing
      <4>2. QED
        BY <4>1, AlertsAssumption, FS_Subset, FS_CardinalityType
    <3>2. Adjustments(s)' = Adjustments(s)
      BY <2>1 DEF Adjustments
    <3>3. QED
      BY <1>a, <2>1, <2>2, <3>1, <3>2, PendingCounts
  <2>3. CASE s # k \/ alerts[s] # 0
    <3>1. a \notin Owing(s)'
      BY <1>a, <2>1, <2>3 DEF Owing, Raising
    <3>2. Owing(s)' \subseteq Owing(s)
      BY <2>1, <3>1 DEF Owing, Raising
    <3>3. QED
      BY <2>1, <3>2, QuietPending
  <2>4. QED
    BY <2>2, <2>3
<1>m. ASSUME NEW k \in Skus, TriggerMiscount(a, k) PROVE PendingInv'
  <2> SUFFICES ASSUME NEW s \in Skus
               PROVE  alerts'[s] + Cardinality(Owing(s)')
                          <= Cardinality(Scanners) + miscounts'[s] + Cardinality(Adjustments(s)')
    BY DEF PendingInv
  <2>1. /\ scan'[a].row.sku = k
        /\ \A b \in Scanners \ {a} : scan'[b] = scan[b]
        /\ UNCHANGED <<alerts, movements>>
        /\ miscounts' = [miscounts EXCEPT ![k] = @ + 1]
    BY <1>0, <1>m DEF TriggerMiscount, TriggerCounted, ScansOK, stockVars
  <2>2. CASE s # k
    <3>1. Owing(s)' \subseteq Owing(s) /\ miscounts'[s] = miscounts[s]
      BY <2>1, <2>2 DEF Owing, Raising, TypeOK
    <3>2. QED
      BY <2>1, <3>1, QuietPending
  <2>3. CASE s = k
    <3>1. miscounts'[s] = miscounts[s] + 1
      BY <2>1, <2>3 DEF TypeOK
    <3>2. Owing(s)' \in SUBSET (Owing(s) \cup {a})
      BY <2>1 DEF Owing, Raising
    <3>3. /\ IsFiniteSet(Owing(s) \cup {a})
          /\ Cardinality(Owing(s) \cup {a}) \in {Cardinality(Owing(s)), Cardinality(Owing(s)) + 1}
      <4>1. IsFiniteSet(Owing(s))
        BY PendingCounts
      <4>2. QED
        BY <4>1, FS_AddElement
    <3>4. Cardinality(Owing(s)') <= Cardinality(Owing(s)) + 1 /\ Cardinality(Owing(s)') \in Nat
      <4>1. /\ Cardinality(Owing(s)') <= Cardinality(Owing(s) \cup {a})
            /\ Cardinality(Owing(s)') \in Nat
        BY <3>2, <3>3, FS_Subset, FS_CardinalityType
      <4>2. QED
        BY <3>3, <4>1, PendingCounts
    <3>5. Adjustments(s)' = Adjustments(s)
      BY <2>1 DEF Adjustments
    <3>6. alerts[s] + Cardinality(Owing(s))
              <= Cardinality(Scanners) + miscounts[s] + Cardinality(Adjustments(s))
      BY DEF PendingInv
    <3>7. QED
      BY <1>a, <2>1, <3>1, <3>4, <3>5, <3>6, PendingCounts
  <2>4. QED
    BY <2>2, <2>3
<1>6. ASSUME NEW k \in Skus, TriggerCommit(a, k) PROVE PendingInv'
  <2> SUFFICES ASSUME NEW s \in Skus
               PROVE  alerts'[s] + Cardinality(Owing(s)')
                          <= Cardinality(Scanners) + miscounts'[s] + Cardinality(Adjustments(s)')
    BY DEF PendingInv
  <2>1. /\ scan'[a].pc # "raising" /\ \A b \in Scanners \ {a} : scan'[b] = scan[b]
        /\ movements' = movements /\ miscounts' = miscounts /\ Raising(a, k)
    BY <1>0, <1>6, OnwardAhead DEF TriggerCommit
  <2>2. Owing(s)' = Owing(s) \ {a}
    BY <2>1 DEF Owing, Raising
  <2>3. CASE s # k \/ scan[a].alerted
    <3>1. alerts'[s] = alerts[s]
      BY <1>6, <2>3 DEF TriggerCommit, TypeOK, StockTypeOK
    <3>2. QED
      BY <2>1, <2>2, <3>1, QuietPending
  <2>4. CASE s = k /\ ~scan[a].alerted
    <3>1. alerts'[s] = alerts[s] + 1
      BY <1>6, <2>4 DEF TriggerCommit, TypeOK, StockTypeOK
    <3>2. a \in Owing(s)
      BY <2>1, <2>4 DEF Owing
    <3>3. Cardinality(Owing(s)') = Cardinality(Owing(s)) - 1
      BY <2>2, <3>2, PendingCounts, FS_RemoveElement
    <3>4. Adjustments(s)' = Adjustments(s)
      BY <2>1 DEF Adjustments
    <3>5. alerts[s] + Cardinality(Owing(s))
              <= Cardinality(Scanners) + miscounts[s] + Cardinality(Adjustments(s))
      BY DEF PendingInv
    <3>6. QED
      BY <1>a, <2>1, <3>1, <3>3, <3>4, <3>5, PendingCounts
  <2>5. QED
    BY <2>3, <2>4
<1>7. QED
  BY <1>2, <1>3, <1>4, <1>5, <1>m, <1>6 DEF ScanStep

\* Stock: an alert of an adjustment comes with a movement of its own.
LEMMA PendingStock ==
    ASSUME TypeOK, BookingInv, PendingInv, StockNext, UNCHANGED alertVars
    PROVE  PendingInv'
<1> SUFFICES ASSUME NEW s \in Skus
             PROVE  alerts'[s] + Cardinality(Owing(s)')
                        <= Cardinality(Scanners) + miscounts'[s] + Cardinality(Adjustments(s)')
  BY DEF PendingInv
<1>0. FiniteTables /\ StockTypeOK /\ alerts[s] \in Nat /\ miscounts[s] \in Nat
  BY DEF BookingInv, TypeOK, StockTypeOK
<1>1. Owing(s)' = Owing(s) /\ miscounts' = miscounts
  BY DEF alertVars, Owing, Raising
<1>2. alerts[s] + Cardinality(Owing(s))
          <= Cardinality(Scanners) + miscounts[s] + Cardinality(Adjustments(s))
  BY DEF PendingInv
<1>3. CASE alerts'[s] = alerts[s] /\ movements'[s] = movements[s]
  BY <1>0, <1>1, <1>3, QuietPending
<1>4. ASSUME NEW r \in Requests, AdjustCommit(r)
      PROVE  alerts'[s] + Cardinality(Owing(s)')
                 <= Cardinality(Scanners) + miscounts'[s] + Cardinality(Adjustments(s)')
  <2> DEFINE t == stx[r]
  <2>1. /\ IsSaved(r) /\ t.ref = "adjust" /\ t.sku \in Skus
        /\ movements' = [movements EXCEPT ![t.sku] = @ \cup {Booking(t)}]
        /\ alerts'[t.sku] \in {alerts[t.sku], alerts[t.sku] + 1}
        /\ \A k \in Skus : k # t.sku => alerts'[k] = alerts[k]
    BY <1>0, <1>4 DEF AdjustCommit, CommitStock, IsSaved, StockTypeOK, SavedTx, ReadTx, Idle
  <2>2. CASE s # t.sku
    BY <1>0, <1>1, <2>1, <2>2, QuietPending DEF StockTypeOK
  <2>3. CASE s = t.sku
    <3>1. Booking(t) \notin movements[s]
      BY <2>1, <2>3 DEF BookingInv, SaverIdsFresh, Booking
    <3>2. Adjustments(s)' = Adjustments(s) \cup {Booking(t)} /\ Booking(t) \notin Adjustments(s)
      BY <1>0, <2>1, <2>3, <3>1 DEF Adjustments, Booking, StockTypeOK
    <3>3. Cardinality(Adjustments(s)') = Cardinality(Adjustments(s)) + 1
      BY <1>0, <3>2, PendingCounts, FS_AddElement
    <3>4. alerts'[s] \in {alerts[s], alerts[s] + 1}
      BY <2>1, <2>3
    <3>5. QED
      BY <1>0, <1>1, <1>2, <3>3, <3>4, PendingCounts
  <2>4. QED
    BY <2>2, <2>3
<1>5. ASSUME NEW k \in Skus, ResolveAlert(k)
      PROVE  alerts'[s] + Cardinality(Owing(s)')
                 <= Cardinality(Scanners) + miscounts'[s] + Cardinality(Adjustments(s)')
  <2>1. alerts'[s] \in {alerts[s], alerts[s] - 1} /\ movements' = movements
    BY <1>0, <1>5 DEF ResolveAlert, StockTypeOK
  <2>2. Adjustments(s)' = Adjustments(s)
    BY <2>1 DEF Adjustments
  <2>3. QED
    BY <1>0, <1>1, <1>2, <2>1, <2>2, PendingCounts
<1>6. ASSUME NEW r \in Requests, AdjustStep(r), ~AdjustCommit(r)
      PROVE  alerts'[s] = alerts[s] /\ movements'[s] = movements[s]
  BY <1>6 DEF AdjustStep, AdjustRead, AdjustSave, AdjustAbandon
<1>7. ASSUME NEW k \in Skus, NEW row, NEW threshold, Update(k, row, threshold)
      PROVE  alerts'[s] = alerts[s] /\ movements'[s] = movements[s]
  BY <1>7 DEF Update
<1>8. QED
  BY <1>3, <1>4, <1>5, <1>6, <1>7 DEF StockNext, ManageStep

\* Every step.
LEMMA PendingStep == TypeOK /\ BookingInv /\ PendingInv /\ [Next]_vars => PendingInv'
<1> SUFFICES ASSUME TypeOK, BookingInv, PendingInv, [Next]_vars PROVE PendingInv'
  OBVIOUS
<1>1. FiniteTables
  BY DEF BookingInv
<1>2. CASE UNCHANGED <<scan, alerts, movements, miscounts>>
  BY <1>2 DEF PendingInv, Owing, Raising, Adjustments
<1>3. ReadStep \/ (\E u \in Users : UpdateUser(u)) \/ UNCHANGED vars
          => UNCHANGED <<scan, alerts, movements, miscounts>>
  BY DEF ReadStep, MarkRead, MarkAllRead, UpdateUser, vars, stockVars, alertVars
<1>4. QED
  BY <1>1, <1>2, <1>3, PendingScan, PendingStock DEF Next

\* At first nothing is owed, and a SKU has at most one alert.
LEMMA PendingInit == Init => PendingInv
<1> SUFFICES ASSUME Init, NEW s \in Skus
             PROVE  alerts[s] + Cardinality(Owing(s))
                        <= Cardinality(Scanners) + miscounts[s] + Cardinality(Adjustments(s))
  BY DEF PendingInv
<1>1. Owing(s) = {}
  BY DEF Init, ScanInit, Owing, Raising, Idle
<1>2. alerts[s] \in {0, 1} /\ miscounts[s] = 0
  BY DEF Init, StockInit, ScanInit
<1>3. FiniteTables
  BY BookingInit DEF Init, BookingInv
<1>4. QED
  BY <1>1, <1>2, <1>3, PendingCounts, FS_EmptySet

\* Pending alerts do not pile up: besides the alerts of adjustments there is at
\* most one per scan that can overlap, although triggerOne counts the pending
\* ones before it inserts and the transactions of two scans do not see each other,
\* and one per count that failed, whose error triggerOne ignores.
THEOREM AlertsPendingBounded == Spec => []PendingBounded
<1>1. TypeOK /\ BookingInv /\ PendingInv => PendingBounded
  <2> SUFFICES ASSUME TypeOK, BookingInv, PendingInv, NEW s \in Skus
               PROVE  alerts[s]
                   <= Cardinality(Scanners) + miscounts[s] + Cardinality(Adjustments(s))
    BY DEF PendingBounded, Adjustments
  <2>1. alerts[s] + Cardinality(Owing(s))
            <= Cardinality(Scanners) + miscounts[s] + Cardinality(Adjustments(s))
    BY DEF PendingInv
  <2>2. QED
    BY <2>1, PendingCounts DEF BookingInv, TypeOK, StockTypeOK
<1>2. Init => BookingInv
  BY BookingInit DEF Init
<1>3. QED
  BY <1>1, <1>2, AlertsTypeInit, AlertsTypeStep, AlertsBookingStep, PendingInit, PendingStep, PTL
     DEF Spec

-----------------------------------------------------------------------------
(***************************************************************************)
(* Noise.  What a scan still has to work on is a message somebody will     *)
(* get: unread messages and the rows ahead of the scans are counted        *)
(* together.  A scan adds its rows of a SKU only where nothing is unread,  *)
(* and all scans together have no more of them than scans times rows; or   *)
(* it failed to read the messages, and is counted.                         *)
(***************************************************************************)

\* The rows of SKU s by their ids, and those ahead of a scan.
RowNames(s) == {x.id : x \in rows[s]}

Due(s) == {p \in Scanners \X Ids : [sku |-> s, row |-> p[2]] \in Ahead(p[1])}

\* A scan works on rows that exist: rows are never deleted.
NamedRows ==
    \A a \in Scanners : scan[a].pc # "idle" =>
        \A x \in scan[a].todo : x.row \in RowNames(x.sku)

Noise(u, s) == unread[u][s] + Cardinality(Due(s))

Limit(s) == (Cardinality(Scanners) + misreads) * Cardinality(RowNames(s))

NoiseInv == \A u \in Users, s \in Skus : Noise(u, s) <= Limit(s)

\* A product grows with its second factor, and with the first.
LEMMA TimesGrow ==
    ASSUME NEW k \in Nat, NEW m \in Nat, NEW x \in Nat, NEW y \in Nat, x <= y
    PROVE  /\ k * x \in Nat
           /\ (k + m) * x <= (k + m) * y
           /\ k * x <= (k + m) * x
           /\ (k + m + 1) * x = (k + m) * x + x
<1>1. k * x \in Nat /\ m * x \in Nat /\ k * (y - x) \in Nat /\ m * (y - x) \in Nat
  <2>1. y - x \in Nat
    OBVIOUS
  <2>2. \A i, j \in Nat : i * j \in Nat
    OBVIOUS
  <2>3. QED
    BY <2>1, <2>2
<1>2. (k + m) * x = k * x + m * x
  OBVIOUS
<1>3. (k + m) * y = (k + m) * x + (k * (y - x) + m * (y - x))
  OBVIOUS
<1>4. (k + m + 1) * x = (k + m) * x + x
  OBVIOUS
<1>5. QED
  BY <1>1, <1>2, <1>3, <1>4

\* A table has no more ids than rows.
LEMMA NamesFinite ==
    ASSUME NEW T, IsFiniteSet(T)
    PROVE  /\ IsFiniteSet({x.id : x \in T}) /\ Cardinality({x.id : x \in T}) \in Nat
           /\ Cardinality({x.id : x \in T}) <= Cardinality(T)
<1> DEFINE N == {x.id : x \in T}
           f == [x \in T |-> x.id]
<1>1. f \in Surjection(T, N)
  BY DEF Surjection
<1>2. IsFiniteSet(N) /\ Cardinality(N) <= Cardinality(T)
  BY <1>1, FS_Surjection
<1>3. QED
  BY <1>2, FS_CardinalityType

\* Pairs of a scan and a row.
LEMMA PairCount ==
    ASSUME NEW S, IsFiniteSet(S), NEW R, IsFiniteSet(R), NEW D, D \subseteq S \X R
    PROVE  /\ IsFiniteSet(D) /\ Cardinality(D) \in Nat
           /\ Cardinality(D) <= Cardinality(S) * Cardinality(R)
<1>1. IsFiniteSet(S \X R) /\ Cardinality(S \X R) = Cardinality(S) * Cardinality(R)
  BY FS_Product
<1>2. IsFiniteSet(D) /\ Cardinality(D) <= Cardinality(S \X R)
  BY <1>1, FS_Subset
<1>3. QED
  BY <1>1, <1>2, FS_CardinalityType

\* No row disappears: a save replaces a row by one of the same id, and so does
\* a change of the safety stock.
LEMMA NamesGrow ==
    ASSUME StockTypeOK, StockMove, NEW s \in Skus
    PROVE  RowNames(s) \subseteq RowNames(s)'
<1>1. CASE rows' = rows
  BY <1>1 DEF RowNames
<1>2. ASSUME NEW r \in Requests, CommitStock(r) PROVE RowNames(s) \subseteq RowNames(s)'
  <2> DEFINE t == stx[r]
  <2>1. \/ rows'[s] = rows[s]
        \/ rows'[s] = {x \in rows[s] : x.id # t.row} \cup {SavedRow(t)}
    BY <1>2 DEF CommitStock, StockTypeOK
  <2>2. SavedRow(t).id = t.row
    BY DEF SavedRow
  <2>3. QED
    BY <2>1, <2>2 DEF RowNames
<1>3. ASSUME NEW k \in Skus, NEW row \in rows[k], NEW threshold, Update(k, row, threshold)
      PROVE  RowNames(s) \subseteq RowNames(s)'
  <2>1. PICK new :
            /\ new.id = row.id /\ new.qty = row.qty
            /\ rows'[k] = (rows[k] \ {row}) \cup {new}
            /\ \A j \in Skus : j # k => rows'[j] = rows[j]
    BY <1>3, UpdateKeeps
  <2>2. QED
    BY <2>1 DEF RowNames
<1>4. QED
  BY <1>1, <1>2, <1>3 DEF StockMove, MoveRead, MoveSave, MoveCommit, MoveAbandon, ManageStep,
                          ResolveAlert, stockVars

\* What a step leaves ahead of the scans: what was there, or the rows a scan
\* lists; nothing but loading brings a row ahead.
LEMMA TodoSteps ==
    ASSUME TypeOK, NEW a \in Scanners, ScanStep(a)
    PROVE  /\ rows' = rows
           /\ \A b \in Scanners \ {a} : scan'[b] = scan[b] /\ Ahead(b)' = Ahead(b)
           /\ \/ scan'[a].pc = "idle"
              \/ scan[a].pc # "idle" /\ scan'[a].todo \subseteq scan[a].todo
              \/ scan'[a].pc = "listed" /\ scan'[a].todo = Low
           /\ ScanLoad(a) \/ ScanMisload(a) \/ Ahead(a)' \subseteq Ahead(a)
<1>0. ScansOK
  BY DEF TypeOK, ScansOK
<1>1. ASSUME NEW todo, NEW users, scan' = [scan EXCEPT ![a] = Onward(todo, users)],
             todo \subseteq scan[a].todo, scan[a].pc # "idle"
      PROVE  /\ \A b \in Scanners \ {a} : scan'[b] = scan[b] /\ Ahead(b)' = Ahead(b)
             /\ \/ scan'[a].pc = "idle"
                \/ scan[a].pc # "idle" /\ scan'[a].todo \subseteq scan[a].todo
  <2>1. scan'[a] = Onward(todo, users)
    BY <1>0, <1>1 DEF ScansOK
  <2>2. scan'[a].pc = "idle" \/ scan'[a].todo = todo
    BY <2>1 DEF Onward, Idle
  <2>3. \A b \in Scanners \ {a} : scan'[b] = scan[b] /\ Ahead(b)' = Ahead(b)
    BY <1>0, <1>1 DEF ScansOK, Ahead
  <2>4. QED
    BY <1>1, <2>2, <2>3
<1>2. CASE ListLow(a)
  BY <1>0, <1>2 DEF ListLow, ScansOK, Ahead, stockVars, Idle
<1>3. CASE ScanLoad(a) \/ ScanMisload(a)
  <2>1. PICK known, users : Load(a, known, users)
    BY <1>3 DEF ScanLoad, ScanMisload
  <2>2. scan[a].pc = "listed" /\ rows' = rows
    BY <2>1 DEF Load, stockVars
  <2>3. QED
    BY <1>1, <1>3, <2>1, <2>2 DEF Load
<1>4. ASSUME NEW s \in Skus, NEW pending \in BOOLEAN, TriggerCounted(a, s, pending)
      PROVE  /\ rows' = rows
             /\ scan[a].pc # "idle" /\ scan'[a].todo = scan[a].todo /\ Ahead(a)' = Ahead(a)
             /\ \A b \in Scanners \ {a} : scan'[b] = scan[b] /\ Ahead(b)' = Ahead(b)
  BY <1>0, <1>4 DEF TriggerCounted, ScansOK, Ahead, stockVars
<1>5. CASE TriggerFail(a) \/ (\E s \in Skus : TriggerCommit(a, s))
  <2>1. /\ scan[a].pc = "raising" /\ rows' = rows
        /\ scan' = [scan EXCEPT ![a] = Onward(scan[a].todo \ {scan[a].row}, scan[a].users)]
    BY <1>5 DEF TriggerFail, TriggerCommit, Raising, stockVars
  <2>2. Ahead(a)' = scan[a].todo \ {scan[a].row} /\ Ahead(a) = scan[a].todo
    BY <1>0, <2>1, OnwardAhead DEF Ahead
  <2>3. QED
    BY <1>1, <2>1, <2>2
<1>6. CASE ScanEnd(a)
  BY <1>0, <1>6 DEF ScanEnd, ScansOK, Ahead, stockVars, Idle
<1>7. QED
  BY <1>2, <1>3, <1>4, <1>5, <1>6, TriggerCounts DEF ScanStep

\* A scan keeps working on rows that exist.
LEMMA NamedRowsStep == TypeOK /\ NamedRows /\ [Next]_vars => NamedRows'
<1> SUFFICES ASSUME TypeOK, NamedRows, [Next]_vars PROVE NamedRows'
  OBVIOUS
<1>0. ScansOK
  BY DEF TypeOK, ScansOK
<1>1. ASSUME scan' = scan, \A s \in Skus : RowNames(s) \subseteq RowNames(s)'
      PROVE  NamedRows'
  <2>1. ASSUME NEW a \in Scanners, scan[a].pc # "idle", NEW x \in scan[a].todo PROVE x.sku \in Skus
    BY <1>0, <2>1, ScanFields DEF ScansOK, Scan, Idle, RowRef
  <2>2. QED
    BY <1>1, <2>1 DEF NamedRows
<1>2. ASSUME NEW a \in Scanners, ScanStep(a) PROVE NamedRows'
  <2>1. \A x \in Low : x.row \in RowNames(x.sku)
    BY DEF Low, LowRows, RowNames
  <2>2. \A s : RowNames(s)' = RowNames(s)
    BY <1>2, TodoSteps DEF RowNames
  <2>3. QED
    BY <1>2, <2>1, <2>2, TodoSteps DEF NamedRows
<1>3. CASE StockNext /\ UNCHANGED alertVars
  <2>1. StockMove
    BY <1>3, AdjustStepMoves DEF StockNext, StockMove, TypeOK
  <2>2. QED
    BY <1>1, <1>3, <2>1, NamesGrow DEF TypeOK, alertVars
<1>4. ReadStep \/ (\E u \in Users : UpdateUser(u)) \/ UNCHANGED vars
          => scan' = scan /\ rows' = rows
  BY DEF ReadStep, MarkRead, MarkAllRead, UpdateUser, vars, stockVars, alertVars
<1>5. QED
  BY <1>1, <1>2, <1>3, <1>4 DEF Next, RowNames

\* The counts the argument adds up.
LEMMA NoiseCounts ==
    ASSUME TypeOK, FiniteTables, NamedRows, NEW u \in Users, NEW s \in Skus
    PROVE  /\ unread[u][s] \in Nat
           /\ IsFiniteSet(RowNames(s)) /\ Cardinality(RowNames(s)) \in Nat
           /\ IsFiniteSet(Due(s)) /\ Cardinality(Due(s)) \in Nat
           /\ Cardinality(Due(s)) <= Cardinality(Scanners) * Cardinality(RowNames(s))
           /\ Cardinality(Scanners) \in Nat /\ misreads \in Nat
<1>1. IsFiniteSet(RowNames(s)) /\ Cardinality(RowNames(s)) \in Nat
  BY NamesFinite DEF FiniteTables, RowNames
<1>2. Due(s) \subseteq Scanners \X RowNames(s)
  <2> SUFFICES ASSUME NEW p \in Due(s) PROVE p \in Scanners \X RowNames(s)
    OBVIOUS
  <2> DEFINE x == [sku |-> s, row |-> p[2]]
  <2>1. p \in Scanners \X Ids /\ x \in Ahead(p[1])
    BY DEF Due
  <2>2. scan[p[1]].pc # "idle" /\ x \in scan[p[1]].todo
    BY <2>1 DEF Ahead
  <2>3. x.row \in RowNames(x.sku)
    BY <2>1, <2>2 DEF NamedRows
  <2>4. QED
    BY <2>1, <2>3
<1>3. IsFiniteSet(Scanners)
  BY AlertsAssumption
<1>4. /\ IsFiniteSet(Due(s)) /\ Cardinality(Due(s)) \in Nat
      /\ Cardinality(Due(s)) <= Cardinality(Scanners) * Cardinality(RowNames(s))
  BY <1>1, <1>2, <1>3, PairCount
<1>5. Cardinality(Scanners) \in Nat
  BY <1>3, FS_CardinalityType
<1>6. QED
  BY <1>1, <1>4, <1>5 DEF TypeOK

\* What holds on both sides of a step, and what it says of the counts.
WellKept == TypeOK /\ FiniteTables /\ NamedRows

Counted ==
    \A u \in Users, s \in Skus :
        /\ unread[u][s] \in Nat /\ misreads \in Nat
        /\ IsFiniteSet(RowNames(s)) /\ Cardinality(RowNames(s)) \in Nat
        /\ Cardinality(Due(s)) \in Nat
        /\ Cardinality(Due(s)) <= Cardinality(Scanners) * Cardinality(RowNames(s))

LEMMA WellCounted == WellKept => Counted
BY NoiseCounts DEF WellKept, Counted

\* Rows may come, messages be read and scans get on.
LEMMA QuietNoise ==
    ASSUME WellKept, WellKept', NEW u \in Users, NEW s \in Skus, Noise(u, s) <= Limit(s),
           unread'[u][s] <= unread[u][s], Due(s)' \subseteq Due(s), misreads' = misreads,
           RowNames(s) \subseteq RowNames(s)'
    PROVE  (Noise(u, s) <= Limit(s))'
<1> DEFINE k == Cardinality(Scanners)
           x == Cardinality(RowNames(s))
           y == Cardinality(RowNames(s)')
<1>1. /\ unread[u][s] \in Nat /\ Cardinality(Due(s)) \in Nat /\ IsFiniteSet(Due(s))
      /\ k \in Nat /\ x \in Nat /\ misreads \in Nat
  BY NoiseCounts DEF WellKept
<1>2. /\ unread'[u][s] \in Nat /\ y \in Nat /\ IsFiniteSet(RowNames(s)')
      /\ Cardinality(Due(s)') \in Nat
  <2>1. Counted'
    BY WellCounted, PTL
  <2>2. QED
    BY <2>1 DEF Counted
<1>3. x <= y
  BY <1>2, FS_Subset
<1>4. Cardinality(Due(s)') <= Cardinality(Due(s))
  BY <1>1, FS_Subset
<1>5. (k + misreads) * x <= (k + misreads) * y
  BY <1>1, <1>2, <1>3, TimesGrow
<1>6. (k + misreads) * x \in Nat /\ (k + misreads) * y \in Nat
  <2>1. k + misreads \in Nat
    BY <1>1
  <2>2. QED
    BY <1>1, <1>2, <2>1, TimesGrow
<1>7. Noise(u, s) = unread[u][s] + Cardinality(Due(s)) /\ Limit(s) = (k + misreads) * x
  BY DEF Noise, Limit
<1>8. /\ Noise(u, s)' = unread'[u][s] + Cardinality(Due(s)')
      /\ Limit(s)' = (k + misreads) * y
  BY DEF Noise, Limit
<1> HIDE DEF k, x, y
<1>9. QED
  BY <1>1, <1>2, <1>4, <1>5, <1>6, <1>7, <1>8
\* The rows of a SKU ahead of the scans, when none of them gets new ones.
LEMMA DueShrinks ==
    ASSUME NEW s, \A b \in Scanners : \A x \in Ahead(b)' : x.sku = s => x \in Ahead(b)
    PROVE  Due(s)' \subseteq Due(s)
BY DEF Due

\* Loading: where nothing is unread the rows ahead are the whole account; what
\* is unread is skipped, unless it could not be read, which raises the limit.
LEMMA NoiseLoad ==
    ASSUME WellKept, WellKept', NEW a \in Scanners, ScanLoad(a) \/ ScanMisload(a),
           NEW u \in Users, NEW s \in Skus, Noise(u, s) <= Limit(s)
    PROVE  (Noise(u, s) <= Limit(s))'
<1> DEFINE k == Cardinality(Scanners)
           x == Cardinality(RowNames(s))
<1>0. ScansOK
  BY DEF WellKept, TypeOK, ScansOK
<1>1. rows' = rows /\ unread' = unread
  BY DEF ScanLoad, ScanMisload, Load, stockVars
<1>2. RowNames(s)' = RowNames(s)
  BY <1>1 DEF RowNames
<1>3. /\ unread[u][s] \in Nat /\ Cardinality(Due(s)) \in Nat /\ IsFiniteSet(Due(s))
      /\ k \in Nat /\ x \in Nat /\ misreads \in Nat /\ IsFiniteSet(RowNames(s))
  BY NoiseCounts DEF WellKept
<1>4. Counted'
  BY WellCounted, PTL
<1>5. Cardinality(Due(s)') \in Nat /\ Cardinality(Due(s)') <= k * x
  BY <1>2, <1>4 DEF Counted
<1>6. /\ Noise(u, s)' = unread[u][s] + Cardinality(Due(s)')
      /\ Limit(s)' = (k + misreads') * x
  BY <1>1, <1>2 DEF Noise, Limit
<1>7. PICK known, users :
          /\ Load(a, known, users)
          /\ (known = Unread /\ misreads' = misreads) \/ misreads' = misreads + 1
  BY DEF ScanLoad, ScanMisload
<1> DEFINE todo == {z \in scan[a].todo : z.sku \notin known /\ z.sku \in supplied}
<1>8. /\ Ahead(a)' = todo /\ Ahead(a) = {}
      /\ \A b \in Scanners \ {a} : Ahead(b)' = Ahead(b)
  <2>1. scan' = [scan EXCEPT ![a] = Onward(todo, users)] /\ scan[a].pc = "listed"
    BY <1>7 DEF Load
  <2>2. QED
    BY <1>0, <2>1, OnwardAhead DEF Ahead
<1>9. (k + misreads) * x \in Nat /\ k * x \in Nat /\ k * x <= (k + misreads) * x
      /\ (k + misreads + 1) * x = (k + misreads) * x + x
  <2>1. k + misreads \in Nat
    BY <1>3
  <2>2. k * x <= (k + misreads) * x /\ k * x \in Nat
        /\ (k + misreads + 1) * x = (k + misreads) * x + x
    BY <1>3, TimesGrow
  <2>3. (k + misreads) * x \in Nat
    BY <1>3, <2>1, TimesGrow
  <2>4. QED
    BY <2>2, <2>3
<1>10. Noise(u, s) = unread[u][s] + Cardinality(Due(s)) /\ Limit(s) = (k + misreads) * x
  BY DEF Noise, Limit
<1>11. CASE known = Unread /\ misreads' = misreads /\ s \notin Unread
  <2>1. unread[u][s] = 0
    BY <1>3, <1>11 DEF Unread
  <2> HIDE DEF k, x
  <2>2. QED
    BY <1>3, <1>5, <1>6, <1>9, <1>11, <2>1
<1>12. CASE known = Unread /\ misreads' = misreads /\ s \in Unread
  <2>1. Due(s)' \subseteq Due(s)
    BY <1>8, <1>12, DueShrinks
  <2>2. QED
    BY <1>1, <1>2, <1>3, <1>12, <2>1, QuietNoise
<1>13. CASE misreads' = misreads + 1
  <2> DEFINE new == {a} \X RowNames(s)
  <2>1. Due(s)' \subseteq Due(s) \cup new
    <3> SUFFICES ASSUME NEW p \in Due(s)', p[1] = a PROVE p \in new
      BY <1>8 DEF Due
    <3> DEFINE z == [sku |-> s, row |-> p[2]]
    <3>1. p \in Scanners \X Ids /\ z \in scan[a].todo
      BY <1>8 DEF Due
    <3>2. scan[a].pc # "idle"
      BY <1>7 DEF Load
    <3>3. z.row \in RowNames(z.sku)
      BY <3>1, <3>2 DEF WellKept, NamedRows
    <3>4. QED
      BY <3>1, <3>3
  <2>2. IsFiniteSet(new) /\ Cardinality(new) \in Nat /\ Cardinality(new) = x
    <3>1. IsFiniteSet({a}) /\ Cardinality({a}) = 1
      BY FS_Singleton
    <3>2. IsFiniteSet(new) /\ Cardinality(new) = 1 * x
      BY <1>3, <3>1, FS_Product
    <3>3. QED
      BY <1>3, <3>2
  <2>3. IsFiniteSet(Due(s) \cup new) /\ Cardinality(Due(s) \cup new) <= Cardinality(Due(s)) + x
    <3>1. /\ IsFiniteSet(Due(s) \cup new)
          /\ Cardinality(Due(s) \cup new)
                 = Cardinality(Due(s)) + Cardinality(new) - Cardinality(Due(s) \cap new)
      BY <1>3, <2>2, FS_Union
    <3>2. IsFiniteSet(Due(s) \cap new)
      BY <1>3, FS_Intersection
    <3>3. Cardinality(Due(s) \cap new) \in Nat
      BY <3>2, FS_CardinalityType
    <3> HIDE DEF new, x
    <3>4. QED
      BY <1>3, <2>2, <3>1, <3>3
  <2>4. Cardinality(Due(s)') <= Cardinality(Due(s) \cup new) /\ Cardinality(Due(s) \cup new) \in Nat
    BY <2>1, <2>3, FS_Subset, FS_CardinalityType
  <2>5. Limit(s)' = (k + misreads + 1) * x
    <3>1. k + misreads' = k + misreads + 1
      BY <1>3, <1>13
    <3>2. QED
      BY <1>6, <3>1
  <2> HIDE DEF k, x, new
  <2>6. QED
    BY <1>3, <1>5, <1>6, <1>9, <1>10, <2>3, <2>4, <2>5
<1>14. QED
  BY <1>7, <1>11, <1>12, <1>13

\* A commit turns a row ahead into a message.
LEMMA NoiseCommit ==
    ASSUME WellKept, WellKept', BlindInv, NEW a \in Scanners, NEW k \in Skus, TriggerCommit(a, k),
           NEW u \in Users, NEW s \in Skus, Noise(u, s) <= Limit(s)
    PROVE  (Noise(u, s) <= Limit(s))'
<1> DEFINE x == scan[a].row
<1>0. ScansOK /\ TypeOK
  BY DEF WellKept, TypeOK, ScansOK
<1>1. ScanStep(a)
  BY DEF ScanStep
<1>2. rows' = rows /\ misreads' = misreads /\ RowNames(s)' = RowNames(s)
  BY DEF TriggerCommit, RowNames
<1>3. \A b \in Scanners : Ahead(b)' \subseteq Ahead(b)
  <2>1. ~ScanLoad(a) /\ ~ScanMisload(a)
    BY DEF TriggerCommit, Raising, ScanLoad, ScanMisload, Load
  <2>2. QED
    BY <1>0, <1>1, <2>1, TodoSteps
<1>4. Ahead(a)' = scan[a].todo \ {x} /\ Ahead(a) = scan[a].todo /\ x \in scan[a].todo /\ x.sku = k
      /\ x \in RowRef
  BY <1>0, OnwardAhead, ScanFields DEF TriggerCommit, Raising, Ahead, BlindInv
<1>5. Due(s)' \subseteq Due(s)
  BY <1>3, DueShrinks
<1>6. /\ unread[u][s] \in Nat /\ Cardinality(Due(s)) \in Nat /\ IsFiniteSet(Due(s))
  BY NoiseCounts DEF WellKept
<1>7. CASE s # k
  <2>1. unread'[u][s] = unread[u][s]
    BY <1>0, <1>7 DEF TriggerCommit, TypeOK
  <2>2. QED
    BY <1>2, <1>5, <1>6, <2>1, QuietNoise
<1>8. CASE s = k
  <2>1. unread'[u][s] \in {unread[u][s], unread[u][s] + 1}
    BY <1>0, <1>8 DEF TriggerCommit, TypeOK
  <2> DEFINE p == <<a, x.row>>
  <2>2. p \in Due(s) /\ p \notin Due(s)'
    <3>1. p \in Scanners \X Ids /\ [sku |-> s, row |-> p[2]] = x
      BY <1>4, <1>8 DEF RowRef
    <3>2. QED
      BY <1>4, <3>1 DEF Due
  <2>3. Due(s)' \subseteq Due(s) \ {p}
    BY <1>5, <2>2
  <2> HIDE DEF p
  <2>4. IsFiniteSet(Due(s) \ {p}) /\ Cardinality(Due(s) \ {p}) = Cardinality(Due(s)) - 1
    BY <1>6, <2>2, FS_RemoveElement
  <2>5. Cardinality(Due(s)') <= Cardinality(Due(s)) - 1 /\ Cardinality(Due(s)') \in Nat
    BY <2>3, <2>4, FS_Subset, FS_CardinalityType
  <2>6. Limit(s)' = Limit(s)
    BY <1>2 DEF Limit
  <2>7. Noise(u, s)' <= Noise(u, s) /\ Noise(u, s)' \in Nat /\ Noise(u, s) \in Nat
    BY <1>6, <2>1, <2>5 DEF Noise
  <2>8. Limit(s) \in Int
    <3>1. Cardinality(Scanners) + misreads \in Nat /\ Cardinality(RowNames(s)) \in Nat
      BY NoiseCounts DEF WellKept
    <3>2. QED
      BY <3>1, TimesGrow DEF Limit
  <2>9. QED
    BY <2>6, <2>7, <2>8
<1>9. QED
  BY <1>7, <1>8

\* Every step.
LEMMA NoiseStep ==
    ASSUME WellKept, WellKept', BlindInv, NoiseInv, [Next]_vars
    PROVE  NoiseInv'
<1> SUFFICES ASSUME NEW u \in Users, NEW s \in Skus PROVE (Noise(u, s) <= Limit(s))'
  BY DEF NoiseInv
<1>0. TypeOK /\ Noise(u, s) <= Limit(s) /\ unread[u][s] \in Nat /\ ScansOK
  BY DEF WellKept, NoiseInv, TypeOK, ScansOK
<1>1. ASSUME NEW a \in Scanners, ScanStep(a), unread' = unread, misreads' = misreads,
             ~ScanLoad(a) /\ ~ScanMisload(a)
      PROVE  (Noise(u, s) <= Limit(s))'
  <2>1. Due(s)' \subseteq Due(s) /\ rows' = rows
    BY <1>0, <1>1, TodoSteps, DueShrinks
  <2>2. RowNames(s)' = RowNames(s)
    BY <2>1 DEF RowNames
  <2>3. QED
    BY <1>0, <1>1, <2>1, <2>2, QuietNoise
<1>2. ASSUME NEW a \in Scanners, ScanStep(a) PROVE (Noise(u, s) <= Limit(s))'
  <2>1. ASSUME NEW k \in Skus, Trigger(a, k) \/ TriggerMiscount(a, k)
        PROVE  unread' = unread /\ misreads' = misreads
    BY <2>1, TriggerCounts DEF TriggerCounted
  <2>2. ListLow(a) \/ TriggerFail(a) \/ ScanEnd(a) => unread' = unread /\ misreads' = misreads
    BY DEF ListLow, TriggerFail, ScanEnd
  <2>3. CASE ScanLoad(a) \/ ScanMisload(a)
    BY <1>0, <2>3, NoiseLoad
  <2>4. CASE \E k \in Skus : TriggerCommit(a, k)
    BY <1>0, <2>4, NoiseCommit
  <2>5. QED
    BY <1>1, <1>2, <2>1, <2>2, <2>3, <2>4 DEF ScanStep
<1>3. ASSUME scan' = scan, misreads' = misreads, unread'[u][s] <= unread[u][s],
             RowNames(s) \subseteq RowNames(s)'
      PROVE  (Noise(u, s) <= Limit(s))'
  <2>1. Due(s)' = Due(s)
    BY <1>3 DEF Due, Ahead
  <2>2. QED
    BY <1>0, <1>3, <2>1, QuietNoise
<1>4. CASE ReadStep
  <2>1. scan' = scan /\ misreads' = misreads /\ rows' = rows
    BY <1>4 DEF ReadStep, MarkRead, MarkAllRead, stockVars
  <2>2. unread'[u][s] <= unread[u][s]
    <3>1. ASSUME NEW v \in Users, NEW k \in Skus, MarkRead(v, k) PROVE unread'[u][s] <= unread[u][s]
      <4>1. unread'[u][s] \in {unread[u][s], unread[u][s] - 1}
        BY <1>0, <3>1 DEF MarkRead, TypeOK
      <4>2. QED
        BY <1>0, <4>1
    <3>2. ASSUME NEW v \in Users, MarkAllRead(v) PROVE unread'[u][s] <= unread[u][s]
      <4>1. unread'[u][s] \in {unread[u][s], 0}
        BY <1>0, <3>2 DEF MarkAllRead, TypeOK
      <4>2. QED
        BY <1>0, <4>1
    <3>3. QED
      BY <1>4, <3>1, <3>2 DEF ReadStep
  <2>3. QED
    BY <1>3, <2>1, <2>2 DEF RowNames
<1>5. CASE StockNext /\ UNCHANGED alertVars
  <2>1. StockMove
    BY <1>0, <1>5, AdjustStepMoves DEF StockNext, StockMove, TypeOK
  <2>2. RowNames(s) \subseteq RowNames(s)'
    BY <1>0, <2>1, NamesGrow DEF TypeOK
  <2>3. QED
    BY <1>0, <1>3, <1>5, <2>2 DEF alertVars
<1>6. CASE (\E v \in Users : UpdateUser(v)) \/ UNCHANGED vars
  <2>1. scan' = scan /\ misreads' = misreads /\ rows' = rows /\ unread' = unread
    BY <1>6 DEF UpdateUser, vars, stockVars, alertVars
  <2>2. QED
    BY <1>0, <1>3, <2>1 DEF RowNames
<1>7. QED
  BY <1>2, <1>4, <1>5, <1>6 DEF Next

\* At first nothing is unread and no scan has rows.
LEMMA NoiseInit == Init => NamedRows /\ NoiseInv
<1> SUFFICES ASSUME Init PROVE NamedRows /\ NoiseInv
  OBVIOUS
<1>1. NamedRows
  BY DEF Init, ScanInit, NamedRows, Idle
<1>2. ASSUME NEW u \in Users, NEW s \in Skus PROVE Noise(u, s) <= Limit(s)
  <2>1. Due(s) = {} /\ unread[u][s] = 0
    BY DEF Init, ScanInit, Due, Ahead, Idle
  <2>2. FiniteTables /\ TypeOK
    BY BookingInit, AlertsTypeInit DEF Init, BookingInv
  <2>3. Noise(u, s) = 0
    BY <2>1, FS_EmptySet DEF Noise
  <2>4. Limit(s) \in Nat
    <3>1. /\ Cardinality(Scanners) + misreads \in Nat
          /\ Cardinality(RowNames(s)) \in Nat
      BY <1>1, <2>2, NoiseCounts
    <3>2. QED
      BY <3>1, TimesGrow DEF Limit
  <2>5. QED
    BY <2>3, <2>4
<1>3. QED
  BY <1>1, <1>2 DEF NoiseInv

\* However long a shortage lasts and however often it is scanned for, nobody has
\* more unread messages about a SKU than scans can overlap, per row of the SKU,
\* plus one scan for every failed deduplication (CheckAndTrigger).
THEOREM AlertsNoiseBounded == Spec => []NoiseBounded
<1>1. WellKept /\ NoiseInv => NoiseBounded
  <2> SUFFICES ASSUME WellKept, NoiseInv, NEW u \in Users, NEW s \in Skus
               PROVE  unread[u][s] <= (Cardinality(Scanners) + misreads) * Cardinality(rows[s])
    BY DEF NoiseBounded
  <2> DEFINE k == Cardinality(Scanners)
             x == Cardinality(RowNames(s))
             y == Cardinality(rows[s])
  <2>1. /\ unread[u][s] \in Nat /\ Cardinality(Due(s)) \in Nat
        /\ k \in Nat /\ x \in Nat /\ misreads \in Nat
    BY NoiseCounts DEF WellKept
  <2>2. x <= y /\ y \in Nat
    BY NamesFinite, FS_CardinalityType DEF WellKept, FiniteTables, RowNames
  <2>3. (k + misreads) * x <= (k + misreads) * y
    BY <2>1, <2>2, TimesGrow
  <2>4. unread[u][s] + Cardinality(Due(s)) <= (k + misreads) * x
    BY DEF NoiseInv, Noise, Limit
  <2>5. (k + misreads) * x \in Int /\ (k + misreads) * y \in Int
    BY <2>1, <2>2
  <2> HIDE DEF k, x, y
  <2>6. unread[u][s] <= (k + misreads) * y
    BY <2>1, <2>3, <2>4, <2>5
  <2>7. QED
    BY <2>6 DEF k, y
<1>2. BookingInv => FiniteTables
  BY DEF BookingInv
<1>3. Init => BookingInv
  BY BookingInit DEF Init
<1>4. Init => BlindInv
  BY DEF Init, ScanInit, BlindInv, Ahead, Idle
<1>5. WellKept <=> TypeOK /\ FiniteTables /\ NamedRows
  BY DEF WellKept
<1>6. WellKept /\ WellKept' /\ BlindInv /\ NoiseInv /\ [Next]_vars => NoiseInv'
  BY NoiseStep
<1>7. QED
  BY <1>1, <1>2, <1>3, <1>4, <1>5, <1>6, AlertsTypeInit, AlertsTypeStep, AlertsBookingStep,
     BlindStep, NamedRowsStep, NoiseInit, PTL DEF Spec

=============================================================================
