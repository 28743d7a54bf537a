----------------------------- MODULE StockAlerts -----------------------------
(***************************************************************************)
(* The stock alert service (application/inventory/service.go) over the     *)
(* stock tables of Inventory: a scan lists the rows at or below their      *)
(* safety stock and, unless somebody has an unread message about the SKU,  *)
(* raises an inquiry order, with an alert row and a message to every       *)
(* manager, one transaction per row.                                       *)
(*                                                                         *)
(* Scans run every hour in a goroutine of the gateway and whenever an      *)
(* administrator asks for one; nothing keeps them apart.  What a scan      *)
(* reads first it uses to its end.                                         *)
(***************************************************************************)
EXTENDS Inventory

CONSTANTS
    Scanners,      \* scans that may run at one time
    Hourly,        \* the one the gateway runs by itself
    Users,         \* users who may be admin or manager
    MaxRaised,     \* bound: a scan starts while no SKU has this many orders
    MaxMisreads    \* bound: queries that fail to find what scans deduplicate by

ASSUME AlertsAssumption ==
    /\ Hourly \in Scanners
    /\ IsFiniteSet(Scanners)
    /\ MaxRaised \in Nat
    /\ MaxMisreads \in Nat

VARIABLES
    scan,          \* scan[a]: what scan a has in memory
    raised,        \* raised[s]: the number of orders raised for SKU s
    unread,        \* unread[u][s]: unread alert messages of user u about SKU s
    managers,      \* the enabled admins and managers
    supplied,      \* the SKUs a supplier is found for; fixed, as the tables are not modelled
    blind,         \* auxiliary: blind[a], the SKUs with messages scan a did not read
    misreads,      \* auxiliary: the number of scans that failed to read messages
    miscounts      \* auxiliary: miscounts[s], pending alerts of SKU s taken for none

alertVars == <<scan, raised, unread, managers, supplied, blind, misreads, miscounts>>
vars == <<stockVars, alertVars>>

RowRef == [sku : Skus, row : Ids]

\* listed: the rows are read; loaded: the rest is; raising: the transaction for
\* one row has counted the pending alerts of its SKU.
Scan ==
    {Idle}
    \cup [pc : {"listed"}, todo : SUBSET RowRef]
    \cup [pc : {"loaded"}, todo : SUBSET RowRef, users : SUBSET Users]
    \cup [pc : {"raising"}, todo : SUBSET RowRef, users : SUBSET Users,
          row : RowRef, alerted : BOOLEAN]

\* Type invariant of the scans and of what they write.
TypeOK ==
    /\ StockTypeOK
    /\ scan \in [Scanners -> Scan]
    /\ raised \in [Skus -> Nat]
    /\ unread \in [Users -> [Skus -> Nat]]
    /\ managers \subseteq Users
    /\ supplied \subseteq Skus
    /\ blind \in [Scanners -> SUBSET Skus]
    /\ misreads \in Nat
    /\ miscounts \in [Skus -> Nat]

\* No scan has run yet; a supplier is found for some of the SKUs.  (The messages
\* of the seed data name an alert, not a SKU, and are not these.)
ScanInit ==
    /\ scan = [a \in Scanners |-> Idle]
    /\ raised = [s \in Skus |-> 0]
    /\ unread = [u \in Users |-> [s \in Skus |-> 0]]
    /\ managers \in SUBSET Users
    /\ supplied \in SUBSET Skus
    /\ blind = [a \in Scanners |-> {}]
    /\ misreads = 0
    /\ miscounts = [s \in Skus |-> 0]

Init == StockInit /\ ScanInit

-----------------------------------------------------------------------------
(***************************************************************************)
(* CheckAndTrigger.                                                        *)
(***************************************************************************)

\* safety_stock > 0 AND available_qty <= safety_stock
LowRows(s) == {x \in rows[s] : x.safety > 0 /\ x.qty <= x.safety}

Low == {ref \in RowRef : \E x \in LowRows(ref.sku) : x.id = ref.row}

\* Seeded faults: read messages count as well; only what everybody has unread
\* counts.
UnreadEver == {s \in Skus : raised[s] > 0}
UnreadByAll == {s \in Skus : \A u \in Users : unread[u][s] > 0}

\* The SKUs somebody has an unread message about.
Unread == {s \in Skus : \E u \in Users : unread[u][s] > 0}

\* The query for low stock.
ListLow(a) ==
    /\ scan[a] = Idle
    /\ \A s \in Skus : raised[s] < MaxRaised
    /\ Low # {}
    /\ scan' = [scan EXCEPT ![a] = [pc |-> "listed", todo |-> Low]]
    /\ UNCHANGED <<stockVars, raised, unread, managers, supplied, blind, misreads, miscounts>>

\* The scan after it has done with a row, or with loading.
Onward(todo, users) ==
    IF todo = {} THEN Idle ELSE [pc |-> "loaded", todo |-> todo, users |-> users]

\* Suppliers, users and unread messages are loaded once.  The loop skips the
\* rows whose SKU is known to be unread, and those without a supplier.
Load(a, known, users) ==
    LET todo == {x \in scan[a].todo : x.sku \notin known /\ x.sku \in supplied}
    IN  /\ scan[a].pc = "listed"
        /\ scan' = [scan EXCEPT ![a] = Onward(todo, users)]
        /\ UNCHANGED <<stockVars, raised, unread, managers, supplied, miscounts>>

ScanLoad(a) ==
    /\ Load(a, Unread, managers)
    /\ blind' = [blind EXCEPT ![a] = {}]
    /\ UNCHANGED misreads

\* The bound on the queries that fail.
MayMisread(s) == misreads + miscounts[s] < MaxMisreads

\* The errors of the loads are ignored: without the messages nothing is known
\* to be unread, without the users nobody is told.
ScanMisload(a) ==
    \/ /\ Load(a, Unread, {})
       /\ blind' = [blind EXCEPT ![a] = {}]
       /\ UNCHANGED misreads
    \/ /\ \A s \in Skus : MayMisread(s)
       /\ \E users \in {managers, {}} : Load(a, {}, users)
       /\ blind' = [blind EXCEPT ![a] = Unread]
       /\ misreads' = misreads + 1

-----------------------------------------------------------------------------
(***************************************************************************)
(* triggerOne, a transaction per row.                                      *)
(***************************************************************************)

\* The order and its log line are inserted and the pending alerts counted;
\* "pending" is what the count says.
TriggerCounted(a, s, pending) ==
    /\ scan[a].pc = "loaded"
    /\ \E x \in scan[a].todo :
          /\ x.sku = s
          /\ scan' = [scan EXCEPT ![a] =
                 [pc |-> "raising", todo |-> scan[a].todo, users |-> scan[a].users,
                  row |-> x, alerted |-> pending]]
    /\ UNCHANGED <<stockVars, raised, unread, managers, supplied, blind, misreads>>

\* Seeded faults: the pending alerts are not counted; the messages are written
\* outside the transaction.
TriggerUncounted(a, s) == TriggerCounted(a, s, FALSE) /\ UNCHANGED miscounts
TriggerTelling(a, s) ==
    /\ scan[a].pc = "loaded"
    /\ \E x \in scan[a].todo :
          /\ x.sku = s
          /\ scan' = [scan EXCEPT ![a] =
                 [pc |-> "raising", todo |-> scan[a].todo, users |-> {},
                  row |-> x, alerted |-> alerts[s] > 0]]
    /\ unread' = [u \in Users |->
           IF u \in scan[a].users THEN [unread[u] EXCEPT ![s] = @ + 1] ELSE unread[u]]
    /\ UNCHANGED <<stockVars, raised, managers, supplied, blind, misreads, miscounts>>

Trigger(a, s) == TriggerCounted(a, s, alerts[s] > 0) /\ UNCHANGED miscounts

\* The error of the count is ignored: what is pending is taken for none.
TriggerMiscount(a, s) ==
    /\ alerts[s] > 0 /\ MayMisread(s)
    /\ TriggerCounted(a, s, FALSE)
    /\ miscounts' = [miscounts EXCEPT ![s] = @ + 1]

\* What the transaction of scan a is about.
Raising(a, s) == scan[a].pc = "raising" /\ scan[a].row.sku = s

\* The order (RaiseInquiry of PurchaseOrders), an alert unless one was pending,
\* and a message to each user, committed together.
TriggerCommit(a, s) ==
    LET users == scan[a].users
    IN  /\ Raising(a, s)
        /\ raised' = [raised EXCEPT ![s] = @ + 1]
        /\ alerts' = IF scan[a].alerted THEN alerts ELSE [alerts EXCEPT ![s] = @ + 1]
        /\ unread' = [u \in Users |->
               IF u \in users THEN [unread[u] EXCEPT ![s] = @ + 1] ELSE unread[u]]
        /\ blind' = [b \in Scanners |->
               IF scan[b].pc \in {"loaded", "raising"} /\ users # {}
               THEN blind[b] \cup {s} ELSE blind[b]]
        /\ scan' = [scan EXCEPT ![a] = Onward(@.todo \ {@.row}, users)]
        /\ UNCHANGED <<rows, movements, stx, managers, supplied, misreads, miscounts>>

\* An insert or the commit fails: rolled back, and on to the next row.
TriggerFail(a) ==
    /\ scan[a].pc = "raising"
    /\ scan' = [scan EXCEPT ![a] = Onward(@.todo \ {@.row}, @.users)]
    /\ UNCHANGED <<stockVars, raised, unread, managers, supplied, blind, misreads, miscounts>>

\* The gateway stops, or loading suppliers fails and every row is skipped.
ScanEnd(a) ==
    /\ scan[a].pc # "idle"
    /\ scan' = [scan EXCEPT ![a] = Idle]
    /\ UNCHANGED <<stockVars, raised, unread, managers, supplied, blind, misreads, miscounts>>

-----------------------------------------------------------------------------
(***************************************************************************)
(* Users reading their messages, and changes of who is told.               *)
(***************************************************************************)

\* PUT /messages/:id/read
MarkRead(u, s) ==
    /\ unread[u][s] > 0
    /\ unread' = [unread EXCEPT ![u][s] = @ - 1]
    /\ UNCHANGED <<stockVars, scan, raised, managers, supplied, blind, misreads, miscounts>>

\* POST /messages/read-all
MarkAllRead(u) ==
    /\ unread' = [unread EXCEPT ![u] = [s \in Skus |-> 0]]
    /\ UNCHANGED <<stockVars, scan, raised, managers, supplied, blind, misreads, miscounts>>

\* PUT and DELETE /users/:id: a role or status changes, or the user is gone.
\* The messages stay.
UpdateUser(u) ==
    /\ managers' \in {managers \cup {u}, managers \ {u}}
    /\ UNCHANGED <<stockVars, scan, raised, unread, supplied, blind, misreads, miscounts>>

ScanStep(a) ==
    \/ ListLow(a)
    \/ ScanLoad(a)
    \/ ScanMisload(a)
    \/ \E s \in Skus : Trigger(a, s) \/ TriggerMiscount(a, s) \/ TriggerCommit(a, s)
    \/ TriggerFail(a)
    \/ ScanEnd(a)

ReadStep == \E u \in Users : (\E s \in Skus : MarkRead(u, s)) \/ MarkAllRead(u)

Next ==
    \/ \E a \in Scanners : ScanStep(a)
    \/ ReadStep
    \/ \E u \in Users : UpdateUser(u)
    \/ StockNext /\ UNCHANGED alertVars

Spec == Init /\ [][Next]_vars

\* The ticker starts a scan again and again, and no failure strikes at the same
\* place every time: what the hourly scan may do again and again, it does.
Fairness ==
    /\ WF_vars(ListLow(Hourly))
    /\ SF_vars(ScanLoad(Hourly))
    /\ \A s \in Skus : SF_vars(Trigger(Hourly, s)) /\ SF_vars(TriggerCommit(Hourly, s))

FairSpec == Spec /\ Fairness

-----------------------------------------------------------------------------
(***************************************************************************)
(* Properties.                                                             *)
(***************************************************************************)

\* Somebody has an unread message about SKU s.
Told(s) == \E u \in Users : unread[u][s] > 0

\* No order is raised for a SKU with an unread message ("not created again
\* while an unread message exists", CheckAndTrigger), except when the scan did not
\* read that message: another scan, or an earlier row of the same SKU, wrote it
\* after the messages had been loaded, or loading them failed.
RaisedOnlyUnseen ==
    [][\A a \in Scanners, s \in Skus :
           TriggerCommit(a, s) /\ Told(s) => s \in blind[a]]_vars

\* However long a shortage lasts, nobody has more unread messages about a SKU
\* than scans can overlap, per row it has; a failed deduplication adds one scan.
NoiseBounded ==
    \A u \in Users, s \in Skus :
        unread[u][s] <= (Cardinality(Scanners) + misreads) * Cardinality(rows[s])

\* Nor do alert rows pile up: besides those of adjustments, at most one pending
\* alert per overlapping scan, although each looks before the others commit, and
\* one more each time a scan failed to count what was pending.
PendingBounded ==
    \A s \in Skus :
        alerts[s] <= Cardinality(Scanners) + miscounts[s]
                     + Cardinality({m \in movements[s] : m.ref = "adjust"})

\* A message about a SKU speaks of an order that exists: nobody has more unread
\* messages about it than orders were raised.
MessagesHaveOrders == \A u \in Users, s \in Skus : unread[u][s] <= raised[s]

\* A shortage that lasts is not forgotten: as long as there is a supplier and
\* somebody to tell, there is an unread message about it again and again.
Noticed ==
    \A s \in Skus :
        /\ [](\A k \in Skus : raised[k] < MaxRaised)
        /\ <>[](LowRows(s) # {} /\ s \in supplied /\ managers # {})
        => []<>Told(s)

=============================================================================
