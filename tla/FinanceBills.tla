----------------------------- MODULE FinanceBills -----------------------------
(***************************************************************************)
(* Bills and their reconciliation with purchase orders                     *)
(* (application/finance/service.go, handler/finance.go).                   *)
(*                                                                         *)
(* A bill is created, corrected, matched with its order and paid by        *)
(* requests, and AutoMatch, run when the gateway starts and on request,    *)
(* decides every bill that is waiting.  No statement checks the status it  *)
(* overwrites and nothing keeps the requests apart: AutoMatch works to its *)
(* end on the bills it read first.                                         *)
(*                                                                         *)
(* Amounts are counted in the unit of the tolerance (one yuan) or a part   *)
(* of it.  The paid amount is left out: nothing is decided by it.          *)
(***************************************************************************)
EXTENDS Integers, FiniteSets

CONSTANTS
    Bills,        \* ids of bills
    Orders,       \* purchase orders; a bill may name one by id and one by number
    NoOrder,      \* a bill names no order, or one there is not
    Users,        \* users who may be admin or manager
    Requests,     \* requests, and the call at startup, that may run at one time
    Amounts,      \* payable amounts and order totals
    Tolerance,    \* matchTolerance
    MaxEdits      \* bound: corrections of bills and orders

ASSUME BillsAssumption ==
    /\ NoOrder \notin Orders
    /\ IsFiniteSet(Requests)
    /\ Amounts \subseteq Int
    /\ Tolerance \in Nat
    /\ MaxEdits \in Nat

VARIABLES
    bills,        \* the bills, Absent when not created yet
    total,        \* total[o]: total_amount of order o
    managers,     \* the enabled admins and managers
    told,         \* told[u][b]: messages written to user u about a dispute of b
    req,          \* req[r]: what request r has in memory
    edits,        \* the corrections made, for MaxEdits
    outrun,       \* auxiliary: outrun[r], bills whose terms changed after r read them
    paidSince,    \* auxiliary: paidSince[r], bills paid after r read them
    dirty,        \* auxiliary: bills whose terms changed after what decided them
    misread,      \* auxiliary: bills decided without the order they name
    excused       \* auxiliary: bills whose dispute need not be reported

vars == <<bills, total, managers, told, req, edits, outrun, paidSince, dirty, misread, excused>>

Statuses == {"draft", "matching", "matched", "disputed", "paid"}

Refs == Orders \cup {NoOrder}

\* order is order_id, which is never changed; orderNo is order_no.
Bill == [status : Statuses, payable : Amounts, diff : Int, order : Refs, orderNo : Refs]

Absent == [status |-> "absent"]

\* What AutoMatch keeps of a bill it does not skip.
Copy == [bill : Bills, payable : Amounts, orderNo : Orders]

Idle == [pc |-> "idle"]

\* read, judging: MatchBill has read the bill, then its order, which may not be
\* found.  loop: AutoMatch
\* between two bills; compared: it has read the order of a bill; telling: it has
\* written the dispute and not yet the messages.
Request ==
    {Idle}
    \cup [pc : {"read"}, bill : Bills, payable : Amounts, order : Refs]
    \cup [pc : {"judging"}, bill : Bills, diff : Int, found : BOOLEAN]
    \cup [pc : {"loop"}, todo : SUBSET Copy, users : SUBSET Users]
    \cup [pc : {"compared"}, todo : SUBSET Copy, users : SUBSET Users, bill : Bills, diff : Int]
    \cup [pc : {"telling"}, todo : SUBSET Copy, users : SUBSET Users, bill : Bills]

\* Type invariant.
TypeOK ==
    /\ bills \in [Bills -> Bill \cup {Absent}]
    /\ total \in [Orders -> Amounts]
    /\ managers \subseteq Users
    /\ told \in [Users -> [Bills -> Nat]]
    /\ req \in [Requests -> Request]
    /\ edits \in Nat
    /\ outrun \in [Requests -> SUBSET Bills]
    /\ paidSince \in [Requests -> SUBSET Bills]
    /\ dirty \subseteq Bills
    /\ misread \subseteq Bills
    /\ excused \subseteq Bills

\* A seeded bill is for the total of its order.  It is waiting or paid, or
\* disputed by an invented difference.
SeedBill(o) ==
    {[status |-> s, payable |-> total[o], diff |-> 0, order |-> o, orderNo |-> o] :
        s \in {"matching", "paid"}}
    \cup
    {[status |-> "disputed", payable |-> total[o], diff |-> d, order |-> o, orderNo |-> o] :
        d \in Amounts \ {0}}

\* Some bills are there, each for some order.
Init ==
    /\ total \in [Orders -> Amounts]
    /\ bills \in [Bills -> {Absent} \cup UNION {SeedBill(o) : o \in Orders}]
    /\ managers \in SUBSET Users
    /\ told = [u \in Users |-> [b \in Bills |-> 0]]
    /\ req = [r \in Requests |-> Idle]
    /\ edits = 0
    /\ outrun = [r \in Requests |-> {}]
    /\ paidSince = [r \in Requests |-> {}]
    /\ dirty = Bills
    /\ misread = {}
    /\ excused = Bills

-----------------------------------------------------------------------------
(***************************************************************************)
(* Requests of one statement: CreateBill, UpdateBill, PayBill, and the     *)
(* requests elsewhere that change an order or a user.                      *)
(***************************************************************************)

Exists(b) == bills[b] # Absent

\* The requests that compare what a change outruns.
Outrun(B, pcs) ==
    outrun' = [r \in Requests |-> IF req[r].pc \in pcs THEN outrun[r] \cup B ELSE outrun[r]]

CreateBill(b) ==
    /\ ~Exists(b)
    /\ \E p \in Amounts, o \in Refs, n \in Refs :
          bills' = [bills EXCEPT ![b] =
              [status |-> "draft", payable |-> p, diff |-> 0, order |-> o, orderNo |-> n]]
    /\ UNCHANGED <<total, managers, told, req, edits, outrun, paidSince, dirty, misread, excused>>

\* PUT /finance/bills/:id, whatever the status: status and difference stay.
UpdateBill(b) ==
    /\ edits < MaxEdits
    /\ Exists(b)
    /\ \E p \in Amounts, n \in Refs :
          bills' = [bills EXCEPT ![b].payable = p, ![b].orderNo = n]
    /\ edits' = edits + 1
    /\ dirty' = dirty \cup {b}
    /\ Outrun({b}, {"read", "judging", "loop", "compared", "telling"})
    /\ UNCHANGED <<total, managers, told, req, paidSince, misread, excused>>

\* POST /finance/bills/:id/pay, whatever the status.
PayBill(b) ==
    /\ Exists(b)
    /\ bills' = [bills EXCEPT ![b].status = "paid"]
    /\ paidSince' = [r \in Requests |-> IF req[r] = Idle THEN {} ELSE paidSince[r] \cup {b}]
    /\ UNCHANGED <<total, managers, told, req, edits, outrun, dirty, misread, excused>>

\* UpdateOrder of the purchase handler.  It accepts an order in inquiry or
\* quoting; any order can come back to inquiry (cancel, reopen).
UpdateOrder(o) ==
    LET B == {b \in Bills : Exists(b) /\ o \in {bills[b].order, bills[b].orderNo}}
    IN  /\ edits < MaxEdits
        /\ \E t \in Amounts : total' = [total EXCEPT ![o] = t]
        /\ edits' = edits + 1
        /\ dirty' = dirty \cup B
        /\ Outrun(B, {"judging", "compared"})
        /\ UNCHANGED <<bills, managers, told, req, paidSince, misread, excused>>

\* PUT and DELETE /users/:id.
UpdateUser(u) ==
    /\ managers' \in {managers \cup {u}, managers \ {u}}
    /\ UNCHANGED <<bills, total, told, req, edits, outrun, paidSince, dirty, misread, excused>>

-----------------------------------------------------------------------------
(***************************************************************************)
(* MatchBill.                                                              *)
(***************************************************************************)

\* Request r starts on what it has just read.
Begin(r, state) ==
    /\ req[r] = Idle
    /\ req' = [req EXCEPT ![r] = state]
    /\ outrun' = [outrun EXCEPT ![r] = {}]
    /\ paidSince' = [paidSince EXCEPT ![r] = {}]
    /\ UNCHANGED <<bills, total, managers, told, edits, dirty, misread, excused>>

\* One UPDATE by id: status, diff_amount and matched_at.
Decide(r, b, verdict, d, found) ==
    /\ bills' = [bills EXCEPT ![b].status = verdict, ![b].diff = d]
    /\ dirty' = IF b \in outrun[r] THEN dirty \cup {b} ELSE dirty \ {b}
    /\ misread' = IF found THEN misread \ {b} ELSE misread \cup {b}

MatchRead(r, b) ==
    /\ Exists(b)
    /\ Begin(r, [pc |-> "read", bill |-> b, payable |-> bills[b].payable, order |-> bills[b].order])

\* An order that is not found counts as zero, and so does one that is there
\* when the query fails.
Owed(o, found) == IF found THEN total[o] ELSE 0

MatchCompare(r) ==
    /\ req[r].pc = "read"
    /\ \E found \in {FALSE, req[r].order # NoOrder} :
          req' = [req EXCEPT ![r] =
              [pc |-> "judging", bill |-> @.bill, diff |-> @.payable - Owed(@.order, found),
               found |-> found]]
    /\ UNCHANGED <<bills, total, managers, told, edits, outrun, paidSince, dirty, misread, excused>>

\* No message is written.
MatchWrite(r) ==
    LET q == req[r]
    IN  /\ q.pc = "judging"
        /\ Decide(r, q.bill, IF q.diff = 0 THEN "matched" ELSE "disputed", q.diff, q.found)
        /\ req' = [req EXCEPT ![r] = Idle]
        /\ excused' = excused \cup {q.bill}
        /\ UNCHANGED <<total, managers, told, edits, outrun, paidSince>>

-----------------------------------------------------------------------------
(***************************************************************************)
(* AutoMatch.                                                              *)
(***************************************************************************)

\* Seeded faults: everything not matched is waiting; disputed bills are tried
\* again.
WaitingUnmatched == {b \in Bills : Exists(b) /\ bills[b].status # "matched"}
WaitingDisputed == {b \in Bills : bills[b].status \in {"draft", "matching", "disputed"}}

Waiting == {b \in Bills : bills[b].status \in {"draft", "matching"}}

\* What loadNotifyUserIDs may give: the error of its query is ignored, and then
\* there is nobody to tell.
NotifyUserIDs == {managers, {}}

\* The bills are read, then the users; a change of users in between is one made
\* before.  Bills without an order to compare with are skipped.
BatchList(r) ==
    LET copies == {[bill |-> b, payable |-> bills[b].payable, orderNo |-> bills[b].orderNo] :
                      b \in Waiting}
    IN  /\ copies # {}
        /\ \E users \in NotifyUserIDs :
              Begin(r, [pc |-> "loop", todo |-> {x \in copies : x.orderNo # NoOrder},
                        users |-> users])

\* The order of the next bill is read.
BatchCompare(r) ==
    /\ req[r].pc = "loop"
    /\ \E x \in req[r].todo :
          req' = [req EXCEPT ![r] =
              [pc |-> "compared", todo |-> @.todo \ {x}, users |-> @.users,
               bill |-> x.bill, diff |-> x.payable - total[x.orderNo]]]
    /\ UNCHANGED <<bills, total, managers, told, edits, outrun, paidSince, dirty, misread, excused>>

\* Seeded fault: the difference is compared without Abs.
WithinSigned(d) == d <= Tolerance

Within(d) == -Tolerance <= d /\ d <= Tolerance

Loop(q) == [pc |-> "loop", todo |-> q.todo, users |-> q.users]

\* Seeded fault: only bills for too much are reported.
BatchWriteQuiet(r) ==
    LET q == req[r]
    IN  /\ q.pc = "compared"
        /\ Decide(r, q.bill, IF Within(q.diff) THEN "matched" ELSE "disputed", q.diff, TRUE)
        /\ req' = [req EXCEPT ![r] =
               IF q.diff <= Tolerance THEN Loop(q)
               ELSE [pc |-> "telling", todo |-> q.todo, users |-> q.users, bill |-> q.bill]]
        /\ excused' = excused \ {q.bill}
        /\ UNCHANGED <<total, managers, told, edits, outrun, paidSince>>

BatchWrite(r) ==
    LET q == req[r]
    IN  /\ q.pc = "compared"
        /\ Decide(r, q.bill, IF Within(q.diff) THEN "matched" ELSE "disputed", q.diff, TRUE)
        /\ req' = [req EXCEPT ![r] =
               IF Within(q.diff) THEN Loop(q)
               ELSE [pc |-> "telling", todo |-> q.todo, users |-> q.users, bill |-> q.bill]]
        /\ excused' = excused \ {q.bill}
        /\ UNCHANGED <<total, managers, told, edits, outrun, paidSince>>

\* createDisputeMessages: one insert for all users.
BatchTell(r) ==
    LET q == req[r]
    IN  /\ q.pc = "telling"
        /\ told' = [u \in Users |->
               IF u \in q.users THEN [told[u] EXCEPT ![q.bill] = @ + 1] ELSE told[u]]
        /\ excused' = IF q.users = {} THEN excused \cup {q.bill} ELSE excused
        /\ req' = [req EXCEPT ![r] = Loop(q)]
        /\ UNCHANGED <<bills, total, managers, edits, outrun, paidSince, dirty, misread>>

\* The insert fails: logged, and on to the next bill.
BatchTellFail(r) ==
    LET q == req[r]
    IN  /\ q.pc = "telling"
        /\ excused' = excused \cup {q.bill}
        /\ req' = [req EXCEPT ![r] = Loop(q)]
        /\ UNCHANGED <<bills, total, managers, told, edits, outrun, paidSince, dirty, misread>>

\* A batch has done all, a statement fails, or the gateway stops.
End(r) ==
    /\ req[r] # Idle
    /\ excused' = IF req[r].pc = "telling" THEN excused \cup {req[r].bill} ELSE excused
    /\ req' = [req EXCEPT ![r] = Idle]
    /\ UNCHANGED <<bills, total, managers, told, edits, outrun, paidSince, dirty, misread>>

MatchStep(r) == (\E b \in Bills : MatchRead(r, b)) \/ MatchCompare(r) \/ MatchWrite(r)

BatchStep(r) ==
    BatchList(r) \/ BatchCompare(r) \/ BatchWrite(r) \/ BatchTell(r) \/ BatchTellFail(r)

Next ==
    \/ \E b \in Bills : CreateBill(b) \/ UpdateBill(b) \/ PayBill(b)
    \/ \E o \in Orders : UpdateOrder(o)
    \/ \E u \in Users : UpdateUser(u)
    \/ \E r \in Requests : MatchStep(r) \/ BatchStep(r) \/ End(r)

Spec == Init /\ [][Next]_vars

-----------------------------------------------------------------------------
(***************************************************************************)
(* Properties.                                                             *)
(***************************************************************************)

\* What the payable amount of a bill may rightly have been compared with: the
\* total of the order it names by id (MatchBill) or by number (AutoMatch).
Comparable(x) == {total[o] : o \in Orders \cap {x.order, x.orderNo}}

\* Whoever decided a bill and whatever ran beside it: unless its terms changed
\* after they were read, its difference is that to its order, a matched bill is
\* within the tolerance of one yuan and a disputed one does differ.  Only where
\* MatchBill found no order, because there is none or its query failed, the
\* difference is the whole amount of the bill.
DecidedRight ==
    \A b \in Bills \ dirty :
        bills[b].status \in {"matched", "disputed"} =>
            /\ IF b \in misread
               THEN bills[b].diff = bills[b].payable
               ELSE \E t \in Comparable(bills[b]) : bills[b].diff = bills[b].payable - t
            /\ bills[b].status = "matched" =>
                  bills[b].diff <= Tolerance /\ -bills[b].diff <= Tolerance
            /\ bills[b].status = "disputed" => bills[b].diff # 0

\* Request r is a MatchBill of bill b.
MatchOf(r, b) == req[r].pc \in {"read", "judging"} /\ req[r].bill = b

\* A payment is undone only by a request to match that very bill, or by a batch
\* that had read the bill before it was paid (AutoMatch takes waiting bills only).
PaymentKept ==
    [][\A b \in Bills :
           bills[b].status = "paid" /\ bills'[b].status # "paid" =>
               \E r \in Requests : MatchOf(r, b) \/ b \in paidSince[r]]_vars

\* A bill AutoMatch left disputed has been reported to somebody or is about to
\* be, unless the insert of the messages failed, the gateway stopped before it,
\* or the batch knew of nobody to tell, because there was nobody or the query for
\* the users failed: no later batch takes the bill up again.
DisputeReported ==
    \A b \in Bills \ excused :
        bills[b].status = "disputed" =>
            \/ \E u \in Users : told[u][b] > 0
            \/ \E r \in Requests : req[r].pc = "telling" /\ req[r].bill = b

\* However often AutoMatch runs, nobody has more messages about a bill than
\* batches can overlap: a decided bill never waits again.
ReportsBounded == \A u \in Users, b \in Bills : told[u][b] <= Cardinality(Requests)

=============================================================================
