-------------------------- MODULE FinanceBillsProofs --------------------------
(***************************************************************************)
(* Proofs about FinanceBills, for any bills, orders, users, amounts and    *)
(* any number of requests.                                                 *)
(***************************************************************************)
EXTENDS FinanceBills, FiniteSetTheorems, TLAPS

\* The bills a batch has still to take up.
Todo(r) == IF req[r].pc \in {"loop", "compared", "telling"} THEN req[r].todo ELSE {}

\* Request r has bill b in hand.
InHand(r, b) ==
    req[r].pc \in {"read", "judging", "compared", "telling"} /\ req[r].bill = b

\* No request works on a bill that is not there: bills are never deleted.
NamedExist ==
    \A r \in Requests, b \in Bills :
        InHand(r, b) \/ (\E x \in Todo(r) : x.bill = b) => Exists(b)

TypeInv == TypeOK /\ NamedExist

-----------------------------------------------------------------------------
(***************************************************************************)
(* Types.                                                                  *)
(***************************************************************************)

\* What a request has in memory, by stage.
LEMMA RequestFields ==
    ASSUME req \in [Requests -> Request], NEW r \in Requests
    PROVE  /\ req[r].pc \in {"idle", "read", "judging", "loop", "compared", "telling"}
           /\ req[r].pc = "idle" <=> req[r] = Idle
           /\ req[r].pc = "read" =>
                 req[r].bill \in Bills /\ req[r].payable \in Amounts /\ req[r].order \in Refs
           /\ req[r].pc \in {"judging", "compared"} => req[r].bill \in Bills /\ req[r].diff \in Int
           /\ req[r].pc = "judging" => req[r].found \in BOOLEAN
           /\ req[r].pc = "telling" => req[r].bill \in Bills
           /\ req[r].pc \in {"loop", "compared", "telling"} =>
                 req[r].todo \subseteq Copy /\ req[r].users \subseteq Users
<1>1. req[r] \in Request
  OBVIOUS
<1>2. QED
  BY <1>1 DEF Request, Idle

\* A bill that exists has all its fields.
LEMMA BillFields ==
    ASSUME TypeOK, NEW b \in Bills, Exists(b)
    PROVE  bills[b] \in Bill
BY DEF TypeOK, Exists

\* A draft is not Absent, nor is any bill.
LEMMA BillNotAbsent == \A x \in Bill : x # Absent
BY DEF Bill, Absent, Statuses

\* Amounts are integers, and so are their differences.
LEMMA OwedInt ==
    ASSUME TypeOK, NEW o, NEW found \in BOOLEAN, found => o \in Orders
    PROVE  Owed(o, found) \in Int
<1>1. CASE ~found
  BY <1>1 DEF Owed
<1>2. CASE found
  <2>1. total[o] \in Amounts
    BY <1>2 DEF TypeOK
  <2>2. QED
    BY <1>2, <2>1, BillsAssumption DEF Owed
<1>3. QED
  BY <1>1, <1>2

\* What is left of a batch after a bill.
LEMMA LoopType ==
    ASSUME TypeOK, NEW r \in Requests, req[r].pc \in {"compared", "telling"}
    PROVE  Loop(req[r]) \in Request
<1>1. req[r].todo \subseteq Copy /\ req[r].users \subseteq Users
  BY RequestFields DEF TypeOK
<1>2. QED
  BY <1>1 DEF Loop, Request

\* Replacing the status, and the difference, of a bill.
LEMMA DecideType ==
    ASSUME TypeOK, NEW r \in Requests, NEW b \in Bills, Exists(b), NEW s \in Statuses,
           NEW d \in Int, NEW found, Decide(r, b, s, d, found)
    PROVE  /\ bills' \in [Bills -> Bill \cup {Absent}]
           /\ dirty' \subseteq Bills /\ misread' \subseteq Bills
           /\ \A c \in Bills : Exists(c)' <=> Exists(c)
<1>1. [bills[b] EXCEPT !.status = s, !.diff = d] \in Bill
  BY BillFields DEF Bill
<1>2. bills' = [bills EXCEPT ![b] = [bills[b] EXCEPT !.status = s, !.diff = d]]
  BY DEF Decide, TypeOK
<1>3. QED
  BY <1>1, <1>2, BillNotAbsent DEF Decide, TypeOK, Exists

\* Requests of one statement keep the types.
LEMMA StatementTypes ==
    ASSUME TypeInv, NEW b \in Bills, CreateBill(b) \/ UpdateBill(b) \/ PayBill(b)
    PROVE  TypeInv'
<1> USE DEF TypeInv
<1>1. CASE CreateBill(b)
  <2>1. PICK p \in Amounts, o \in Refs, n \in Refs :
            bills' = [bills EXCEPT ![b] =
                [status |-> "draft", payable |-> p, diff |-> 0, order |-> o, orderNo |-> n]]
    BY <1>1 DEF CreateBill
  <2>2. [status |-> "draft", payable |-> p, diff |-> 0, order |-> o, orderNo |-> n] \in Bill
    BY DEF Bill, Statuses
  <2>3. TypeOK'
    BY <1>1, <2>1, <2>2 DEF CreateBill, TypeOK
  <2>4. \A c \in Bills : Exists(c) => Exists(c)'
    BY <2>1, <2>2, BillNotAbsent DEF Exists, TypeOK
  <2>5. QED
    BY <1>1, <2>3, <2>4 DEF CreateBill, NamedExist, InHand, Todo
<1>2. CASE UpdateBill(b)
  <2>1. PICK p \in Amounts, n \in Refs :
            bills' = [bills EXCEPT ![b].payable = p, ![b].orderNo = n]
    BY <1>2 DEF UpdateBill
  <2>2. [bills[b] EXCEPT !.payable = p, !.orderNo = n] \in Bill
    BY <1>2, BillFields DEF UpdateBill, Bill
  <2>3. bills' = [bills EXCEPT ![b] = [bills[b] EXCEPT !.payable = p, !.orderNo = n]]
    BY <2>1 DEF TypeOK
  <2>4. outrun' \in [Requests -> SUBSET Bills]
    BY <1>2 DEF UpdateBill, Outrun, TypeOK
  <2>5. TypeOK'
    <3>1. bills' \in [Bills -> Bill \cup {Absent}]
      BY <2>2, <2>3 DEF TypeOK
    <3>2. edits' = edits + 1 /\ dirty' = dirty \cup {b}
      BY <1>2, Zenon DEF UpdateBill
    <3>3. UNCHANGED <<total, managers, told, req, paidSince, misread, excused>>
      BY <1>2, Zenon DEF UpdateBill
    <3>4. QED
      BY <2>4, <3>1, <3>2, <3>3 DEF TypeOK
  <2>6. \A c \in Bills : Exists(c) => Exists(c)'
    BY <2>2, <2>3, BillNotAbsent DEF Exists, TypeOK
  <2>7. QED
    BY <1>2, <2>5, <2>6 DEF UpdateBill, NamedExist, InHand, Todo
<1>3. CASE PayBill(b)
  <2>1. [bills[b] EXCEPT !.status = "paid"] \in Bill
    BY <1>3, BillFields DEF PayBill, Bill, Statuses
  <2>2. bills' = [bills EXCEPT ![b] = [bills[b] EXCEPT !.status = "paid"]]
    BY <1>3 DEF PayBill, TypeOK
  <2>3. paidSince' \in [Requests -> SUBSET Bills]
    BY <1>3 DEF PayBill, TypeOK
  <2>4. TypeOK'
    BY <1>3, <2>1, <2>2, <2>3 DEF PayBill, TypeOK
  <2>5. \A c \in Bills : Exists(c) => Exists(c)'
    BY <2>1, <2>2, BillNotAbsent DEF Exists, TypeOK
  <2>6. QED
    BY <1>3, <2>4, <2>5 DEF PayBill, NamedExist, InHand, Todo
<1>4. QED
  BY <1>1, <1>2, <1>3

\* So do corrections of orders and changes of users.
LEMMA OutsideTypes ==
    ASSUME TypeInv, (\E o \in Orders : UpdateOrder(o)) \/ (\E u \in Users : UpdateUser(u))
    PROVE  TypeInv'
<1> USE DEF TypeInv
<1>1. ASSUME NEW o \in Orders, UpdateOrder(o) PROVE TypeInv'
  <2>1. outrun' \in [Requests -> SUBSET Bills]
    BY <1>1 DEF UpdateOrder, Outrun, TypeOK
  <2>2. TypeOK'
    BY <1>1, <2>1 DEF UpdateOrder, TypeOK
  <2>3. QED
    BY <1>1, <2>2 DEF UpdateOrder, NamedExist, InHand, Todo, Exists
<1>2. ASSUME NEW u \in Users, UpdateUser(u) PROVE TypeInv'
  <2>1. TypeOK'
    BY <1>2 DEF UpdateUser, TypeOK
  <2>2. QED
    BY <1>2, <2>1 DEF UpdateUser, NamedExist, InHand, Todo, Exists
<1>3. QED
  BY <1>1, <1>2

\* A request that goes on to state q, keeping to bills that exist, keeps the types.
LEMMA GoOnTypes ==
    ASSUME TypeInv, NEW r \in Requests, NEW q \in Request,
           req' = [req EXCEPT ![r] = q],
           bills' \in [Bills -> Bill \cup {Absent}], dirty' \subseteq Bills,
           misread' \subseteq Bills, \A c \in Bills : Exists(c) => Exists(c)',
           \A b \in Bills : InHand(r, b)' \/ (\E x \in Todo(r)' : x.bill = b) => Exists(b),
           outrun' \in [Requests -> SUBSET Bills], paidSince' \in [Requests -> SUBSET Bills],
           told' \in [Users -> [Bills -> Nat]], excused' \subseteq Bills,
           UNCHANGED <<total, managers, edits>>
    PROVE  TypeInv'
<1>1. TypeOK'
  BY DEF TypeInv, TypeOK
<1>2. ASSUME NEW p \in Requests, NEW b \in Bills,
             InHand(p, b)' \/ (\E x \in Todo(p)' : x.bill = b)
      PROVE  Exists(b)
  <2>1. CASE p = r
    BY <1>2, <2>1
  <2>2. CASE p # r
    <3>1. req'[p] = req[p]
      BY <2>2 DEF TypeInv, TypeOK
    <3>2. QED
      BY <1>2, <3>1 DEF TypeInv, NamedExist, InHand, Todo
  <2>3. QED
    BY <2>1, <2>2
<1>3. QED
  BY <1>1, <1>2 DEF TypeInv, NamedExist

\* The steps of MatchBill keep the types.
LEMMA MatchTypes ==
    ASSUME TypeInv, NEW r \in Requests, MatchStep(r)
    PROVE  TypeInv'
<1> USE DEF TypeInv
<1>1. ASSUME NEW b \in Bills, MatchRead(r, b) PROVE TypeInv'
  <2> DEFINE q == [pc |-> "read", bill |-> b, payable |-> bills[b].payable, order |-> bills[b].order]
  <2>1. q \in Request
    BY <1>1, BillFields DEF MatchRead, Request, Bill
  <2>2. req'[r] = q /\ Begin(r, q) /\ Exists(b)
    BY <1>1 DEF MatchRead, Begin, TypeOK
  <2>3. \A c \in Bills : InHand(r, c)' \/ (\E x \in Todo(r)' : x.bill = c) => Exists(c)
    BY <2>2 DEF InHand, Todo
  <2>4. QED
    BY <2>1, <2>2, <2>3, GoOnTypes DEF Begin, TypeOK, Exists
<1>2. CASE MatchCompare(r)
  <2>0. PICK found \in {FALSE, req[r].order # NoOrder} :
            req' = [req EXCEPT ![r] =
                [pc |-> "judging", bill |-> @.bill, diff |-> @.payable - Owed(@.order, found),
                 found |-> found]]
    BY <1>2 DEF MatchCompare
  <2> DEFINE q == [pc |-> "judging", bill |-> req[r].bill,
                   diff |-> req[r].payable - Owed(req[r].order, found), found |-> found]
  <2>a. found \in BOOLEAN /\ (found => req[r].order \in Orders)
    BY <1>2, RequestFields DEF MatchCompare, TypeOK, Refs
  <2>1. req[r].payable \in Int /\ Owed(req[r].order, found) \in Int /\ req[r].bill \in Bills
    BY <1>2, <2>a, RequestFields, OwedInt, BillsAssumption DEF MatchCompare, TypeOK
  <2>2. q \in Request
    BY <2>a, <2>1 DEF Request
  <2>3. req' = [req EXCEPT ![r] = q] /\ req'[r] = q
    BY <2>0 DEF TypeOK
  <2>4. \A c \in Bills : InHand(r, c)' \/ (\E x \in Todo(r)' : x.bill = c) => Exists(c)
    BY <1>2, <2>3 DEF MatchCompare, InHand, Todo, NamedExist
  <2>5. QED
    BY <1>2, <2>2, <2>3, <2>4, GoOnTypes DEF MatchCompare, TypeOK, Exists
<1>3. CASE MatchWrite(r)
  <2> DEFINE b == req[r].bill
  <2> DEFINE s == IF req[r].diff = 0 THEN "matched" ELSE "disputed"
  <2>1. b \in Bills /\ req[r].diff \in Int /\ s \in Statuses /\ Exists(b)
    BY <1>3, RequestFields DEF MatchWrite, TypeOK, Statuses, NamedExist, InHand
  <2>2. Decide(r, b, s, req[r].diff, req[r].found)
    BY <1>3 DEF MatchWrite
  <2>3. /\ bills' \in [Bills -> Bill \cup {Absent}]
        /\ dirty' \subseteq Bills /\ misread' \subseteq Bills
        /\ \A c \in Bills : Exists(c)' <=> Exists(c)
    BY <2>1, <2>2, DecideType
  <2>4. Idle \in Request /\ req' = [req EXCEPT ![r] = Idle] /\ req'[r] = Idle
    BY <1>3 DEF MatchWrite, TypeOK, Request
  <2>5. \A c \in Bills : InHand(r, c)' \/ (\E x \in Todo(r)' : x.bill = c) => Exists(c)
    BY <2>4 DEF InHand, Todo, Idle
  <2>6. excused' \subseteq Bills /\ UNCHANGED <<total, managers, told, edits, outrun, paidSince>>
    BY <1>3, <2>1 DEF MatchWrite, TypeOK
  <2>7. QED
    BY <2>3, <2>4, <2>5, <2>6, GoOnTypes DEF TypeOK
<1>4. QED
  BY <1>1, <1>2, <1>3 DEF MatchStep

\* The steps of AutoMatch keep the types.
LEMMA BatchTypes ==
    ASSUME TypeInv, NEW r \in Requests, BatchStep(r) \/ End(r)
    PROVE  TypeInv'
<1> USE DEF TypeInv
<1>1. CASE BatchList(r)
  <2> DEFINE copies == {[bill |-> b, payable |-> bills[b].payable, orderNo |-> bills[b].orderNo] :
                           b \in Waiting}
  <2>0. PICK users \in {managers, {}} :
            Begin(r, [pc |-> "loop", todo |-> {x \in copies : x.orderNo # NoOrder}, users |-> users])
    BY <1>1 DEF BatchList, NotifyUserIDs
  <2> DEFINE q == [pc |-> "loop", todo |-> {x \in copies : x.orderNo # NoOrder}, users |-> users]
  <2>1. \A b \in Waiting : b \in Bills /\ Exists(b) /\ bills[b] \in Bill
    BY BillFields DEF Waiting, Exists, Absent
  <2>2. q.todo \subseteq Copy
    BY <2>1 DEF Copy, Bill, Refs
  <2>3. q \in Request
    BY <2>2 DEF Request, TypeOK
  <2>4. Begin(r, q) /\ req'[r] = q
    BY <2>0 DEF Begin, TypeOK
  <2>5. \A x \in q.todo : x.bill \in Waiting
    OBVIOUS
  <2>6. \A c \in Bills : InHand(r, c)' \/ (\E x \in Todo(r)' : x.bill = c) => Exists(c)
    <3>1. req'[r].pc = "loop" /\ Todo(r)' = q.todo
      BY <2>4 DEF Todo
    <3>2. QED
      BY <2>1, <2>5, <3>1 DEF InHand
  <2>7. QED
    BY <2>3, <2>4, <2>6, GoOnTypes DEF Begin, TypeOK, Exists
<1>2. CASE BatchCompare(r)
  <2>1. PICK x \in req[r].todo :
            req' = [req EXCEPT ![r] =
                [pc |-> "compared", todo |-> @.todo \ {x}, users |-> @.users,
                 bill |-> x.bill, diff |-> x.payable - total[x.orderNo]]]
    BY <1>2 DEF BatchCompare
  <2>2. req[r].pc = "loop" /\ req[r].todo \subseteq Copy /\ req[r].users \subseteq Users
    BY <1>2, RequestFields DEF BatchCompare, TypeOK
  <2> DEFINE q == [pc |-> "compared", todo |-> req[r].todo \ {x}, users |-> req[r].users,
                   bill |-> x.bill, diff |-> x.payable - total[x.orderNo]]
  <2>3. q \in Request
    <3>1. x \in Copy /\ x.payable \in Int /\ total[x.orderNo] \in Int /\ x.bill \in Bills
      BY <2>2, BillsAssumption DEF Copy, TypeOK
    <3>2. QED
      BY <2>2, <3>1 DEF Request
  <2>4. req' = [req EXCEPT ![r] = q] /\ req'[r] = q
    BY <2>1 DEF TypeOK
  <2>5. \A c \in Bills : InHand(r, c)' \/ (\E y \in Todo(r)' : y.bill = c) => Exists(c)
    <3>1. req'[r].pc = "compared" /\ req'[r].bill = x.bill /\ Todo(r)' = req[r].todo \ {x}
      BY <2>4 DEF Todo
    <3>2. Todo(r) = req[r].todo
      BY <2>2 DEF Todo
    <3>3. QED
      BY <3>1, <3>2 DEF InHand, NamedExist
  <2>6. QED
    BY <1>2, <2>3, <2>4, <2>5, GoOnTypes DEF BatchCompare, TypeOK, Exists
<1>3. CASE BatchWrite(r)
  <2> DEFINE b == req[r].bill
  <2> DEFINE s == IF Within(req[r].diff) THEN "matched" ELSE "disputed"
  <2> DEFINE q == IF Within(req[r].diff) THEN Loop(req[r])
                  ELSE [pc |-> "telling", todo |-> req[r].todo, users |-> req[r].users, bill |-> b]
  <2>1. b \in Bills /\ req[r].diff \in Int /\ s \in Statuses /\ Exists(b)
    BY <1>3, RequestFields DEF BatchWrite, TypeOK, Statuses, NamedExist, InHand
  <2>2. Decide(r, b, s, req[r].diff, TRUE)
    BY <1>3 DEF BatchWrite
  <2>3. /\ bills' \in [Bills -> Bill \cup {Absent}]
        /\ dirty' \subseteq Bills /\ misread' \subseteq Bills
        /\ \A c \in Bills : Exists(c)' <=> Exists(c)
    BY <2>1, <2>2, DecideType
  <2>4. q \in Request
    <3>1. req[r].todo \subseteq Copy /\ req[r].users \subseteq Users
      BY <1>3, RequestFields DEF BatchWrite, TypeOK
    <3>2. Loop(req[r]) \in Request
      BY <1>3, LoopType DEF BatchWrite
    <3>3. QED
      BY <2>1, <3>1, <3>2 DEF Request
  <2>5. req' = [req EXCEPT ![r] = q] /\ req'[r] = q
    BY <1>3 DEF BatchWrite, TypeOK
  <2>6. \A c \in Bills : InHand(r, c)' \/ (\E x \in Todo(r)' : x.bill = c) => Exists(c)
    <3>1. Todo(r)' = Todo(r) /\ (req'[r].pc # "loop" => req'[r].bill = b)
      BY <1>3, <2>5 DEF BatchWrite, Todo, Loop
    <3>2. req'[r].pc \in {"loop", "telling"}
      BY <2>5 DEF Loop
    <3>3. QED
      BY <2>1, <3>1, <3>2 DEF InHand, NamedExist
  <2>7. excused' \subseteq Bills /\ UNCHANGED <<total, managers, told, edits, outrun, paidSince>>
    BY <1>3 DEF BatchWrite, TypeOK
  <2>8. QED
    BY <2>3, <2>4, <2>5, <2>6, <2>7, GoOnTypes DEF TypeOK
<1>4. CASE BatchTell(r) \/ BatchTellFail(r)
  <2>1. req[r].pc = "telling" /\ req[r].bill \in Bills /\ Loop(req[r]) \in Request
    BY <1>4, RequestFields, LoopType DEF BatchTell, BatchTellFail, TypeOK
  <2>2. req' = [req EXCEPT ![r] = Loop(req[r])] /\ req'[r] = Loop(req[r])
    BY <1>4 DEF BatchTell, BatchTellFail, TypeOK
  <2>3. \A c \in Bills : InHand(r, c)' \/ (\E x \in Todo(r)' : x.bill = c) => Exists(c)
    BY <2>1, <2>2 DEF InHand, Todo, Loop, NamedExist
  <2>4. told' \in [Users -> [Bills -> Nat]]
    <3>1. CASE BatchTell(r)
      <4>1. \A u \in Users : [told[u] EXCEPT ![req[r].bill] = @ + 1] \in [Bills -> Nat]
        BY <2>1 DEF TypeOK
      <4>2. QED
        BY <3>1, <4>1 DEF BatchTell, TypeOK
    <3>2. CASE BatchTellFail(r)
      BY <3>2 DEF BatchTellFail, TypeOK
    <3>3. QED
      BY <1>4, <3>1, <3>2
  <2>5. excused' \subseteq Bills
    BY <1>4, <2>1 DEF BatchTell, BatchTellFail, TypeOK
  <2>6. UNCHANGED <<bills, total, managers, edits, outrun, paidSince, dirty, misread>>
    BY <1>4 DEF BatchTell, BatchTellFail
  <2>7. QED
    BY <2>1, <2>2, <2>3, <2>4, <2>5, <2>6, GoOnTypes DEF TypeOK, Exists
<1>5. CASE End(r)
  <2>1. Idle \in Request /\ req' = [req EXCEPT ![r] = Idle] /\ req'[r] = Idle
    BY <1>5 DEF End, TypeOK, Request
  <2>2. \A c \in Bills : InHand(r, c)' \/ (\E x \in Todo(r)' : x.bill = c) => Exists(c)
    BY <2>1 DEF InHand, Todo, Idle
  <2>3. excused' \subseteq Bills
    BY <1>5, RequestFields DEF End, TypeOK
  <2>4. QED
    BY <1>5, <2>1, <2>2, <2>3, GoOnTypes DEF End, TypeOK, Exists
<1>6. QED
  BY <1>1, <1>2, <1>3, <1>4, <1>5 DEF BatchStep

\* It holds at first: nobody works on a bill.
LEMMA InitTypes == Init => TypeInv
<1> SUFFICES ASSUME Init PROVE TypeInv
  OBVIOUS
<1>1. \A o \in Orders : SeedBill(o) \subseteq Bill
  <2>1. TAKE o \in Orders
  <2>2. total[o] \in Amounts /\ o \in Refs
    BY DEF Init, Refs
  <2>3. \A d \in Amounts : d \in Int
    BY BillsAssumption
  <2>4. QED
    BY <2>2, <2>3 DEF SeedBill, Bill, Statuses
<1>2. UNION {SeedBill(o) : o \in Orders} \subseteq Bill
  BY <1>1
<1>3. bills \in [Bills -> Bill \cup {Absent}]
  BY <1>2 DEF Init
<1>4. TypeOK
  BY <1>3 DEF Init, TypeOK, Request
<1>5. NamedExist
  BY DEF Init, NamedExist, InHand, Todo, Idle
<1>6. QED
  BY <1>4, <1>5 DEF TypeInv

\* Every step keeps the types.
LEMMA NextTypes == TypeInv /\ [Next]_vars => TypeInv'
<1> SUFFICES ASSUME TypeInv, [Next]_vars PROVE TypeInv'
  OBVIOUS
<1>1. ASSUME NEW b \in Bills, CreateBill(b) \/ UpdateBill(b) \/ PayBill(b) PROVE TypeInv'
  BY <1>1, StatementTypes
<1>2. CASE (\E o \in Orders : UpdateOrder(o)) \/ (\E u \in Users : UpdateUser(u))
  BY <1>2, OutsideTypes
<1>3. ASSUME NEW r \in Requests, MatchStep(r) PROVE TypeInv'
  BY <1>3, MatchTypes
<1>4. ASSUME NEW r \in Requests, BatchStep(r) \/ End(r) PROVE TypeInv'
  BY <1>4, BatchTypes
<1>5. CASE UNCHANGED vars
  BY <1>5 DEF vars, TypeInv, TypeOK, NamedExist, InHand, Todo, Exists
<1>6. QED
  BY <1>1, <1>2, <1>3, <1>4, <1>5 DEF Next

\* Every reachable state of bills and requests is well typed, and no request
\* works on a bill that does not exist.
THEOREM BillsTypes == Spec => []TypeOK
<1>1. Spec => []TypeInv
  BY InitTypes, NextTypes, PTL DEF Spec
<1>2. TypeInv => TypeOK
  BY DEF TypeInv
<1>3. QED
  BY <1>1, <1>2, PTL

-----------------------------------------------------------------------------
(***************************************************************************)
(* PaymentKept.  The invariant looks at the bills a batch has still to     *)
(* write: one of them that is paid was paid since the batch read it.       *)
(***************************************************************************)

\* Batch r has still to write bill b.
Ahead(r, b) ==
    (\E x \in Todo(r) : x.bill = b) \/ (req[r].pc = "compared" /\ req[r].bill = b)

PaymentInv ==
    \A r \in Requests, b \in Bills :
        Ahead(r, b) /\ bills[b].status = "paid" => b \in paidSince[r]

\* The steps of a request by which it takes up no more bills to write.
OnwardStep(r) ==
    MatchCompare(r) \/ MatchWrite(r) \/ BatchCompare(r) \/ BatchWrite(r)
    \/ BatchTell(r) \/ BatchTellFail(r) \/ End(r)

\* Where a request stands after it has compared a bill, or written or told of one.
LEMMA OnwardStages ==
    ASSUME TypeInv, NEW r \in Requests
    PROVE  /\ MatchCompare(r) => req'[r].pc = "judging"
           /\ BatchWrite(r) \/ BatchTell(r) \/ BatchTellFail(r) =>
                 /\ req[r].pc \in {"compared", "telling"}
                 /\ req'[r].pc \in {"loop", "telling"} /\ req'[r].todo = req[r].todo
                 /\ req'[r].pc = "telling" => BatchWrite(r) /\ req'[r].bill = req[r].bill
<1>1. ASSUME MatchCompare(r) PROVE req'[r].pc = "judging"
  <2>1. PICK found : req' = [req EXCEPT ![r] =
            [pc |-> "judging", bill |-> req[r].bill,
             diff |-> req[r].payable - Owed(req[r].order, found), found |-> found]]
    BY <1>1 DEF MatchCompare
  <2>2. QED
    BY <2>1 DEF TypeInv, TypeOK
<1>2. ASSUME BatchWrite(r)
      PROVE  /\ req[r].pc = "compared"
             /\ req'[r].pc \in {"loop", "telling"} /\ req'[r].todo = req[r].todo
             /\ req'[r].pc = "telling" => req'[r].bill = req[r].bill
  <2>1. /\ req[r].pc = "compared"
        /\ req' = [req EXCEPT ![r] =
               IF Within(req[r].diff) THEN Loop(req[r])
               ELSE [pc |-> "telling", todo |-> req[r].todo, users |-> req[r].users,
                     bill |-> req[r].bill]]
    BY <1>2, Zenon DEF BatchWrite
  <2>2. QED
    BY <2>1 DEF TypeInv, TypeOK, Loop
<1>3. ASSUME BatchTell(r) \/ BatchTellFail(r)
      PROVE  req[r].pc = "telling" /\ req'[r].pc = "loop" /\ req'[r].todo = req[r].todo
  BY <1>3 DEF BatchTell, BatchTellFail, Loop, TypeInv, TypeOK
<1>4. QED
  BY <1>1, <1>2, <1>3

\* Nor do the others take up any then.
LEMMA OnwardAhead ==
    ASSUME TypeInv, NEW r \in Requests, OnwardStep(r),
           NEW p \in Requests, NEW b \in Bills, Ahead(p, b)'
    PROVE  Ahead(p, b)
<1>1. CASE p # r
  <2>1. req'[p] = req[p]
    BY <1>1 DEF TypeInv, TypeOK, OnwardStep, MatchCompare, MatchWrite, BatchCompare, BatchWrite,
                BatchTell, BatchTellFail, End
  <2>2. QED
    BY <2>1 DEF Ahead, Todo
<1>2. CASE p = r /\ (MatchCompare(r) \/ MatchWrite(r) \/ End(r))
  <2>1. req'[r].pc \in {"judging", "idle"}
    BY <1>2, OnwardStages DEF TypeInv, TypeOK, MatchWrite, End, Idle
  <2>2. QED
    BY <1>2, <2>1 DEF Ahead, Todo
<1>3. CASE p = r /\ BatchCompare(r)
  <2>1. PICK x \in req[r].todo :
            req' = [req EXCEPT ![r] =
                [pc |-> "compared", todo |-> @.todo \ {x}, users |-> @.users,
                 bill |-> x.bill, diff |-> x.payable - total[x.orderNo]]]
    BY <1>3 DEF BatchCompare
  <2>2. Todo(r)' = req[r].todo \ {x} /\ req'[r].bill = x.bill
    BY <2>1 DEF TypeInv, TypeOK, Todo
  <2>3. Todo(r) = req[r].todo
    BY <1>3 DEF BatchCompare, Todo
  <2>4. QED
    BY <1>3, <2>2, <2>3 DEF Ahead
<1>4. CASE p = r /\ (BatchWrite(r) \/ BatchTell(r) \/ BatchTellFail(r))
  <2>1. req'[r].pc \in {"loop", "telling"} /\ req'[r].todo = req[r].todo
    BY <1>4, OnwardStages
  <2>2. Todo(r)' = Todo(r)
    BY <1>4, <2>1, OnwardStages DEF Todo
  <2>3. QED
    BY <1>4, <2>1, <2>2 DEF Ahead
<1>5. QED
  BY <1>1, <1>2, <1>3, <1>4 DEF OnwardStep

\* What a request writes to a bill, and that it writes to no other.
LEMMA OnwardBills ==
    ASSUME TypeInv, NEW r \in Requests, OnwardStep(r), NEW b \in Bills
    PROVE  /\ bills'[b] # bills[b] =>
                 /\ bills'[b].status \in {"matched", "disputed"}
                 /\ InHand(r, b)
                 /\ req[r].pc \in {"judging", "compared"}
           /\ UNCHANGED <<total, managers, outrun, paidSince, edits>>
<1>1. CASE MatchWrite(r) \/ BatchWrite(r)
  <2>1. PICK s \in {"matched", "disputed"} : \E found : Decide(r, req[r].bill, s, req[r].diff, found)
    BY <1>1 DEF MatchWrite, BatchWrite
  <2>2. req[r].bill \in Bills /\ req[r].pc \in {"judging", "compared"}
    BY <1>1, RequestFields DEF TypeInv, TypeOK, MatchWrite, BatchWrite
  <2>3. Exists(req[r].bill)
    BY <2>2 DEF TypeInv, NamedExist, InHand
  <2>4. bills[req[r].bill] \in Bill
    BY <2>2, <2>3, BillFields DEF TypeInv
  <2>5. CASE b = req[r].bill
    <3>1. bills'[b] = [bills[b] EXCEPT !.status = s, !.diff = req[r].diff]
      BY <2>1, <2>5 DEF Decide, TypeInv, TypeOK
    <3>2. bills'[b].status = s
      BY <2>4, <2>5, <3>1 DEF Bill
    <3>3. QED
      BY <1>1, <2>2, <2>5, <3>2 DEF InHand, MatchWrite, BatchWrite
  <2>6. CASE b # req[r].bill
    BY <1>1, <2>1, <2>6 DEF Decide, TypeInv, TypeOK, MatchWrite, BatchWrite
  <2>7. QED
    BY <2>5, <2>6
<1>2. CASE ~(MatchWrite(r) \/ BatchWrite(r))
  BY <1>2 DEF OnwardStep, MatchCompare, BatchCompare, BatchTell, BatchTellFail, End
<1>3. QED
  BY <1>1, <1>2

\* A request of one statement other than a payment keeps the status of bills
\* that exist.
LEMMA StatementStatus ==
    ASSUME TypeInv, NEW b \in Bills, CreateBill(b) \/ UpdateBill(b) \/ PayBill(b), NEW c \in Bills
    PROVE  /\ c # b => bills'[c] = bills[c]
           /\ CreateBill(b) => bills[b] = Absent /\ bills'[b].status = "draft"
           /\ UpdateBill(b) => bills'[b].status = bills[b].status /\ bills'[b].diff = bills[b].diff
           /\ PayBill(b) => bills'[b].status = "paid"
           /\ UNCHANGED <<req, told, total, managers, misread, excused>>
<1>1. CASE CreateBill(b)
  BY <1>1 DEF CreateBill, UpdateBill, PayBill, Exists, TypeInv, TypeOK
<1>2. CASE UpdateBill(b)
  <2>1. bills[b] \in Bill
    BY <1>2, BillFields DEF UpdateBill, TypeInv
  <2>2. PICK p \in Amounts, n \in Refs :
            bills' = [bills EXCEPT ![b] = [bills[b] EXCEPT !.payable = p, !.orderNo = n]]
    BY <1>2 DEF UpdateBill, TypeInv, TypeOK
  <2>3. bills'[b] = [bills[b] EXCEPT !.payable = p, !.orderNo = n]
    BY <2>2 DEF TypeInv, TypeOK
  <2>4. bills'[b].status = bills[b].status /\ bills'[b].diff = bills[b].diff
    BY <2>1, <2>3 DEF Bill
  <2>5. c # b => bills'[c] = bills[c]
    BY <2>2 DEF TypeInv, TypeOK
  <2>6. ~CreateBill(b)
    BY <1>2 DEF CreateBill, UpdateBill
  <2>7. PayBill(b) => bills'[b].status = "paid"
    BY <2>1 DEF PayBill, TypeInv, TypeOK, Bill
  <2>8. UNCHANGED <<req, told, total, managers, misread, excused>>
    BY <1>2, Zenon DEF UpdateBill
  <2>9. QED
    BY <2>4, <2>5, <2>6, <2>7, <2>8
<1>3. CASE PayBill(b)
  <2>1. bills[b] \in Bill
    BY <1>3, BillFields DEF PayBill, TypeInv
  <2>2. bills'[b].status = "paid" /\ (c # b => bills'[c] = bills[c])
    BY <1>3, <2>1 DEF PayBill, TypeInv, TypeOK, Bill
  <2>3. ~CreateBill(b)
    BY <1>3 DEF CreateBill, PayBill
  <2>4. UpdateBill(b) => bills'[b].status = bills[b].status /\ bills'[b].diff = bills[b].diff
    <3>1. ASSUME UpdateBill(b)
          PROVE  bills'[b].status = bills[b].status /\ bills'[b].diff = bills[b].diff
      <4>1. PICK p \in Amounts, n \in Refs :
                bills' = [bills EXCEPT ![b] = [bills[b] EXCEPT !.payable = p, !.orderNo = n]]
        BY <3>1 DEF UpdateBill, TypeInv, TypeOK
      <4>2. bills'[b] = [bills[b] EXCEPT !.payable = p, !.orderNo = n]
        BY <4>1 DEF TypeInv, TypeOK
      <4>3. QED
        BY <2>1, <4>2 DEF Bill
    <3>2. QED
      BY <3>1
  <2>5. UNCHANGED <<req, told, total, managers, misread, excused>>
    BY <1>3 DEF PayBill
  <2>6. QED
    BY <2>2, <2>3, <2>4, <2>5
<1>4. QED
  BY <1>1, <1>2, <1>3

\* The steps by which a request starts.
BeginStep(r) == BatchList(r) \/ (\E b \in Bills : MatchRead(r, b))

\* They write nothing, and what they take up is there, waiting if for a batch.
LEMMA BeginFields ==
    ASSUME TypeInv, NEW r \in Requests, BeginStep(r)
    PROVE  /\ UNCHANGED <<bills, total, managers, told, edits, dirty, misread, excused>>
           /\ req[r] = Idle
           /\ req'[r].pc \in {"read", "loop"}
           /\ outrun'[r] = {} /\ paidSince'[r] = {}
           /\ \A p \in Requests \ {r} :
                 req'[p] = req[p] /\ outrun'[p] = outrun[p] /\ paidSince'[p] = paidSince[p]
           /\ \A x \in Todo(r)' : x.bill \in Waiting
           /\ \A x \in Todo(r)' :
                 x = [bill |-> x.bill, payable |-> bills[x.bill].payable, orderNo |-> bills[x.bill].orderNo]
<1>1. CASE BatchList(r)
  <2> DEFINE copies == {[bill |-> b, payable |-> bills[b].payable, orderNo |-> bills[b].orderNo] :
                           b \in Waiting}
  <2>0. PICK users \in {managers, {}} :
            Begin(r, [pc |-> "loop", todo |-> {x \in copies : x.orderNo # NoOrder}, users |-> users])
    BY <1>1 DEF BatchList, NotifyUserIDs
  <2> DEFINE q == [pc |-> "loop", todo |-> {x \in copies : x.orderNo # NoOrder}, users |-> users]
  <2>1. Begin(r, q)
    BY <2>0
  <2>2. req'[r] = q
    BY <2>1 DEF Begin, TypeInv, TypeOK
  <2>3. req'[r].pc = "loop" /\ Todo(r)' = q.todo
    BY <2>2 DEF Todo
  <2>4. \A x \in q.todo :
            /\ x.bill \in Waiting
            /\ x = [bill |-> x.bill, payable |-> bills[x.bill].payable, orderNo |-> bills[x.bill].orderNo]
    OBVIOUS
  <2> HIDE DEF q
  <2>5. QED
    BY <2>1, <2>3, <2>4 DEF Begin, TypeInv, TypeOK
<1>2. CASE \E b \in Bills : MatchRead(r, b)
  <2>1. PICK b \in Bills : MatchRead(r, b)
    BY <1>2
  <2>2. req'[r].pc = "read" /\ Todo(r)' = {}
    BY <2>1 DEF MatchRead, Begin, TypeInv, TypeOK, Todo
  <2>3. QED
    BY <2>1, <2>2 DEF MatchRead, Begin, TypeInv, TypeOK
<1>3. QED
  BY <1>1, <1>2 DEF BeginStep

\* Every step is one of these.
LEMMA NextCases ==
    ASSUME Next
    PROVE  \/ \E b \in Bills : CreateBill(b) \/ UpdateBill(b) \/ PayBill(b)
           \/ (\E o \in Orders : UpdateOrder(o)) \/ (\E u \in Users : UpdateUser(u))
           \/ \E r \in Requests : BeginStep(r) \/ OnwardStep(r)
BY DEF Next, MatchStep, BatchStep, BeginStep, OnwardStep

\* No step breaks the invariant.
LEMMA NextPayment == TypeInv /\ PaymentInv /\ [Next]_vars => PaymentInv'
<1> SUFFICES ASSUME TypeInv, PaymentInv, [Next]_vars, NEW p \in Requests, NEW c \in Bills,
                    Ahead(p, c)', bills'[c].status = "paid"
             PROVE  c \in paidSince'[p]
  BY DEF PaymentInv
<1>1. ASSUME NEW b \in Bills, CreateBill(b) \/ UpdateBill(b) \/ PayBill(b) PROVE c \in paidSince'[p]
  <2>1. Ahead(p, c)
    BY <1>1, StatementStatus DEF Ahead, Todo
  <2>2. CASE PayBill(b) /\ b = c
    <3>1. req[p] # Idle
      BY <2>1 DEF Ahead, Todo, Idle
    <3>2. QED
      BY <2>2, <3>1 DEF PayBill
  <2>3. CASE ~(PayBill(b) /\ b = c)
    <3>1. bills[c].status = "paid"
      BY <1>1, <2>3, StatementStatus
    <3>2. req[p] # Idle
      BY <2>1 DEF Ahead, Todo, Idle
    <3>3. paidSince[p] \subseteq paidSince'[p]
      BY <1>1, <3>2 DEF CreateBill, UpdateBill, PayBill, TypeInv, TypeOK
    <3>4. QED
      BY <2>1, <3>1, <3>3 DEF PaymentInv
  <2>4. QED
    BY <2>2, <2>3
<1>2. CASE (\E o \in Orders : UpdateOrder(o)) \/ (\E u \in Users : UpdateUser(u))
  BY <1>2 DEF UpdateOrder, UpdateUser, PaymentInv, Ahead, Todo
<1>3. ASSUME NEW r \in Requests, BeginStep(r) PROVE c \in paidSince'[p]
  <2>1. CASE p = r
    <3>1. c \in Waiting
      BY <1>3, <2>1, BeginFields DEF Ahead
    <3>2. QED
      BY <1>3, <3>1, BeginFields DEF Waiting
  <2>2. CASE p # r
    <3>1. Ahead(p, c)
      BY <1>3, <2>2, BeginFields DEF Ahead, Todo
    <3>2. QED
      BY <1>3, <2>2, <3>1, BeginFields DEF PaymentInv
  <2>3. QED
    BY <2>1, <2>2
<1>4. ASSUME NEW r \in Requests, OnwardStep(r) PROVE c \in paidSince'[p]
  BY <1>4, OnwardAhead, OnwardBills DEF PaymentInv
<1>5. CASE UNCHANGED vars
  BY <1>5 DEF vars, PaymentInv, Ahead, Todo
<1>6. QED
  BY <1>1, <1>2, <1>3, <1>4, <1>5, NextCases

\* For any number of requests: a payment is undone only by a request to match
\* that bill, or by a batch that read the bill before it was paid.
THEOREM BillsPaymentKept == Spec => PaymentKept
<1>1. Init => PaymentInv
  BY DEF Init, PaymentInv, Ahead, Todo, Idle
<1>2. Spec => [](TypeInv /\ PaymentInv)
  BY <1>1, InitTypes, NextTypes, NextPayment, PTL DEF Spec
<1> DEFINE Kept ==
    \A b \in Bills : bills[b].status = "paid" /\ bills'[b].status # "paid" =>
        \E r \in Requests : MatchOf(r, b) \/ b \in paidSince[r]
<1>3. TypeInv /\ PaymentInv /\ [Next]_vars => [Kept]_vars
  <2> SUFFICES ASSUME TypeInv, PaymentInv, Next, NEW b \in Bills,
                      bills[b].status = "paid", bills'[b].status # "paid"
               PROVE  \E r \in Requests : MatchOf(r, b) \/ b \in paidSince[r]
    OBVIOUS
  <2>1. ASSUME NEW c \in Bills, CreateBill(c) \/ UpdateBill(c) \/ PayBill(c) PROVE FALSE
    BY <2>1, StatementStatus DEF Absent
  <2>2. CASE (\E o \in Orders : UpdateOrder(o)) \/ (\E u \in Users : UpdateUser(u))
    BY <2>2 DEF UpdateOrder, UpdateUser
  <2>3. ASSUME NEW r \in Requests, BeginStep(r) PROVE FALSE
    BY <2>3, BeginFields
  <2>4. ASSUME NEW r \in Requests, OnwardStep(r) PROVE MatchOf(r, b) \/ b \in paidSince[r]
    <3>1. InHand(r, b) /\ req[r].pc \in {"judging", "compared"}
      BY <2>4, OnwardBills
    <3>2. QED
      BY <3>1 DEF InHand, MatchOf, PaymentInv, Ahead
  <2>5. QED
    BY <2>1, <2>2, <2>3, <2>4, NextCases
<1>4. QED
  BY <1>2, <1>3, PTL DEF Spec, PaymentKept

-----------------------------------------------------------------------------
(***************************************************************************)
(* DisputeReported, inductive with the types.                              *)
(***************************************************************************)

\* Request r owes the messages about bill b.
Telling(r, b) == req[r].pc = "telling" /\ req[r].bill = b

\* No step breaks it.
LEMMA NextReported == TypeInv /\ DisputeReported /\ [Next]_vars => DisputeReported'
<1> SUFFICES ASSUME TypeInv, DisputeReported, [Next]_vars,
                    NEW c \in Bills, c \notin excused', bills'[c].status = "disputed"
             PROVE  (\E u \in Users : told'[u][c] > 0) \/ (\E r \in Requests : Telling(r, c)')
  BY DEF DisputeReported, Telling
<1>0. c \notin excused /\ bills[c].status = "disputed" =>
         (\E u \in Users : told[u][c] > 0) \/ (\E r \in Requests : Telling(r, c))
  BY DEF DisputeReported, Telling
<1>1. ASSUME NEW b \in Bills, CreateBill(b) \/ UpdateBill(b) \/ PayBill(b)
      PROVE  (\E u \in Users : told'[u][c] > 0) \/ (\E r \in Requests : Telling(r, c)')
  <2>1. bills[c].status = "disputed" /\ c \notin excused
    BY <1>1, StatementStatus
  <2>2. req' = req /\ told' = told
    BY <1>1, StatementStatus
  <2>3. QED
    BY <1>0, <2>1, <2>2 DEF Telling
<1>2. CASE (\E o \in Orders : UpdateOrder(o)) \/ (\E u \in Users : UpdateUser(u))
  BY <1>0, <1>2 DEF UpdateOrder, UpdateUser, Telling
<1>3. ASSUME NEW r \in Requests, BeginStep(r)
      PROVE  (\E u \in Users : told'[u][c] > 0) \/ (\E p \in Requests : Telling(p, c)')
  <2>1. \A p \in Requests : Telling(p, c) => p # r
    BY <1>3, BeginFields DEF Telling, Idle
  <2>2. QED
    BY <1>0, <1>3, <2>1, BeginFields DEF Telling
<1>4. ASSUME NEW r \in Requests, OnwardStep(r)
      PROVE  (\E u \in Users : told'[u][c] > 0) \/ (\E p \in Requests : Telling(p, c)')
  <2>1. CASE BatchWrite(r) /\ req[r].bill = c
    <3>1. ~Within(req[r].diff)
      <4>1. SUFFICES ASSUME Within(req[r].diff) PROVE FALSE
        OBVIOUS
      <4>2. Decide(r, c, "matched", req[r].diff, TRUE)
        BY <2>1, <4>1 DEF BatchWrite
      <4>3. bills[c] \in Bill
        BY <2>1, BillFields DEF BatchWrite, TypeInv, NamedExist, InHand
      <4>4. bills'[c].status = "matched"
        BY <4>2, <4>3 DEF Decide, TypeInv, TypeOK, Bill
      <4>5. QED
        BY <4>4
    <3>2. Telling(r, c)'
      BY <2>1, <3>1 DEF BatchWrite, Telling, TypeInv, TypeOK
    <3>3. QED
      BY <3>2
  <2>2. CASE ~(BatchWrite(r) /\ req[r].bill = c)
    <3>1. ~(MatchWrite(r) /\ req[r].bill = c)
      BY DEF MatchWrite
    <3>2. bills'[c] = bills[c]
      BY <1>4, <2>2, <3>1
         DEF OnwardStep, MatchCompare, MatchWrite, BatchCompare, BatchWrite, BatchTell,
             BatchTellFail, End, Decide, TypeInv, TypeOK
    <3>3. c \notin excused
      BY <1>4, <2>2
         DEF OnwardStep, MatchCompare, MatchWrite, BatchCompare, BatchWrite, BatchTell,
             BatchTellFail, End
    <3>4. CASE \E u \in Users : told[u][c] > 0
      <4>1. PICK u \in Users : told[u][c] > 0
        BY <3>4
      <4>2. told'[u][c] \in {told[u][c], told[u][c] + 1}
        <5>1. CASE BatchTell(r)
          <6>1. told'[u] \in {told[u], [told[u] EXCEPT ![req[r].bill] = @ + 1]}
            BY <5>1 DEF BatchTell
          <6>2. QED
            BY <6>1 DEF TypeInv, TypeOK
        <5>2. CASE told' = told
          BY <5>2 DEF TypeInv, TypeOK
        <5>3. QED
          BY <1>4, <5>1, <5>2
             DEF OnwardStep, MatchCompare, MatchWrite, BatchCompare, BatchWrite, BatchTellFail, End
      <4>3. QED
        BY <4>1, <4>2 DEF TypeInv, TypeOK
    <3>5. CASE \E p \in Requests : Telling(p, c)
      <4>1. PICK p \in Requests : Telling(p, c)
        BY <3>5
      <4>2. CASE p # r
        <5>1. req'[p] = req[p]
          BY <1>4, <4>2
             DEF OnwardStep, MatchCompare, MatchWrite, BatchCompare, BatchWrite, BatchTell,
                 BatchTellFail, End, TypeInv, TypeOK
        <5>2. QED
          BY <4>1, <5>1 DEF Telling
      <4>3. CASE p = r
        <5>1. BatchTell(r)
          BY <1>4, <4>1, <4>3
             DEF OnwardStep, MatchCompare, MatchWrite, BatchCompare, BatchWrite, BatchTellFail,
                 End, Telling
        <5>2. PICK u \in req[r].users : TRUE
          BY <4>1, <4>3, <5>1 DEF BatchTell, Telling
        <5>3. u \in Users
          BY <5>1, <5>2, RequestFields DEF BatchTell, TypeInv, TypeOK
        <5>4. told'[u][c] = told[u][c] + 1
          <6>1. told'[u] = [told[u] EXCEPT ![c] = @ + 1]
            BY <4>1, <4>3, <5>1, <5>2, <5>3 DEF BatchTell, Telling
          <6>2. QED
            BY <5>3, <6>1 DEF TypeInv, TypeOK
        <5>5. told'[u][c] > 0
          BY <5>3, <5>4 DEF TypeInv, TypeOK
        <5>6. QED
          BY <5>3, <5>5
      <4>4. QED
        BY <4>2, <4>3
    <3>6. QED
      BY <1>0, <3>2, <3>3, <3>4, <3>5
  <2>3. QED
    BY <2>1, <2>2
<1>5. CASE UNCHANGED vars
  BY <1>0, <1>5 DEF vars, Telling
<1>6. QED
  BY <1>1, <1>2, <1>3, <1>4, <1>5, NextCases

\* For any number of batches: a bill AutoMatch left disputed has been reported
\* or is about to be, unless the insert of the messages failed, the gateway
\* stopped, or the batch knew of nobody to tell (there was nobody, or the query
\* for the users failed).
THEOREM BillsDisputeReported == Spec => []DisputeReported
<1>1. Init => DisputeReported
  BY DEF Init, DisputeReported
<1>2. Spec => [](TypeInv /\ DisputeReported)
  BY <1>1, InitTypes, NextTypes, NextReported, PTL DEF Spec
<1>3. QED
  BY <1>2, PTL

-----------------------------------------------------------------------------
(***************************************************************************)
(* ReportsBounded.  A bill that waits has not been reported; once decided  *)
(* it is reported only by the requests that hold it already, each once.    *)
(***************************************************************************)

\* The requests that may still report bill b.
Holding(b) == {r \in Requests : Ahead(r, b) \/ Telling(r, b)}

\* Bill b has not been decided yet.
Fresh(b) == bills[b].status \in {"absent", "draft", "matching"}

\* A request has no bill twice.
NoBillTwice ==
    \A r \in Requests : \A x \in Todo(r) :
        /\ \A y \in Todo(r) : x.bill = y.bill => x = y
        /\ req[r].pc \in {"compared", "telling"} => x.bill # req[r].bill

ReportInv ==
    /\ NoBillTwice
    /\ \A r \in Requests, b \in Bills : Telling(r, b) => ~Fresh(b)
    /\ \A u \in Users, b \in Bills : Fresh(b) => told[u][b] = 0
    /\ \A u \in Users, b \in Bills : told[u][b] + Cardinality(Holding(b)) <= Cardinality(Requests)

\* A set of requests has at most as many as there are.
LEMMA RequestSets ==
    ASSUME NEW S \in SUBSET Requests, NEW T \in SUBSET S
    PROVE  /\ Cardinality(S) \in Nat /\ Cardinality(T) \in Nat
           /\ Cardinality(T) <= Cardinality(S)
           /\ \A r \in S : r \notin T => Cardinality(T) + 1 <= Cardinality(S)
<1>1. IsFiniteSet(S)
  BY BillsAssumption, FS_Subset
<1>2. IsFiniteSet(T)
  BY <1>1, FS_Subset
<1>3. Cardinality(S) \in Nat /\ Cardinality(T) \in Nat /\ Cardinality(T) <= Cardinality(S)
  BY <1>1, <1>2, FS_CardinalityType, FS_Subset
<1>4. ASSUME NEW r \in S, r \notin T PROVE Cardinality(T) + 1 <= Cardinality(S)
  <2>1. Cardinality(T \cup {r}) = Cardinality(T) + 1
    BY <1>2, <1>4, FS_AddElement
  <2>2. T \cup {r} \subseteq S
    OBVIOUS
  <2>3. Cardinality(T \cup {r}) <= Cardinality(S)
    BY <1>1, <2>2, FS_Subset
  <2>4. QED
    BY <2>1, <2>3
<1>5. QED
  BY <1>3, <1>4

\* A step that decides nothing anew, writes no message and takes up no bill.
LEMMA QuietReport ==
    ASSUME TypeInv, ReportInv, NoBillTwice', told' = told,
           \A b \in Bills : Fresh(b)' => Fresh(b),
           \A r \in Requests, b \in Bills : Telling(r, b)' => ~Fresh(b)',
           \A b \in Bills : Holding(b)' \subseteq Holding(b)
    PROVE  ReportInv'
<1>1. ASSUME NEW u \in Users, NEW b \in Bills
      PROVE  told[u][b] + Cardinality(Holding(b)') <= Cardinality(Requests)
  <2>1. Holding(b) \in SUBSET Requests
    BY DEF Holding
  <2>2. /\ Cardinality(Holding(b)) \in Nat /\ Cardinality(Holding(b)') \in Nat
        /\ Cardinality(Holding(b)') <= Cardinality(Holding(b))
    BY <2>1, RequestSets
  <2>3. told[u][b] \in Nat /\ Cardinality(Requests) \in Nat
    BY BillsAssumption, FS_CardinalityType DEF TypeInv, TypeOK
  <2>4. told[u][b] + Cardinality(Holding(b)) <= Cardinality(Requests)
    BY DEF ReportInv
  <2>5. QED
    BY <2>2, <2>3, <2>4
<1>2. \A u \in Users, b \in Bills : told'[u][b] + Cardinality(Holding(b))' <= Cardinality(Requests)
  BY <1>1
<1>3. QED
  BY <1>2 DEF ReportInv

\* What request r is left with by a step.
LEMMA OnwardTwice ==
    ASSUME TypeInv, NoBillTwice, NEW r \in Requests, OnwardStep(r)
    PROVE  NoBillTwice'
<1> SUFFICES ASSUME NEW p \in Requests, NEW x \in Todo(p)'
             PROVE  /\ \A y \in Todo(p)' : x.bill = y.bill => x = y
                    /\ req'[p].pc \in {"compared", "telling"} => x.bill # req'[p].bill
  BY DEF NoBillTwice
<1>1. CASE p # r
  <2>1. req'[p] = req[p]
    BY <1>1 DEF TypeInv, TypeOK, OnwardStep, MatchCompare, MatchWrite, BatchCompare, BatchWrite,
                BatchTell, BatchTellFail, End
  <2>2. QED
    BY <2>1 DEF NoBillTwice, Todo
<1>2. CASE p = r /\ (MatchCompare(r) \/ MatchWrite(r) \/ End(r))
  <2>1. req'[r].pc \in {"judging", "idle"}
    BY <1>2, OnwardStages DEF TypeInv, TypeOK, MatchWrite, End, Idle
  <2>2. QED
    BY <1>2, <2>1 DEF Todo
<1>3. CASE p = r /\ BatchCompare(r)
  <2>1. PICK z \in req[r].todo :
            req' = [req EXCEPT ![r] =
                [pc |-> "compared", todo |-> @.todo \ {z}, users |-> @.users,
                 bill |-> z.bill, diff |-> z.payable - total[z.orderNo]]]
    BY <1>3 DEF BatchCompare
  <2>2. Todo(r)' = req[r].todo \ {z} /\ req'[r].bill = z.bill
    BY <2>1 DEF TypeInv, TypeOK, Todo
  <2>3. Todo(r) = req[r].todo
    BY <1>3 DEF BatchCompare, Todo
  <2>4. QED
    BY <1>3, <2>2, <2>3 DEF NoBillTwice
<1>4. CASE p = r /\ (BatchWrite(r) \/ BatchTell(r) \/ BatchTellFail(r))
  <2>1. /\ req'[r].pc \in {"loop", "telling"} /\ req'[r].todo = req[r].todo
        /\ req'[r].pc = "telling" => req'[r].bill = req[r].bill
        /\ req[r].pc \in {"compared", "telling"}
    BY <1>4, OnwardStages
  <2>2. Todo(r)' = Todo(r)
    BY <2>1 DEF Todo
  <2>3. QED
    BY <1>4, <2>1, <2>2 DEF NoBillTwice
<1>5. QED
  BY <1>1, <1>2, <1>3, <1>4 DEF OnwardStep

\* A request holds no bill it did not hold before, and a report is no longer
\* owed once it is made.
LEMMA OnwardHolding ==
    ASSUME TypeInv, NoBillTwice, NEW r \in Requests, OnwardStep(r), NEW b \in Bills
    PROVE  /\ Holding(b)' \subseteq Holding(b)
           /\ BatchTell(r) /\ req[r].bill = b => r \in Holding(b) /\ r \notin Holding(b)'
           /\ Fresh(b)' => Fresh(b)
           /\ \A p \in Requests : Telling(p, b)' =>
                 Telling(p, b) \/ (BatchWrite(r) /\ p = r /\ req[r].bill = b)
<1>1. ASSUME NEW p \in Requests, Telling(p, b)'
      PROVE  Telling(p, b) \/ (BatchWrite(r) /\ p = r /\ req[r].bill = b)
  <2>1. p # r => req'[p] = req[p]
    BY DEF TypeInv, TypeOK, OnwardStep, MatchCompare, MatchWrite, BatchCompare, BatchWrite,
           BatchTell, BatchTellFail, End
  <2>2. ~BatchWrite(r) => req'[r].pc # "telling"
    BY OnwardStages DEF TypeInv, TypeOK, OnwardStep, MatchWrite, BatchCompare, End, Idle
  <2>3. BatchWrite(r) /\ req'[r].pc = "telling" => req'[r].bill = req[r].bill
    BY DEF TypeInv, TypeOK, BatchWrite, Loop
  <2>4. QED
    BY <1>1, <2>1, <2>2, <2>3 DEF Telling
<1>2. BatchWrite(r) /\ req[r].bill = b => Ahead(r, b)
  BY DEF BatchWrite, Ahead
<1>3. Holding(b)' \subseteq Holding(b)
  BY <1>1, <1>2, OnwardAhead DEF Holding
<1>4. ASSUME BatchTell(r), req[r].bill = b PROVE r \in Holding(b) /\ r \notin Holding(b)'
  <2>1. req[r].pc = "telling" /\ Telling(r, b)
    BY <1>4 DEF BatchTell, Telling
  <2>2. req'[r] = Loop(req[r])
    BY <1>4 DEF BatchTell, TypeInv, TypeOK
  <2>3. req'[r].pc = "loop" /\ Todo(r)' = Todo(r)
    BY <2>1, <2>2 DEF Todo, Loop
  <2>4. \A x \in Todo(r) : x.bill # b
    BY <1>4, <2>1 DEF NoBillTwice
  <2>5. QED
    BY <2>1, <2>3, <2>4 DEF Holding, Ahead, Telling
<1>5. Fresh(b)' => Fresh(b)
  BY OnwardBills DEF Fresh
<1>6. QED
  BY <1>1, <1>3, <1>4, <1>5

\* The messages of one bill are written.
LEMMA TellReport ==
    ASSUME TypeInv, ReportInv, NEW r \in Requests, BatchTell(r)
    PROVE  ReportInv'
<1>1. OnwardStep(r) /\ NoBillTwice /\ bills' = bills
  BY DEF OnwardStep, ReportInv, BatchTell
<1>2. NoBillTwice'
  BY <1>1, OnwardTwice
<1>3. ~Fresh(req[r].bill) /\ req[r].bill \in Bills
  BY RequestFields DEF ReportInv, BatchTell, Telling, TypeInv, TypeOK
<1>4. \A p \in Requests, b \in Bills : Telling(p, b)' => ~Fresh(b)'
  BY <1>1, OnwardHolding DEF ReportInv, BatchTell, BatchWrite, Fresh
<1>5. ASSUME NEW u \in Users, NEW b \in Bills
      PROVE  /\ b # req[r].bill => told'[u][b] = told[u][b]
             /\ told'[u][b] \in {told[u][b], told[u][b] + 1}
  <2>1. told'[u] \in {told[u], [told[u] EXCEPT ![req[r].bill] = @ + 1]}
    BY DEF BatchTell
  <2>2. QED
    BY <2>1 DEF TypeInv, TypeOK
<1>6. ASSUME NEW u \in Users, NEW b \in Bills, Fresh(b)'
      PROVE  told'[u][b] = 0
  <2>1. Fresh(b)
    BY <1>1, <1>6 DEF Fresh
  <2>2. QED
    BY <1>3, <1>5, <2>1 DEF ReportInv
<1>7. ASSUME NEW u \in Users, NEW b \in Bills
      PROVE  told'[u][b] + Cardinality(Holding(b)') <= Cardinality(Requests)
  <2>1. Holding(b) \in SUBSET Requests /\ Holding(b)' \in SUBSET Holding(b)
    BY <1>1, OnwardHolding DEF Holding
  <2>2. /\ Cardinality(Holding(b)) \in Nat /\ Cardinality(Holding(b)') \in Nat
        /\ Cardinality(Holding(b)') <= Cardinality(Holding(b))
    BY <2>1, RequestSets
  <2>3. told[u][b] \in Nat /\ Cardinality(Requests) \in Nat
    BY BillsAssumption, FS_CardinalityType DEF TypeInv, TypeOK
  <2>4. told[u][b] + Cardinality(Holding(b)) <= Cardinality(Requests)
    BY DEF ReportInv
  <2>5. CASE b = req[r].bill
    <3>1. Cardinality(Holding(b)') + 1 <= Cardinality(Holding(b))
      BY <1>1, <2>1, <2>5, OnwardHolding, RequestSets
    <3>2. QED
      BY <1>5, <2>2, <2>3, <2>4, <3>1
  <2>6. CASE b # req[r].bill
    BY <1>5, <2>2, <2>3, <2>4, <2>6
  <2>7. QED
    BY <2>5, <2>6
<1>8. \A u \in Users, b \in Bills : told'[u][b] + Cardinality(Holding(b))' <= Cardinality(Requests)
  BY <1>7
<1>9. QED
  BY <1>2, <1>4, <1>6, <1>8 DEF ReportInv

\* A request starts: what it takes up has not been reported.
LEMMA BeginReport ==
    ASSUME TypeInv, ReportInv, NEW r \in Requests, BeginStep(r)
    PROVE  ReportInv'
<1>1. bills' = bills /\ told' = told
  BY BeginFields
<1>2. NoBillTwice'
  <2> SUFFICES ASSUME NEW p \in Requests, NEW x \in Todo(p)'
               PROVE  /\ \A y \in Todo(p)' : x.bill = y.bill => x = y
                      /\ req'[p].pc \in {"compared", "telling"} => x.bill # req'[p].bill
    BY DEF NoBillTwice
  <2>1. CASE p = r
    <3>1. \A y \in Todo(p)' :
              y = [bill |-> y.bill, payable |-> bills[y.bill].payable, orderNo |-> bills[y.bill].orderNo]
      BY <2>1, BeginFields
    <3>2. \A y \in Todo(p)' : x.bill = y.bill => x = y
      BY <3>1
    <3>3. req'[p].pc \notin {"compared", "telling"}
      BY <2>1, BeginFields
    <3>4. QED
      BY <3>2, <3>3
  <2>2. CASE p # r
    <3>1. req'[p] = req[p]
      BY <2>2, BeginFields
    <3>2. QED
      BY <3>1 DEF ReportInv, NoBillTwice, Todo
  <2>3. QED
    BY <2>1, <2>2
<1>3. \A p \in Requests, b \in Bills : Telling(p, b)' => Telling(p, b)
  BY BeginFields DEF Telling
<1>4. ASSUME NEW u \in Users, NEW b \in Bills
      PROVE  told[u][b] + Cardinality(Holding(b)') <= Cardinality(Requests)
  <2>1. told[u][b] \in Nat /\ Cardinality(Requests) \in Nat
    BY BillsAssumption, FS_CardinalityType DEF TypeInv, TypeOK
  <2>2. CASE b \in Waiting
    <3>1. told[u][b] = 0
      BY <2>2 DEF ReportInv, Waiting, Fresh
    <3>2. Cardinality(Holding(b)') \in Nat /\ Cardinality(Holding(b)') <= Cardinality(Requests)
      BY RequestSets DEF Holding
    <3>3. QED
      BY <2>1, <3>1, <3>2
  <2>3. CASE b \notin Waiting
    <3>1. \A p \in Requests : Ahead(p, b)' => Ahead(p, b)
      BY <2>3, BeginFields DEF Ahead, Todo
    <3>2. Holding(b) \in SUBSET Requests /\ Holding(b)' \in SUBSET Holding(b)
      BY <1>3, <3>1 DEF Holding
    <3>3. /\ Cardinality(Holding(b)) \in Nat /\ Cardinality(Holding(b)') \in Nat
          /\ Cardinality(Holding(b)') <= Cardinality(Holding(b))
      BY <3>2, RequestSets
    <3>4. told[u][b] + Cardinality(Holding(b)) <= Cardinality(Requests)
      BY DEF ReportInv
    <3>5. QED
      BY <2>1, <3>3, <3>4
  <2>4. QED
    BY <2>2, <2>3
<1>5. \A u \in Users, b \in Bills : told'[u][b] + Cardinality(Holding(b))' <= Cardinality(Requests)
  BY <1>1, <1>4
<1>6. QED
  BY <1>1, <1>2, <1>3, <1>5 DEF ReportInv, Fresh

\* No step breaks the invariant.
LEMMA NextReport == TypeInv /\ ReportInv /\ [Next]_vars => ReportInv'
<1> SUFFICES ASSUME TypeInv, ReportInv, [Next]_vars PROVE ReportInv'
  OBVIOUS
<1>1. ASSUME NEW b \in Bills, CreateBill(b) \/ UpdateBill(b) \/ PayBill(b) PROVE ReportInv'
  <2>1. req' = req /\ told' = told
    BY <1>1, StatementStatus
  <2>2. NoBillTwice' /\ \A c \in Bills : Holding(c)' = Holding(c)
    BY <2>1 DEF ReportInv, NoBillTwice, Todo, Holding, Ahead, Telling
  <2>3. ASSUME NEW c \in Bills PROVE Fresh(c)' => Fresh(c)
    BY <1>1, StatementStatus DEF Fresh, Absent
  <2>4. ASSUME NEW p \in Requests, NEW c \in Bills, Telling(p, c)' PROVE ~Fresh(c)'
    <3>1. Telling(p, c) /\ ~Fresh(c)
      BY <2>1, <2>4 DEF ReportInv, Telling
    <3>2. QED
      BY <2>3, <3>1
  <2>5. QED
    BY <2>1, <2>2, <2>3, <2>4, QuietReport
<1>2. CASE (\E o \in Orders : UpdateOrder(o)) \/ (\E u \in Users : UpdateUser(u))
  <2>1. bills' = bills /\ req' = req /\ told' = told
    BY <1>2 DEF UpdateOrder, UpdateUser
  <2>2. QED
    BY <2>1 DEF ReportInv, NoBillTwice, Todo, Holding, Ahead, Telling, Fresh
<1>3. ASSUME NEW r \in Requests, BeginStep(r) PROVE ReportInv'
  BY <1>3, BeginReport
<1>4. ASSUME NEW r \in Requests, OnwardStep(r), ~BatchTell(r) PROVE ReportInv'
  <2>1. NoBillTwice
    BY DEF ReportInv
  <2>2. NoBillTwice'
    BY <1>4, <2>1, OnwardTwice
  <2>3. told' = told
    BY <1>4 DEF OnwardStep, MatchCompare, MatchWrite, BatchCompare, BatchWrite, BatchTellFail, End
  <2>4. ASSUME NEW p \in Requests, NEW c \in Bills, Telling(p, c)' PROVE ~Fresh(c)'
    <3>1. CASE Telling(p, c)
      BY <1>4, <2>1, <3>1, OnwardHolding DEF ReportInv
    <3>2. CASE BatchWrite(r) /\ p = r /\ req[r].bill = c
      <4>1. PICK s \in {"matched", "disputed"} : Decide(r, c, s, req[r].diff, TRUE)
        BY <3>2 DEF BatchWrite
      <4>2. bills[c] \in Bill
        BY <3>2, BillFields DEF BatchWrite, TypeInv, NamedExist, InHand
      <4>3. bills'[c].status = s
        BY <4>1, <4>2 DEF Decide, TypeInv, TypeOK, Bill
      <4>4. QED
        BY <4>3 DEF Fresh
    <3>3. QED
      BY <1>4, <2>1, <2>4, <3>1, <3>2, OnwardHolding
  <2>5. \A c \in Bills : Holding(c)' \subseteq Holding(c) /\ (Fresh(c)' => Fresh(c))
    BY <1>4, <2>1, OnwardHolding
  <2>6. QED
    BY <2>2, <2>3, <2>4, <2>5, QuietReport
<1>5. ASSUME NEW r \in Requests, BatchTell(r) PROVE ReportInv'
  BY <1>5, TellReport
<1>6. CASE UNCHANGED vars
  BY <1>6 DEF vars, ReportInv, NoBillTwice, Todo, Holding, Ahead, Telling, Fresh
<1>7. QED
  BY <1>1, <1>2, <1>3, <1>4, <1>5, <1>6, NextCases

\* For any number of batches that overlap: nobody has more messages about a
\* bill than batches can run at one time, however often they run.
THEOREM BillsReportsBounded == Spec => []ReportsBounded
<1>1. Init => ReportInv
  <2> SUFFICES ASSUME Init PROVE ReportInv
    OBVIOUS
  <2>1. NoBillTwice /\ \A b \in Bills : Holding(b) = {}
    BY DEF Init, NoBillTwice, Todo, Holding, Ahead, Telling, Idle
  <2>2. Cardinality(Requests) \in Nat /\ Cardinality({}) = 0
    BY BillsAssumption, FS_CardinalityType, FS_EmptySet
  <2>3. \A u \in Users, b \in Bills : told[u][b] = 0
    BY DEF Init
  <2>4. \A u \in Users, b \in Bills : told[u][b] + Cardinality(Holding(b)) <= Cardinality(Requests)
    BY <2>1, <2>2, <2>3
  <2>5. QED
    BY <2>1, <2>3, <2>4 DEF Init, ReportInv, Telling, Idle
<1>2. Spec => [](TypeInv /\ ReportInv)
  BY <1>1, InitTypes, NextTypes, NextReport, PTL DEF Spec
<1>3. TypeInv /\ ReportInv => ReportsBounded
  <2> SUFFICES ASSUME TypeInv, ReportInv, NEW u \in Users, NEW b \in Bills
               PROVE  told[u][b] <= Cardinality(Requests)
    BY DEF ReportsBounded
  <2>1. Cardinality(Holding(b)) \in Nat
    BY RequestSets DEF Holding
  <2>2. told[u][b] \in Nat /\ Cardinality(Requests) \in Nat
    BY BillsAssumption, FS_CardinalityType DEF TypeInv, TypeOK
  <2>3. QED
    BY <2>1, <2>2 DEF ReportInv
<1>4. QED
  BY <1>2, <1>3, PTL

-----------------------------------------------------------------------------
(***************************************************************************)
(* DecidedRight.  A request that was not outrun still holds the terms of   *)
(* the bill, and a difference computed from them.                          *)
(***************************************************************************)

Faithful(r) ==
    LET q == req[r]
    IN  /\ q.pc = "read" /\ q.bill \notin outrun[r] =>
              q.payable = bills[q.bill].payable /\ q.order = bills[q.bill].order
        /\ q.pc = "judging" /\ q.bill \notin outrun[r] =>
              /\ q.diff = bills[q.bill].payable - Owed(bills[q.bill].order, q.found)
              /\ q.found => bills[q.bill].order \in Orders
        /\ \A x \in Todo(r) : x.bill \notin outrun[r] =>
              x.payable = bills[x.bill].payable /\ x.orderNo = bills[x.bill].orderNo
        /\ q.pc = "compared" /\ q.bill \notin outrun[r] =>
              /\ bills[q.bill].orderNo \in Orders
              /\ q.diff = bills[q.bill].payable - total[bills[q.bill].orderNo]

AllFaithful == \A r \in Requests : Faithful(r)

\* The decision about bill b is right.
Right(b) ==
    bills[b].status \in {"matched", "disputed"} =>
        /\ IF b \in misread
           THEN bills[b].diff = bills[b].payable
           ELSE \E t \in Comparable(bills[b]) : bills[b].diff = bills[b].payable - t
        /\ bills[b].status = "matched" =>
              bills[b].diff <= Tolerance /\ -bills[b].diff <= Tolerance
        /\ bills[b].status = "disputed" => bills[b].diff # 0

\* The terms of bill b are kept by a step.
SameTerms(b) ==
    /\ bills'[b].payable = bills[b].payable
    /\ bills'[b].order = bills[b].order
    /\ bills'[b].orderNo = bills[b].orderNo

\* A request that goes on as it was is as faithful as it was, unless a bill it
\* works on changes and it is not outrun by that.
LEMMA StillFaithful ==
    ASSUME TypeInv, NEW r \in Requests, Faithful(r), req'[r] = req[r], total' = total,
           \A b \in Bills : Exists(b) /\ b \notin outrun'[r] /\ req[r] # Idle
               => b \notin outrun[r] /\ SameTerms(b)
    PROVE  Faithful(r)'
<1>1. \A b \in Bills : InHand(r, b) \/ (\E x \in Todo(r) : x.bill = b) => Exists(b)
  BY DEF TypeInv, NamedExist
<1>2. req[r].pc \in {"read", "judging", "compared"} => req[r].bill \in Bills /\ InHand(r, req[r].bill)
  BY RequestFields DEF TypeInv, TypeOK, InHand
<1>3. \A x \in Todo(r) : x.bill \in Bills
  BY RequestFields DEF TypeInv, TypeOK, Todo, Copy
<1>4. req[r].pc # "idle" => req[r] # Idle
  BY DEF Idle
<1>5. \A o, found : Owed(o, found)' = Owed(o, found)
  BY DEF Owed
<1>6. Todo(r)' = Todo(r) /\ (Todo(r) # {} => req[r] # Idle)
  BY DEF Todo, Idle
<1>7. req[r].pc \in {"read", "judging", "compared"} /\ req[r].bill \notin outrun'[r] =>
          req[r].bill \notin outrun[r] /\ SameTerms(req[r].bill)
  BY <1>1, <1>2, <1>4
<1>8. \A x \in Todo(r) : x.bill \notin outrun'[r] => x.bill \notin outrun[r] /\ SameTerms(x.bill)
  BY <1>1, <1>3, <1>6
<1>9. QED
  BY <1>5, <1>6, <1>7, <1>8 DEF Faithful, SameTerms

\* A bill that keeps its terms, status and difference stays rightly decided.
LEMMA StillRight ==
    ASSUME TypeInv, NEW b \in Bills, Right(b), SameTerms(b),
           bills'[b].status = bills[b].status, bills'[b].diff = bills[b].diff,
           (b \in misread)' <=> b \in misread,
           Exists(b) => Comparable(bills[b])' = Comparable(bills[b])
    PROVE  Right(b)'
<1>1. CASE Exists(b)
  <2>1. Comparable(bills[b])' = Comparable(bills[b])
    BY <1>1
  <2>2. QED
    BY <2>1 DEF Right, SameTerms
<1>2. CASE ~Exists(b)
  BY <1>2 DEF Right, Exists, Absent
<1>3. QED
  BY <1>1, <1>2

\* The totals and the orders of a bill are all that Comparable depends on.
LEMMA SameComparable ==
    ASSUME NEW b \in Bills, SameTerms(b), total' = total
    PROVE  Comparable(bills[b])' = Comparable(bills[b])
BY DEF Comparable, SameTerms

\* Requests of one statement.
LEMMA StatementRight ==
    ASSUME TypeInv, AllFaithful, DecidedRight,
           NEW b \in Bills, CreateBill(b) \/ UpdateBill(b) \/ PayBill(b)
    PROVE  AllFaithful' /\ DecidedRight'
<1>1. /\ \A c \in Bills \ {b} : bills'[c] = bills[c]
      /\ req' = req /\ total' = total /\ misread' = misread
  BY StatementStatus
<1>2. \A c \in Bills \ {b} : SameTerms(c)
  BY <1>1 DEF SameTerms
<1>3. \A c \in Bills : c \notin dirty => Right(c)
  BY DEF DecidedRight, Right
<1>4. CASE CreateBill(b)
  <2>1. ~Exists(b) /\ outrun' = outrun /\ dirty' = dirty /\ bills'[b].status = "draft"
    BY <1>4, StatementStatus DEF CreateBill
  <2>2. AllFaithful'
    BY <1>1, <1>2, <2>1, StillFaithful DEF AllFaithful
  <2>3. \A c \in Bills : c \notin dirty' => Right(c)'
    <3>1. ASSUME NEW c \in Bills \ {b}, c \notin dirty PROVE Right(c)'
      BY <1>1, <1>2, <1>3, <3>1, StillRight, SameComparable
    <3>2. Right(b)'
      BY <2>1 DEF Right
    <3>3. QED
      BY <2>1, <3>1, <3>2
  <2>4. QED
    BY <2>2, <2>3 DEF DecidedRight, Right
<1>5. CASE UpdateBill(b)
  <2>1. dirty' = dirty \cup {b}
    BY <1>5, Zenon DEF UpdateBill
  <2>2. \A r \in Requests : req[r] # Idle => outrun'[r] = outrun[r] \cup {b}
    <3>1. Outrun({b}, {"read", "judging", "loop", "compared", "telling"})
      BY <1>5, Zenon DEF UpdateBill
    <3>2. QED
      BY <3>1, RequestFields DEF Outrun, TypeInv, TypeOK
  <2>3. AllFaithful'
    BY <1>1, <1>2, <2>2, StillFaithful DEF AllFaithful
  <2>4. \A c \in Bills : c \notin dirty' => Right(c)'
    BY <1>1, <1>2, <1>3, <2>1, StillRight, SameComparable
  <2>5. QED
    BY <2>3, <2>4 DEF DecidedRight, Right
<1>6. CASE PayBill(b)
  <2>1. outrun' = outrun /\ dirty' = dirty /\ bills'[b].status = "paid" /\ SameTerms(b)
    <3>1. bills[b] \in Bill
      BY <1>6, BillFields DEF PayBill, TypeInv
    <3>2. bills'[b] = [bills[b] EXCEPT !.status = "paid"]
      BY <1>6 DEF PayBill, TypeInv, TypeOK
    <3>3. QED
      BY <1>6, <3>1, <3>2 DEF PayBill, SameTerms, Bill
  <2>2. AllFaithful'
    BY <1>1, <1>2, <2>1, StillFaithful DEF AllFaithful
  <2>3. \A c \in Bills : c \notin dirty' => Right(c)'
    <3>1. ASSUME NEW c \in Bills \ {b}, c \notin dirty PROVE Right(c)'
      BY <1>1, <1>2, <1>3, <3>1, StillRight, SameComparable
    <3>2. Right(b)'
      BY <2>1 DEF Right
    <3>3. QED
      BY <2>1, <3>1, <3>2
  <2>4. QED
    BY <2>2, <2>3 DEF DecidedRight, Right
<1>7. QED
  BY <1>4, <1>5, <1>6

\* A correction of an order outruns who has compared a bill with it.
LEMMA OrderRight ==
    ASSUME TypeInv, AllFaithful, DecidedRight, NEW o \in Orders, UpdateOrder(o)
    PROVE  AllFaithful' /\ DecidedRight'
<1> DEFINE B == {b \in Bills : Exists(b) /\ o \in {bills[b].order, bills[b].orderNo}}
<1>1. /\ bills' = bills /\ req' = req /\ dirty' = dirty \cup B /\ misread' = misread
      /\ Outrun(B, {"judging", "compared"})
  BY DEF UpdateOrder
<1>2. \A p \in Orders : p # o => total'[p] = total[p]
  BY DEF UpdateOrder, TypeInv, TypeOK
<1>3. o # NoOrder
  BY BillsAssumption
<1>4. ASSUME NEW b \in Bills, Exists(b), b \notin B
      PROVE  /\ bills[b].order \in Orders => total'[bills[b].order] = total[bills[b].order]
             /\ bills[b].orderNo \in Orders => total'[bills[b].orderNo] = total[bills[b].orderNo]
             /\ Comparable(bills[b])' = Comparable(bills[b])
  <2>1. bills[b].order # o /\ bills[b].orderNo # o
    BY <1>4
  <2>2. bills[b].order \in Orders => total'[bills[b].order] = total[bills[b].order]
    BY <1>2, <2>1
  <2>3. bills[b].orderNo \in Orders => total'[bills[b].orderNo] = total[bills[b].orderNo]
    BY <1>2, <2>1
  <2>4. Comparable(bills[b])' = Comparable(bills[b])
    BY <1>1, <2>2, <2>3 DEF Comparable
  <2>5. QED
    BY <2>2, <2>3, <2>4
<1> HIDE DEF B
<1>5. ASSUME NEW r \in Requests PROVE Faithful(r)'
  <2>1. req'[r] = req[r] /\ Todo(r)' = Todo(r)
    BY <1>1 DEF Todo
  <2>2. /\ outrun[r] \subseteq outrun'[r]
        /\ req[r].pc \in {"judging", "compared"} => outrun'[r] = outrun[r] \cup B
    BY <1>1 DEF Outrun
  <2>3. req[r].pc \in {"read", "judging", "compared"} => req[r].bill \in Bills /\ InHand(r, req[r].bill)
    BY RequestFields DEF TypeInv, TypeOK, InHand
  <2>4. req[r].pc \in {"judging", "compared"} /\ req[r].bill \notin outrun'[r] =>
            req[r].bill \notin B /\ Exists(req[r].bill) /\ req[r].bill \notin outrun[r]
    BY <2>2, <2>3 DEF TypeInv, NamedExist
  <2>5. Faithful(r)
    BY DEF AllFaithful
  <2>6. QED
    BY <1>1, <1>4, <2>1, <2>2, <2>3, <2>4, <2>5 DEF Faithful, Owed
<1>6. ASSUME NEW b \in Bills, b \notin dirty' PROVE Right(b)'
  <2>1. Right(b) /\ b \notin B
    BY <1>1, <1>6 DEF DecidedRight, Right
  <2>2. Exists(b) => Comparable(bills[b])' = Comparable(bills[b])
    BY <1>4, <2>1
  <2>3. SameTerms(b)
    BY <1>1 DEF SameTerms
  <2>4. QED
    BY <1>1, <2>1, <2>2, <2>3, StillRight
<1>7. QED
  BY <1>5, <1>6 DEF AllFaithful, DecidedRight, Right

\* A request starts from what it reads.
LEMMA BeginRight ==
    ASSUME TypeInv, AllFaithful, DecidedRight, NEW r \in Requests, BeginStep(r)
    PROVE  AllFaithful' /\ DecidedRight'
<1>1. UNCHANGED <<bills, total, dirty, misread>>
  BY BeginFields
<1>2. \A b \in Bills : SameTerms(b)
  BY <1>1 DEF SameTerms
<1>3. ASSUME NEW p \in Requests, p # r PROVE Faithful(p)'
  <2>1. req'[p] = req[p] /\ outrun'[p] = outrun[p] /\ Faithful(p)
    BY <1>3, BeginFields DEF AllFaithful
  <2>2. QED
    BY <1>1, <1>2, <2>1, StillFaithful
<1>4. Faithful(r)'
  <2>1. \A x \in Todo(r)' : x.payable = bills[x.bill].payable /\ x.orderNo = bills[x.bill].orderNo
    <3>1. \A x \in Todo(r)' :
              x = [bill |-> x.bill, payable |-> bills[x.bill].payable, orderNo |-> bills[x.bill].orderNo]
      BY BeginFields
    <3>2. QED
      BY <3>1
  <2>2. req'[r].pc \in {"read", "loop"}
    BY BeginFields
  <2>3. req'[r].pc = "read" =>
            req'[r].payable = bills[req'[r].bill].payable /\ req'[r].order = bills[req'[r].bill].order
    <3>1. CASE BatchList(r)
      BY <3>1 DEF BatchList, NotifyUserIDs, Begin, TypeInv, TypeOK
    <3>2. CASE \E b \in Bills : MatchRead(r, b)
      BY <3>2 DEF MatchRead, Begin, TypeInv, TypeOK
    <3>3. QED
      BY <3>1, <3>2 DEF BeginStep
  <2>4. QED
    BY <1>1, <2>1, <2>2, <2>3 DEF Faithful
<1>5. DecidedRight'
  BY <1>1 DEF DecidedRight, Comparable
<1>6. QED
  BY <1>3, <1>4, <1>5 DEF AllFaithful

\* A decision made on the terms of the bill is right.
LEMMA VerdictRight ==
    ASSUME TypeInv, NEW r \in Requests, NEW b \in Bills, Exists(b), NEW s \in {"matched", "disputed"},
           NEW d \in Int, NEW found \in BOOLEAN, Decide(r, b, s, d, found), total' = total,
           IF found THEN \E t \in Comparable(bills[b]) : d = bills[b].payable - t
           ELSE d = bills[b].payable,
           s = "matched" => d <= Tolerance /\ -d <= Tolerance,
           s = "disputed" => d # 0
    PROVE  Right(b)'
<1>1. bills[b] \in Bill
  BY BillFields DEF TypeInv
<1>2. bills'[b] = [bills[b] EXCEPT !.status = s, !.diff = d]
  BY DEF Decide, TypeInv, TypeOK
<1>3. bills'[b].status = s /\ bills'[b].diff = d /\ SameTerms(b)
  BY <1>1, <1>2 DEF Bill, SameTerms
<1>4. Comparable(bills[b])' = Comparable(bills[b])
  BY <1>3, SameComparable
<1>5. b \in misread' <=> ~found
  BY DEF Decide
<1>6. QED
  BY <1>3, <1>4, <1>5 DEF Right, SameTerms

\* What request r writes keeps the terms of every bill.
LEMMA OnwardTerms ==
    ASSUME TypeInv, NEW r \in Requests, OnwardStep(r), NEW b \in Bills
    PROVE  SameTerms(b)
<1>1. CASE MatchWrite(r) \/ BatchWrite(r)
  <2>1. PICK s \in {"matched", "disputed"} : \E found : Decide(r, req[r].bill, s, req[r].diff, found)
    BY <1>1 DEF MatchWrite, BatchWrite
  <2>2. req[r].bill \in Bills /\ InHand(r, req[r].bill)
    BY <1>1, RequestFields DEF TypeInv, TypeOK, MatchWrite, BatchWrite, InHand
  <2>3. bills[req[r].bill] \in Bill
    BY <2>2, BillFields DEF TypeInv, NamedExist
  <2>4. CASE b = req[r].bill
    <3>1. bills'[b] = [bills[b] EXCEPT !.status = s, !.diff = req[r].diff]
      BY <2>1, <2>4 DEF Decide, TypeInv, TypeOK
    <3>2. QED
      BY <2>3, <2>4, <3>1 DEF Bill, SameTerms
  <2>5. CASE b # req[r].bill
    BY <2>1, <2>5 DEF Decide, TypeInv, TypeOK, SameTerms
  <2>6. QED
    BY <2>4, <2>5
<1>2. CASE ~(MatchWrite(r) \/ BatchWrite(r))
  BY <1>2 DEF OnwardStep, MatchCompare, BatchCompare, BatchTell, BatchTellFail, End, SameTerms
<1>3. QED
  BY <1>1, <1>2

\* A request that goes on stays faithful.
LEMMA OnwardFaithful ==
    ASSUME TypeInv, AllFaithful, NEW r \in Requests, OnwardStep(r)
    PROVE  AllFaithful'
<1>1. total' = total /\ outrun' = outrun
  BY DEF OnwardStep, MatchCompare, MatchWrite, BatchCompare, BatchWrite, BatchTell, BatchTellFail, End
<1>2. \A b \in Bills : SameTerms(b)
  BY OnwardTerms
<1>3. ASSUME NEW p \in Requests, p # r PROVE Faithful(p)'
  <2>1. req'[p] = req[p] /\ Faithful(p)
    BY <1>3 DEF AllFaithful, TypeInv, TypeOK, OnwardStep, MatchCompare, MatchWrite, BatchCompare,
                BatchWrite, BatchTell, BatchTellFail, End
  <2>2. QED
    BY <1>1, <1>2, <2>1, StillFaithful
<1>4. Faithful(r)
  BY DEF AllFaithful
<1>5. \A o, found : Owed(o, found)' = Owed(o, found)
  BY <1>1 DEF Owed
<1>6. ASSUME MatchCompare(r) PROVE Faithful(r)'
  <2>1. req[r].pc = "read" /\ req[r].bill \in Bills /\ req[r].order \in Refs
    BY <1>6, RequestFields DEF MatchCompare, TypeInv, TypeOK
  <2>2. PICK found \in {FALSE, req[r].order # NoOrder} :
            req'[r] = [pc |-> "judging", bill |-> req[r].bill,
                       diff |-> req[r].payable - Owed(req[r].order, found), found |-> found]
    BY <1>6 DEF MatchCompare, TypeInv, TypeOK
  <2>a. found => req[r].order \in Orders
    BY <2>1 DEF Refs
  <2>3. Todo(r)' = {}
    BY <2>2 DEF Todo
  <2>4. SameTerms(req[r].bill)
    BY <1>2, <2>1
  <2>5. QED
    BY <1>1, <1>4, <1>5, <2>1, <2>2, <2>a, <2>3, <2>4 DEF Faithful, SameTerms
<1>7. ASSUME MatchWrite(r) \/ End(r) PROVE Faithful(r)'
  <2>1. req'[r].pc = "idle" /\ Todo(r)' = {}
    BY <1>7 DEF MatchWrite, End, Idle, TypeInv, TypeOK, Todo
  <2>2. QED
    BY <2>1 DEF Faithful
<1>8. \A x \in Todo(r) : x.bill \in Bills /\ x.orderNo \in Orders
  BY RequestFields DEF TypeInv, TypeOK, Todo, Copy
<1>9. \A x \in Todo(r) : x.bill \notin outrun'[r] =>
          x.payable = bills'[x.bill].payable /\ x.orderNo = bills'[x.bill].orderNo
  BY <1>1, <1>2, <1>4, <1>8 DEF Faithful, SameTerms
<1>10. ASSUME BatchCompare(r) PROVE Faithful(r)'
  <2>1. PICK x \in req[r].todo :
            req' = [req EXCEPT ![r] =
                [pc |-> "compared", todo |-> @.todo \ {x}, users |-> @.users,
                 bill |-> x.bill, diff |-> x.payable - total[x.orderNo]]]
    BY <1>10 DEF BatchCompare
  <2>2. /\ req'[r].pc = "compared" /\ req'[r].bill = x.bill /\ req'[r].diff = x.payable - total[x.orderNo]
        /\ Todo(r)' = req[r].todo \ {x}
    BY <2>1 DEF TypeInv, TypeOK, Todo
  <2>3. Todo(r) = req[r].todo
    BY <1>10 DEF BatchCompare, Todo
  <2>4. QED
    BY <1>1, <1>8, <1>9, <2>2, <2>3 DEF Faithful
<1>11. ASSUME BatchWrite(r) \/ BatchTell(r) \/ BatchTellFail(r) PROVE Faithful(r)'
  <2>1. req'[r].pc \in {"loop", "telling"} /\ Todo(r)' = Todo(r)
    BY <1>11, OnwardStages DEF Todo
  <2>2. QED
    BY <1>9, <2>1 DEF Faithful
<1>12. Faithful(r)'
  BY <1>6, <1>7, <1>10, <1>11 DEF OnwardStep
<1>13. QED
  BY <1>3, <1>12 DEF AllFaithful

\* A request writes right decisions, or marks the bill as one whose terms have
\* changed since.
LEMMA OnwardRight ==
    ASSUME TypeInv, AllFaithful, DecidedRight, NEW r \in Requests, OnwardStep(r)
    PROVE  DecidedRight'
<1> SUFFICES ASSUME NEW b \in Bills, b \notin dirty' PROVE Right(b)'
  BY DEF DecidedRight, Right
<1>1. total' = total /\ SameTerms(b)
  BY OnwardTerms
     DEF OnwardStep, MatchCompare, MatchWrite, BatchCompare, BatchWrite, BatchTell, BatchTellFail, End
<1>2. CASE MatchWrite(r) /\ req[r].bill = b
  <2>1. req[r].pc = "judging" /\ req[r].diff \in Int /\ Exists(b) /\ req[r].found \in BOOLEAN
    BY <1>2, RequestFields DEF MatchWrite, TypeInv, TypeOK, NamedExist, InHand
  <2>2. b \notin outrun[r]
    BY <1>2 DEF MatchWrite, Decide
  <2>3. /\ req[r].diff = bills[b].payable - Owed(bills[b].order, req[r].found)
        /\ req[r].found => bills[b].order \in Orders
    BY <1>2, <2>1, <2>2 DEF AllFaithful, Faithful
  <2>4. IF req[r].found THEN \E t \in Comparable(bills[b]) : req[r].diff = bills[b].payable - t
        ELSE req[r].diff = bills[b].payable
    <3>1. bills[b].payable \in Int
      BY <2>1, BillFields, BillsAssumption DEF TypeInv, Bill
    <3>2. req[r].found => Owed(bills[b].order, req[r].found) \in Comparable(bills[b])
      BY <2>3 DEF Owed, Comparable
    <3>3. QED
      BY <2>3, <3>1, <3>2 DEF Owed
  <2>5. Decide(r, b, IF req[r].diff = 0 THEN "matched" ELSE "disputed", req[r].diff, req[r].found)
    BY <1>2 DEF MatchWrite
  <2>6. CASE req[r].diff = 0
    <3>1. 0 <= Tolerance /\ -0 <= Tolerance
      BY BillsAssumption
    <3>2. QED
      BY <1>1, <2>1, <2>4, <2>5, <2>6, <3>1, VerdictRight
  <2>7. CASE req[r].diff # 0
    BY <1>1, <2>1, <2>4, <2>5, <2>7, VerdictRight
  <2>8. QED
    BY <2>6, <2>7
<1>3. CASE BatchWrite(r) /\ req[r].bill = b
  <2>1. req[r].pc = "compared" /\ req[r].diff \in Int /\ Exists(b)
    BY <1>3, RequestFields DEF BatchWrite, TypeInv, TypeOK, NamedExist, InHand
  <2>2. b \notin outrun[r]
    BY <1>3 DEF BatchWrite, Decide
  <2>3. bills[b].orderNo \in Orders /\ req[r].diff = bills[b].payable - total[bills[b].orderNo]
    BY <1>3, <2>1, <2>2 DEF AllFaithful, Faithful
  <2>4. total[bills[b].orderNo] \in Comparable(bills[b])
    BY <2>3 DEF Comparable
  <2>5. Decide(r, b, IF Within(req[r].diff) THEN "matched" ELSE "disputed", req[r].diff, TRUE)
    BY <1>3 DEF BatchWrite
  <2>6. CASE Within(req[r].diff)
    <3>1. req[r].diff <= Tolerance /\ -req[r].diff <= Tolerance
      BY <2>1, <2>6, BillsAssumption DEF Within
    <3>2. QED
      BY <1>1, <2>1, <2>3, <2>4, <2>5, <2>6, <3>1, VerdictRight
  <2>7. CASE ~Within(req[r].diff)
    <3>1. req[r].diff # 0
      BY <2>7, BillsAssumption DEF Within
    <3>2. QED
      BY <1>1, <2>1, <2>3, <2>4, <2>5, <2>7, <3>1, VerdictRight
  <2>8. QED
    BY <2>6, <2>7
<1>4. CASE ~(MatchWrite(r) /\ req[r].bill = b) /\ ~(BatchWrite(r) /\ req[r].bill = b)
  <2>1. bills'[b] = bills[b]
    BY <1>4
       DEF OnwardStep, MatchCompare, MatchWrite, BatchCompare, BatchWrite, BatchTell,
           BatchTellFail, End, Decide, TypeInv, TypeOK
  <2>2. b \notin dirty /\ ((b \in misread)' <=> b \in misread)
    BY <1>4
       DEF OnwardStep, MatchCompare, MatchWrite, BatchCompare, BatchWrite, BatchTell,
           BatchTellFail, End, Decide
  <2>3. Right(b)
    BY <2>2 DEF DecidedRight, Right
  <2>4. QED
    BY <1>1, <2>1, <2>2, <2>3, StillRight, SameComparable
<1>5. QED
  BY <1>2, <1>3, <1>4

\* No step breaks the two.
LEMMA NextRight ==
    TypeInv /\ AllFaithful /\ DecidedRight /\ [Next]_vars => AllFaithful' /\ DecidedRight'
<1> SUFFICES ASSUME TypeInv, AllFaithful, DecidedRight, [Next]_vars
             PROVE  AllFaithful' /\ DecidedRight'
  OBVIOUS
<1>1. ASSUME NEW b \in Bills, CreateBill(b) \/ UpdateBill(b) \/ PayBill(b)
      PROVE  AllFaithful' /\ DecidedRight'
  BY <1>1, StatementRight
<1>2. ASSUME NEW o \in Orders, UpdateOrder(o) PROVE AllFaithful' /\ DecidedRight'
  BY <1>2, OrderRight
<1>3. CASE (\E u \in Users : UpdateUser(u)) \/ UNCHANGED vars
  <2>1. UNCHANGED <<bills, total, req, outrun, dirty, misread>>
    BY <1>3 DEF UpdateUser, vars
  <2>2. QED
    BY <2>1 DEF AllFaithful, Faithful, Todo, Owed, DecidedRight, Comparable
<1>4. ASSUME NEW r \in Requests, BeginStep(r) PROVE AllFaithful' /\ DecidedRight'
  BY <1>4, BeginRight
<1>5. ASSUME NEW r \in Requests, OnwardStep(r) PROVE AllFaithful' /\ DecidedRight'
  BY <1>5, OnwardFaithful, OnwardRight
<1>6. QED
  BY <1>1, <1>2, <1>3, <1>4, <1>5, NextCases

\* Whoever decides a bill and whatever runs beside it: a decision whose terms
\* have not changed since they were read states the difference to the order of
\* the bill, or the whole amount where MatchBill could not read an order.
THEOREM BillsDecidedRight == Spec => []DecidedRight
<1>1. Init => AllFaithful /\ DecidedRight
  BY DEF Init, AllFaithful, Faithful, Todo, Idle, DecidedRight
<1>2. Spec => [](TypeInv /\ AllFaithful /\ DecidedRight)
  BY <1>1, InitTypes, NextTypes, NextRight, PTL DEF Spec
<1>3. QED
  BY <1>2, PTL

=============================================================================
