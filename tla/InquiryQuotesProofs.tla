------------------------- MODULE InquiryQuotesProofs -------------------------
(***************************************************************************)
(* Proofs about InquiryQuotes, for any sets of requests, inquiries and     *)
(* quotes.  The argument is the lock on the gap: when a selection has      *)
(* marked the others, they are all the quotes the inquiry has, and none    *)
(* can be added before it commits.                                         *)
(***************************************************************************)
EXTENDS InquiryQuotes, TLAPS

Creating(r) == tx[r].op = "create"
Selecting(r) == tx[r].op = "select"
Marked(r) == Selecting(r) /\ tx[r].pc \in {"marked", "closing"}

\* An id is handed out to one insert, and is not a row before its commit.
InsertsAreFresh ==
    \A r \in Requests : Creating(r) =>
        /\ quotes[tx[r].quote] = "absent"
        /\ \A s \in Requests : Creating(s) /\ tx[s].quote = tx[r].quote => s = r

\* A selection marks quotes of its own inquiry only.
MarksOwnInquiry ==
    \A r \in Requests : Selecting(r) =>
        There(tx[r].quote) /\ \A p \in tx[r].others : There(p) /\ InquiryOf[p] = About(r)

\* Once it has marked them, the others are all there are, and none is coming.
MarksAreAll ==
    \A r \in Requests : Marked(r) =>
        /\ OthersOf(tx[r].quote) \subseteq tx[r].others
        /\ \A s \in Requests : Creating(s) => About(s) # About(r)

QuotesInv ==
    TypeOK /\ InsertsAreFresh /\ MarksOwnInquiry /\ MarksAreAll /\ AtMostOneSelected /\ SentIsQuoted

-----------------------------------------------------------------------------
(***************************************************************************)
(* Steps.                                                                  *)
(***************************************************************************)

\* What a request on a quote has in memory.
LEMMA QuoteTxFields ==
    ASSUME TypeOK, NEW r \in Requests, OnQuote(r)
    PROVE  tx[r] \in QuoteTx /\ tx[r] # Idle /\ tx[r].quote \in Quotes /\ About(r) \in Inquiries
BY QuotesAssumption DEF TypeOK, OnQuote, QuoteTx, DeleteTx, Idle, About

\* A step that leaves the quotes alone and in which request r ends or begins a
\* deletion.
LEMMA QuietStep ==
    ASSUME QuotesInv, NEW r \in Requests, quotes' = quotes,
           inquiries' \in [Inquiries -> Inquiry],
           \A i \in Inquiries : inquiries'[i].status = "sent" => inquiries[i].status = "sent",
           \/ tx' = [tx EXCEPT ![r] = Idle]
           \/ tx[r] = Idle /\ \E d \in DeleteTx : tx' = [tx EXCEPT ![r] = d]
    PROVE  QuotesInv'
<1> USE DEF QuotesInv
<1>1. TypeOK'
  BY DEF TypeOK
<1>2. \A s \in Requests : Creating(s)' \/ Selecting(s)' => tx'[s] = tx[s]
  BY DEF TypeOK, Creating, Selecting, Idle, DeleteTx
<1>3. InsertsAreFresh'
  BY <1>2 DEF InsertsAreFresh, Creating
<1>4. MarksOwnInquiry'
  BY <1>2 DEF MarksOwnInquiry, Selecting, There, About
<1>5. MarksAreAll'
  BY <1>2 DEF MarksAreAll, Marked, Creating, Selecting, OthersOf, There, About
<1>6. AtMostOneSelected' /\ SentIsQuoted'
  BY DEF AtMostOneSelected, SentIsQuoted, There
<1>7. QED
  BY <1>1, <1>3, <1>4, <1>5, <1>6

\* The same, when no request changes its transaction.
LEMMA NoRequestStep ==
    ASSUME QuotesInv, quotes' = quotes, tx' = tx,
           inquiries' \in [Inquiries -> Inquiry],
           \A i \in Inquiries : inquiries'[i].status = "sent" => inquiries[i].status = "sent"
    PROVE  QuotesInv'
<1> USE DEF QuotesInv
<1>1. TypeOK'
  BY DEF TypeOK
<1>2. InsertsAreFresh' /\ MarksOwnInquiry'
  BY DEF InsertsAreFresh, MarksOwnInquiry, Creating, Selecting, There, About
<1>3. MarksAreAll'
  BY DEF MarksAreAll, Marked, Creating, Selecting, OthersOf, There, About
<1>4. AtMostOneSelected' /\ SentIsQuoted'
  BY DEF AtMostOneSelected, SentIsQuoted, There
<1>5. QED
  BY <1>1, <1>2, <1>3, <1>4

\* Setting the status of an inquiry.
LEMMA StatusStep ==
    ASSUME TypeOK, NEW i \in Inquiries, NEW to \in {"sent", "closed"}, SetStatus(i, to)
    PROVE  /\ inquiries' \in [Inquiries -> Inquiry]
           /\ \A j \in Inquiries : inquiries'[j].status = "sent" =>
                  inquiries[j].status = "sent" \/ (j = i /\ to = "sent")
BY DEF TypeOK, SetStatus, Inquiry

\* A transaction on a quote begins.
LEMMA BeginStep ==
    ASSUME QuotesInv, NEW r \in Requests, NEW q \in Quotes,
           CreateQuote(r, q) \/ SelectQuote(r, q)
    PROVE  QuotesInv'
<1> USE DEF QuotesInv
<1>1. PICK op \in {"create", "select"} :
          /\ Begin(r, op, q) /\ ~QuoteLocked(q) /\ UNCHANGED <<inquiries, quotes>>
          /\ op = "create" => quotes[q] = "absent"
          /\ op = "select" => There(q)
  BY DEF CreateQuote, SelectQuote
<1> DEFINE new == [op |-> op, quote |-> q, pc |-> "written", others |-> {}]
<1>2. tx'[r] = new /\ \A s \in Requests : s # r => tx'[s] = tx[s]
  BY <1>1 DEF Begin, TypeOK
<1>3. new \in QuoteTx
  BY DEF QuoteTx
<1>4. TypeOK'
  BY <1>1, <1>3 DEF Begin, TypeOK
<1>5. new.op = op /\ new.quote = q /\ new.pc = "written" /\ new.others = {}
  OBVIOUS
<1> HIDE DEF new
<1>6. InsertsAreFresh'
  <2> SUFFICES ASSUME NEW s \in Requests, Creating(s)'
               PROVE  /\ quotes[tx'[s].quote] = "absent"
                      /\ \A t \in Requests : Creating(t)' /\ tx'[t].quote = tx'[s].quote => t = s
    BY <1>1 DEF InsertsAreFresh, Creating
  <2>1. \A t \in Requests : t # r /\ Creating(t)' => tx[t].quote # q
    BY <1>1, <1>2 DEF QuoteLocked, OnQuote, Creating
  <2>2. QED
    BY <1>1, <1>2, <1>5, <2>1 DEF InsertsAreFresh, Creating
<1>7. MarksOwnInquiry'
  BY <1>1, <1>2, <1>5 DEF MarksOwnInquiry, Selecting, There, About
<1>8. MarksAreAll'
  <2> SUFFICES ASSUME NEW s \in Requests, Marked(s)'
               PROVE  /\ OthersOf(tx[s].quote) \subseteq tx[s].others
                      /\ \A t \in Requests : Creating(t)' => InquiryOf[tx'[t].quote] # About(s)
                      /\ s # r
    BY <1>1, <1>2 DEF MarksAreAll, Marked, Creating, Selecting, OthersOf, There, About
  <2>1. s # r /\ Marked(s)
    BY <1>2, <1>5 DEF Marked, Selecting
  <2>2. About(s) # InquiryOf[q]
    BY <1>1, <2>1 DEF QuoteLocked, HoldsAll, OnQuote, Marked, Selecting
  <2>3. QED
    BY <1>2, <1>5, <2>1, <2>2 DEF MarksAreAll, Creating, About
<1>9. AtMostOneSelected' /\ SentIsQuoted'
  BY <1>1 DEF AtMostOneSelected, SentIsQuoted, There
<1>10. QED
  BY <1>4, <1>6, <1>7, <1>8, <1>9

\* A transaction goes on: it marks one more quote, has marked them all, or
\* updates the inquiry.
LEMMA OnwardStep ==
    ASSUME QuotesInv, NEW r \in Requests,
           \/ CreateQuoteUpdate(r) \/ SelectQuoteMark(r) \/ SelectQuoteClose(r)
           \/ \E p \in Quotes : SelectQuoteScan(r, p)
    PROVE  QuotesInv'
<1> USE DEF QuotesInv
<1>1. UNCHANGED <<inquiries, quotes>> /\ OnQuote(r)
  BY DEF CreateQuoteUpdate, SelectQuoteMark, SelectQuoteClose, SelectQuoteScan, OnQuote
<1>2. tx[r] \in QuoteTx /\ tx[r].quote \in Quotes
  BY <1>1, QuoteTxFields
<1>3. PICK pc \in {"written", "marked", "closing"}, more \in SUBSET Quotes :
          /\ tx' = [tx EXCEPT ![r].pc = pc, ![r].others = more]
          /\ Selecting(r) => tx[r].others \subseteq more
          /\ \A p \in more \ tx[r].others : p \in OthersOf(tx[r].quote)
          /\ Selecting(r) /\ pc # "written" /\ ~Marked(r) =>
                 OthersOf(tx[r].quote) \subseteq more /\ ~Inserting(About(r))
  <2>1. tx[r] = [tx[r] EXCEPT !.others = tx[r].others, !.pc = tx[r].pc]
    BY <1>2 DEF QuoteTx
  <2>2. CASE CreateQuoteUpdate(r)
    <3>1. tx' = [tx EXCEPT ![r].pc = "closing", ![r].others = tx[r].others]
      BY <1>2, <2>2 DEF CreateQuoteUpdate, QuoteTx, TypeOK
    <3>2. tx[r].others \in SUBSET Quotes /\ ~Selecting(r)
      BY <1>2, <2>2 DEF CreateQuoteUpdate, Selecting, QuoteTx
    <3>3. QED
      BY <3>1, <3>2
  <2>3. CASE SelectQuoteMark(r)
    <3>1. tx' = [tx EXCEPT ![r].pc = "marked", ![r].others = tx[r].others]
      BY <1>2, <2>3 DEF SelectQuoteMark, QuoteTx, TypeOK
    <3>2. tx[r].others \in SUBSET Quotes
      BY <1>2 DEF QuoteTx
    <3>3. QED
      BY <2>3, <3>1, <3>2 DEF SelectQuoteMark
  <2>4. CASE SelectQuoteClose(r)
    <3>1. tx' = [tx EXCEPT ![r].pc = "closing", ![r].others = tx[r].others]
      BY <1>2, <2>4 DEF SelectQuoteClose, QuoteTx, TypeOK
    <3>2. tx[r].others \in SUBSET Quotes /\ Marked(r)
      BY <1>2, <2>4 DEF SelectQuoteClose, Marked, Selecting, QuoteTx
    <3>3. QED
      BY <3>1, <3>2
  <2>5. ASSUME NEW p \in Quotes, SelectQuoteScan(r, p)
        PROVE  \E pc \in {"written", "marked", "closing"}, more \in SUBSET Quotes :
                  /\ tx' = [tx EXCEPT ![r].pc = pc, ![r].others = more]
                  /\ Selecting(r) => tx[r].others \subseteq more
                  /\ \A x \in more \ tx[r].others : x \in OthersOf(tx[r].quote)
                  /\ Selecting(r) /\ pc # "written" /\ ~Marked(r) =>
                         OthersOf(tx[r].quote) \subseteq more /\ ~Inserting(About(r))
    <3>1. tx' = [tx EXCEPT ![r].pc = "written", ![r].others = tx[r].others \cup {p}]
      BY <1>2, <2>5 DEF SelectQuoteScan, QuoteTx, TypeOK
    <3>2. tx[r].others \cup {p} \in SUBSET Quotes /\ p \in OthersOf(tx[r].quote)
      BY <1>2, <2>5 DEF SelectQuoteScan, QuoteTx
    <3>3. QED
      BY <3>1, <3>2
  <2>6. QED
    BY <2>2, <2>3, <2>4, <2>5
<1>4. tx'[r] = [tx[r] EXCEPT !.pc = pc, !.others = more]
      /\ \A s \in Requests : s # r => tx'[s] = tx[s]
  BY <1>3 DEF TypeOK
<1>5. /\ tx'[r] \in QuoteTx /\ tx'[r].op = tx[r].op /\ tx'[r].quote = tx[r].quote
      /\ tx'[r].pc = pc /\ tx'[r].others = more
  BY <1>2, <1>4 DEF QuoteTx
<1>6. TypeOK'
  BY <1>1, <1>3, <1>4, <1>5 DEF TypeOK
<1>. \A t \in Requests : tx'[t].op = tx[t].op /\ tx'[t].quote = tx[t].quote
  BY <1>4, <1>5
<1>7. InsertsAreFresh'
  BY <1>1 DEF InsertsAreFresh, Creating
<1>8. MarksOwnInquiry'
  <2> SUFFICES ASSUME NEW s \in Requests, Selecting(s)
               PROVE  /\ There(tx[s].quote)
                      /\ \A p \in tx'[s].others : There(p) /\ InquiryOf[p] = About(s)
    BY <1>1 DEF MarksOwnInquiry, Selecting, There, About
  <2>1. \A p \in OthersOf(tx[r].quote) : There(p) /\ InquiryOf[p] = About(r)
    BY DEF OthersOf, About
  <2>2. CASE s = r
    BY <1>3, <1>5, <2>1, <2>2 DEF MarksOwnInquiry
  <2>3. CASE s # r
    BY <1>4, <2>3 DEF MarksOwnInquiry
  <2>4. QED
    BY <2>2, <2>3
<1>9. MarksAreAll'
  <2> SUFFICES ASSUME NEW s \in Requests, Marked(s)'
               PROVE  /\ OthersOf(tx[s].quote) \subseteq tx'[s].others
                      /\ \A t \in Requests : Creating(t) => About(t) # About(s)
    BY <1>1 DEF MarksAreAll, Marked, Creating, Selecting, OthersOf, There, About
  <2>1. CASE s # r
    BY <1>4, <2>1 DEF MarksAreAll, Marked, Selecting
  <2>2. CASE s = r /\ Marked(r)
    BY <1>3, <1>5, <2>2 DEF MarksAreAll, Marked
  <2>3. CASE s = r /\ ~Marked(r)
    <3>1. Selecting(r) /\ pc # "written"
      BY <1>4, <1>5, <2>3 DEF Marked, Selecting
    <3>2. OthersOf(tx[r].quote) \subseteq more /\ ~Inserting(About(r))
      BY <1>3, <2>3, <3>1
    <3>3. QED
      BY <1>5, <2>3, <3>2 DEF Inserting, Creating
  <2>4. QED
    BY <2>1, <2>2, <2>3
<1>10. AtMostOneSelected' /\ SentIsQuoted'
  BY <1>1 DEF AtMostOneSelected, SentIsQuoted, There
<1>11. QED
  BY <1>6, <1>7, <1>8, <1>9, <1>10

\* A transaction on a quote ends: it commits, or an insert is rolled back.
LEMMA EndStep ==
    ASSUME QuotesInv, NEW r \in Requests,
           CreateQuoteCommit(r) \/ SelectQuoteCommit(r) \/ (Creating(r) /\ Rollback(r))
    PROVE  QuotesInv'
<1> USE DEF QuotesInv
<1> DEFINE q == tx[r].quote
<1>1. OnQuote(r) /\ tx[r] \in QuoteTx /\ q \in Quotes /\ About(r) \in Inquiries /\ tx[r] # Idle
  BY QuoteTxFields DEF CreateQuoteCommit, SelectQuoteCommit, Creating, OnQuote
<1>2. tx'[r] = Idle /\ \A s \in Requests : s # r => tx'[s] = tx[s]
  BY DEF CreateQuoteCommit, SelectQuoteCommit, Rollback, TypeOK
<1>3. /\ Creating(r) => quotes[q] = "absent" /\ \A p \in Quotes \ {q} : quotes'[p] = quotes[p]
      /\ Selecting(r) => quotes' = Chosen(r) /\ Marked(r)
      /\ Creating(r) \/ Selecting(r)
  BY <1>1 DEF CreateQuoteCommit, SelectQuoteCommit, Rollback, Creating, Selecting, Marked,
              InsertsAreFresh, TypeOK
<1>4. quotes' \in [Quotes -> Selected]
  BY <1>1 DEF CreateQuoteCommit, SelectQuoteCommit, Rollback, Chosen, TypeOK, Selected
<1>5. TypeOK'
  <2>1. inquiries' \in [Inquiries -> Inquiry]
    BY <1>1, StatusStep DEF CreateQuoteCommit, SelectQuoteCommit, Rollback, TypeOK
  <2>2. QED
    BY <1>4, <2>1 DEF CreateQuoteCommit, SelectQuoteCommit, Rollback, TypeOK
<1>6. \A p \in Quotes : There(p) => There(p)'
  <2>1. CASE Creating(r)
    BY <1>3, <2>1 DEF There
  <2>2. CASE Selecting(r)
    BY <1>3, <2>2 DEF There, Chosen
  <2>3. QED
    BY <1>3, <2>1, <2>2
<1>7. \A s \in Requests : Creating(s)' => s # r /\ Creating(s) /\ tx'[s] = tx[s]
                                        /\ quotes'[tx[s].quote] = "absent"
  <2> SUFFICES ASSUME NEW s \in Requests, Creating(s)'
               PROVE  s # r /\ Creating(s) /\ tx'[s] = tx[s] /\ quotes'[tx[s].quote] = "absent"
    OBVIOUS
  <2>1. s # r /\ Creating(s) /\ tx'[s] = tx[s]
    BY <1>2 DEF Creating, Idle
  <2>2. quotes[tx[s].quote] = "absent" /\ tx[s].quote \in Quotes
    BY <2>1, QuoteTxFields DEF InsertsAreFresh, Creating, OnQuote
  <2>3. CASE Creating(r)
    BY <1>3, <2>1, <2>2, <2>3 DEF InsertsAreFresh
  <2>4. CASE Selecting(r)
    <3>1. tx[s].quote # q /\ tx[s].quote \notin tx[r].others
      BY <2>2, <2>4 DEF MarksOwnInquiry, There
    <3>2. QED
      BY <1>3, <2>1, <2>2, <2>4, <3>1 DEF Chosen
  <2>5. QED
    BY <1>3, <2>1, <2>3, <2>4
<1>8. InsertsAreFresh'
  BY <1>7 DEF InsertsAreFresh
<1>9. \A s \in Requests : Selecting(s)' => s # r /\ Selecting(s) /\ tx'[s] = tx[s]
  BY <1>2 DEF Selecting, Idle
<1>10. MarksOwnInquiry'
  <2> SUFFICES ASSUME NEW s \in Requests, Selecting(s)'
               PROVE  /\ There(tx[s].quote)'
                      /\ \A p \in tx[s].others : There(p)' /\ InquiryOf[p] = About(s)
                      /\ tx'[s] = tx[s]
    BY DEF MarksOwnInquiry, About, There
  <2>1. Selecting(s) /\ tx'[s] = tx[s] /\ tx[s] \in QuoteTx
    BY <1>9, QuoteTxFields DEF Selecting, OnQuote
  <2>2. There(tx[s].quote) /\ \A p \in tx[s].others : There(p) /\ InquiryOf[p] = About(s)
    BY <2>1 DEF MarksOwnInquiry
  <2>3. tx[s].quote \in Quotes /\ tx[s].others \subseteq Quotes
    BY <2>1 DEF QuoteTx
  <2>4. \A p \in Quotes : quotes[p] \in {"open", "won", "lost"} => quotes'[p] \in {"open", "won", "lost"}
    BY <1>6 DEF There
  <2>5. QED
    BY <2>1, <2>2, <2>3, <2>4 DEF There
<1>11. MarksAreAll'
  <2> SUFFICES ASSUME NEW s \in Requests, Marked(s)'
               PROVE  /\ OthersOf(tx[s].quote)' \subseteq tx[s].others
                      /\ \A t \in Requests : Creating(t)' => About(t)' # About(s)
                      /\ tx'[s] = tx[s]
    BY DEF MarksAreAll, OthersOf, There, About
  <2>1. s # r /\ Marked(s) /\ tx'[s] = tx[s]
    BY <1>2, <1>9 DEF Marked, Selecting, Idle
  <2>2. \A t \in Requests : Creating(t)' => About(t)' # About(s)
    BY <1>7, <2>1 DEF MarksAreAll, About
  <2>3. \A p \in Quotes : InquiryOf[p] = About(s) /\ There(p)' => There(p)
    <3>1. CASE Creating(r)
      <4>1. InquiryOf[q] # About(s)
        BY <2>1, <3>1 DEF MarksAreAll, About
      <4>2. QED
        BY <1>3, <3>1, <4>1 DEF There
    <3>2. CASE Selecting(r)
      BY <1>3, <3>2 DEF There, Chosen, MarksOwnInquiry
    <3>3. QED
      BY <1>3, <3>1, <3>2
  <2>4. QED
    BY <2>1, <2>2, <2>3 DEF MarksAreAll, OthersOf, About, There
<1>12. AtMostOneSelected'
  <2>1. CASE Creating(r)
    <3>1. quotes'[q] # "won"
      BY <1>1, <2>1 DEF CreateQuoteCommit, SelectQuoteCommit, Rollback, Creating, TypeOK
    <3>2. QED
      BY <1>3, <2>1, <3>1 DEF AtMostOneSelected
  <2>2. CASE Selecting(r)
    <3> SUFFICES ASSUME NEW a \in Quotes, NEW b \in Quotes, quotes'[a] = "won",
                        quotes'[b] = "won", InquiryOf[a] = InquiryOf[b]
                 PROVE  a = b
      BY DEF AtMostOneSelected
    <3>1. \A p \in Quotes \ {q} : quotes'[p] = "won" => quotes[p] = "won" /\ p \notin tx[r].others
      BY <1>3, <2>2 DEF Chosen
    <3>2. \A p \in Quotes \ {q} : InquiryOf[p] = InquiryOf[q] => quotes'[p] # "won"
      BY <1>3, <2>2, <3>1 DEF MarksAreAll, OthersOf, There
    <3>3. QED
      BY <3>1, <3>2 DEF AtMostOneSelected
  <2>3. QED
    BY <1>3, <2>1, <2>2
<1>13. SentIsQuoted'
  <2> SUFFICES ASSUME NEW i \in Inquiries, inquiries'[i].status = "sent"
               PROVE  \E p \in Quotes : InquiryOf[p] = i /\ There(p)'
    BY DEF SentIsQuoted, There
  <2>1. CASE inquiries[i].status = "sent"
    BY <1>6, <2>1 DEF SentIsQuoted
  <2>2. CASE inquiries[i].status # "sent"
    <3>1. CreateQuoteCommit(r) /\ i = About(r)
      BY <1>1, <2>2, StatusStep DEF CreateQuoteCommit, SelectQuoteCommit, Rollback
    <3>2. PICK p \in Quotes : p = tx[r].quote
      BY <1>1
    <3>3. quotes'[p] = "open" /\ InquiryOf[p] = i
      BY <3>1, <3>2 DEF CreateQuoteCommit, About, TypeOK
    <3>4. QED
      BY <3>3 DEF There
  <2>3. QED
    BY <2>1, <2>2
<1>14. QED
  BY <1>5, <1>8, <1>10, <1>11, <1>12, <1>13

-----------------------------------------------------------------------------
(***************************************************************************)
(* The invariant.                                                          *)
(***************************************************************************)

LEMMA QuotesInvInit == Init => QuotesInv
<1> SUFFICES ASSUME Init PROVE QuotesInv
  OBVIOUS
<1>1. \A r \in Requests : ~Creating(r) /\ ~Selecting(r)
  BY DEF Init, Creating, Selecting, Idle
<1>2. TypeOK
  BY DEF Init, TypeOK, Inquiry, Selected
<1>3. QED
  BY <1>1, <1>2 DEF Init, QuotesInv, InsertsAreFresh, MarksOwnInquiry, MarksAreAll, Marked,
                    AtMostOneSelected, SentIsQuoted

LEMMA QuotesInvStep == QuotesInv /\ [Next]_vars => QuotesInv'
<1> SUFFICES ASSUME QuotesInv, [Next]_vars PROVE QuotesInv'
  OBVIOUS
<1> USE DEF QuotesInv
<1>1. ASSUME NEW i \in Inquiries, CreateInquiry(i) PROVE QuotesInv'
  <2>1. /\ inquiries' \in [Inquiries -> Inquiry]
        /\ \A j \in Inquiries : inquiries'[j].status = "sent" => inquiries[j].status = "sent"
    BY <1>1 DEF CreateInquiry, TypeOK, Inquiry
  <2>2. QED
    BY <1>1, <2>1, NoRequestStep DEF CreateInquiry
<1>2. ASSUME NEW i \in Inquiries, CloseInquiry(i) PROVE QuotesInv'
  <2>1. /\ inquiries' \in [Inquiries -> Inquiry]
        /\ \A j \in Inquiries : inquiries'[j].status = "sent" => inquiries[j].status = "sent"
    BY <1>2, StatusStep DEF CloseInquiry
  <2>2. QED
    BY <1>2, <2>1, NoRequestStep DEF CloseInquiry
<1>3. ASSUME NEW r \in Requests, NEW i \in Inquiries, DeleteRead(r, i) PROVE QuotesInv'
  <2>1. [op |-> "delete", inquiry |-> i] \in DeleteTx
    BY DEF DeleteTx
  <2>2. QED
    BY <1>3, <2>1, QuietStep DEF DeleteRead, TypeOK
<1>4. ASSUME NEW r \in Requests, DeleteWrite(r) PROVE QuotesInv'
  <2>1. tx[r].inquiry \in Inquiries
    BY <1>4 DEF DeleteWrite, TypeOK, Idle, QuoteTx, DeleteTx
  <2>2. /\ inquiries' \in [Inquiries -> Inquiry]
        /\ \A j \in Inquiries : inquiries'[j].status = "sent" => inquiries[j].status = "sent"
    BY <1>4, <2>1 DEF DeleteWrite, TypeOK, Inquiry
  <2>3. QED
    BY <1>4, <2>2, QuietStep DEF DeleteWrite
<1>5. ASSUME NEW r \in Requests, Rollback(r) PROVE QuotesInv'
  <2>1. CASE Creating(r)
    BY <1>5, <2>1, EndStep
  <2>2. CASE ~Creating(r)
    BY <1>5, <2>2, QuietStep DEF Rollback, Creating, TypeOK
  <2>3. QED
    BY <2>1, <2>2
<1>6. ASSUME NEW r \in Requests, Proceed(r) PROVE QuotesInv'
  BY <1>4, <1>6, OnwardStep, EndStep DEF Proceed
<1>7. ASSUME NEW r \in Requests, NEW q \in Quotes, CreateQuote(r, q) \/ SelectQuote(r, q)
      PROVE  QuotesInv'
  BY <1>7, BeginStep
<1>8. CASE UNCHANGED vars
  BY <1>8, NoRequestStep DEF vars, TypeOK
<1>9. QED
  BY <1>1, <1>2, <1>3, <1>5, <1>6, <1>7, <1>8 DEF Next

LEMMA QuotesInvHolds == Spec => []QuotesInv
BY QuotesInvInit, QuotesInvStep, PTL DEF Spec

-----------------------------------------------------------------------------
(***************************************************************************)
(* The properties.                                                         *)
(***************************************************************************)

\* The tables and the open transactions stay within their types.
THEOREM QuotesTypes == Spec => []TypeOK
<1>1. QuotesInv => TypeOK
  BY DEF QuotesInv
<1>2. QED
  BY <1>1, QuotesInvHolds, PTL

\* Whatever selections race, an inquiry never has two selected quotes.
THEOREM QuotesAtMostOneSelected == Spec => []AtMostOneSelected
<1>1. QuotesInv => AtMostOneSelected
  BY DEF QuotesInv
<1>2. QED
  BY <1>1, QuotesInvHolds, PTL

\* An inquiry that is marked sent has a quote.
THEOREM QuotesSentIsQuoted == Spec => []SentIsQuoted
<1>1. QuotesInv => SentIsQuoted
  BY DEF QuotesInv
<1>2. QED
  BY <1>1, QuotesInvHolds, PTL

\* Only the commit of a selection selects a quote or deselects one.
LEMMA OnlySelectionsDecide ==
    ASSUME QuotesInv, [Next]_vars, NEW q \in Quotes,
           (quotes[q] = "won") # (quotes'[q] = "won")
    PROVE  \E r \in Requests : SelectQuoteCommit(r)
<1> USE DEF QuotesInv
<1>1. quotes' # quotes
  OBVIOUS
<1>2. PICK r \in Requests : CreateQuoteCommit(r) \/ SelectQuoteCommit(r) \/ Rollback(r)
  BY <1>1 DEF Next, vars, CreateInquiry, CloseInquiry, DeleteRead, DeleteWrite, CreateQuote,
              SelectQuote, Proceed, CreateQuoteUpdate, SelectQuoteScan, SelectQuoteMark,
              SelectQuoteClose
<1>3. CASE SelectQuoteCommit(r)
  BY <1>3
<1>4. CASE CreateQuoteCommit(r) \/ Rollback(r)
  <2>1. Creating(r)
    BY <1>1, <1>4 DEF CreateQuoteCommit, Rollback, Creating
  <2>2. quotes[tx[r].quote] = "absent"
    BY <2>1 DEF InsertsAreFresh
  <2>3. QED
    BY <1>4, <2>1, <2>2 DEF CreateQuoteCommit, Rollback, TypeOK
<1>5. QED
  BY <1>2, <1>3, <1>4

\* An inquiry with a selected quote keeps having one.
THEOREM QuotesNeverUnselected == Spec => NeverUnselected
<1>1. ASSUME QuotesInv, [Next]_vars, NEW q \in Quotes, quotes[q] = "won"
      PROVE  \E p \in Quotes : InquiryOf[p] = InquiryOf[q] /\ quotes'[p] = "won"
  <2>1. CASE quotes'[q] = "won"
    BY <2>1
  <2>2. CASE quotes'[q] # "won"
    <3>1. PICK r \in Requests : SelectQuoteCommit(r)
      BY <1>1, <2>2, OnlySelectionsDecide
    <3>2. Selecting(r) /\ quotes' = Chosen(r)
      BY <3>1 DEF SelectQuoteCommit, Selecting
    <3>3. tx[r].quote \in Quotes
      BY <1>1, <3>2, QuoteTxFields DEF QuotesInv, Selecting, OnQuote
    <3>4. q \in tx[r].others /\ quotes'[tx[r].quote] = "won"
      BY <1>1, <2>2, <3>2, <3>3 DEF Chosen
    <3>5. InquiryOf[tx[r].quote] = InquiryOf[q]
      BY <1>1, <3>2, <3>4 DEF QuotesInv, MarksOwnInquiry, About
    <3>6. QED
      BY <3>3, <3>4, <3>5
  <2>3. QED
    BY <2>1, <2>2
<1>2. QuotesInv /\ [Next]_vars =>
         [\A q \in Quotes : quotes[q] = "won" =>
             \E p \in Quotes : InquiryOf[p] = InquiryOf[q] /\ quotes'[p] = "won"]_vars
  BY <1>1
<1>3. QED
  BY <1>2, QuotesInvHolds, PTL DEF Spec, NeverUnselected

-----------------------------------------------------------------------------
(***************************************************************************)
(* Each submission and each selection takes effect at its commit.          *)
(***************************************************************************)

\* The quotes that everybody sees.
Seen == [q \in Quotes |-> IF There(q) THEN quotes[q] ELSE "none"]

\* What is to be deleted exists: the number of an inquiry is not given back.
DeletesKnown ==
    \A r \in Requests : tx[r].op = "delete" =>
        tx[r].inquiry \in Inquiries /\ inquiries[tx[r].inquiry].status # "none"

LEMMA DeletesKnownStep ==
    ASSUME TypeOK, DeletesKnown, [Next]_vars
    PROVE  DeletesKnown'
<1>1. \A i \in Inquiries : inquiries[i].status # "none" => inquiries'[i].status # "none"
  <2>1. ASSUME NEW i \in Inquiries, CreateInquiry(i) \/ CloseInquiry(i)
        PROVE  \A k \in Inquiries : inquiries[k].status # "none" => inquiries'[k].status # "none"
    BY <2>1 DEF CreateInquiry, CloseInquiry, SetStatus, TypeOK, Inquiry
  <2>2. ASSUME NEW r \in Requests, DeleteWrite(r)
        PROVE  \A k \in Inquiries : inquiries[k].status # "none" => inquiries'[k].status # "none"
    BY <2>2 DEF DeleteWrite, TypeOK, Inquiry
  <2>3. ASSUME NEW r \in Requests, CreateQuoteCommit(r) \/ SelectQuoteCommit(r)
        PROVE  \A k \in Inquiries : inquiries[k].status # "none" => inquiries'[k].status # "none"
    BY <2>3 DEF CreateQuoteCommit, SelectQuoteCommit, SetStatus, TypeOK, Inquiry
  <2>4. CASE UNCHANGED inquiries
    BY <2>4
  <2>5. QED
    BY <2>1, <2>2, <2>3, <2>4 DEF Next, vars, Proceed, DeleteRead, CreateQuote, SelectQuote,
       CreateQuoteUpdate, SelectQuoteScan, SelectQuoteMark, SelectQuoteClose, Rollback
<1>2. ASSUME NEW r \in Requests, tx'[r].op = "delete"
      PROVE  \/ tx'[r] = tx[r]
             \/ \E i \in Inquiries : inquiries[i].status # "none" /\ tx'[r].inquiry = i
  <2>1. ASSUME NEW s \in Requests, NEW i \in Inquiries, DeleteRead(s, i)
        PROVE  \/ tx'[r] = tx[r]
               \/ inquiries[i].status # "none" /\ tx'[r].inquiry = i
    BY <2>1 DEF DeleteRead, Live, TypeOK
  <2>2. ASSUME NEW s \in Requests, NEW q \in Quotes, CreateQuote(s, q) \/ SelectQuote(s, q)
        PROVE  tx'[r] = tx[r]
    BY <1>2, <2>2 DEF CreateQuote, SelectQuote, Begin, TypeOK
  <2>3. ASSUME NEW s \in Requests, Proceed(s) \/ Rollback(s)
        PROVE  tx'[r] = tx[r]
    <3>1. CASE tx'[s].op # "delete" /\ \A q \in Requests : q # s => tx'[q] = tx[q]
      BY <1>2, <3>1
    <3>2. CASE DeleteWrite(s) \/ CreateQuoteCommit(s) \/ SelectQuoteCommit(s) \/ Rollback(s)
      <4>1. tx' = [tx EXCEPT ![s] = Idle]
        BY <3>2 DEF DeleteWrite, CreateQuoteCommit, SelectQuoteCommit, Rollback
      <4>2. QED
        BY <3>1, <4>1 DEF TypeOK, Idle
    <3>3. CASE CreateQuoteUpdate(s) \/ SelectQuoteMark(s) \/ SelectQuoteClose(s)
      <4>1. /\ tx[s].op \in {"create", "select"}
            /\ \E pc \in {"marked", "closing"} : tx' = [tx EXCEPT ![s].pc = pc]
        BY <3>3 DEF CreateQuoteUpdate, SelectQuoteMark, SelectQuoteClose
      <4>2. tx[s] \in QuoteTx
        BY <4>1, QuoteTxFields DEF OnQuote
      <4>3. QED
        BY <3>1, <4>1, <4>2 DEF TypeOK, QuoteTx
    <3>4. ASSUME NEW p \in Quotes, SelectQuoteScan(s, p) PROVE tx'[r] = tx[r]
      <4>1. tx[s].op = "select" /\ tx' = [tx EXCEPT ![s].others = @ \cup {p}]
        BY <3>4 DEF SelectQuoteScan
      <4>2. tx[s] \in QuoteTx
        BY <4>1, QuoteTxFields DEF OnQuote
      <4>3. QED
        BY <3>1, <4>1, <4>2 DEF TypeOK, QuoteTx
    <3>5. QED
      BY <2>3, <3>2, <3>3, <3>4 DEF Proceed
  <2>4. CASE UNCHANGED tx
    BY <2>4
  <2>5. QED
    BY <2>1, <2>2, <2>3, <2>4 DEF Next, vars, CreateInquiry, CloseInquiry
<1>3. ASSUME NEW r \in Requests, tx'[r].op = "delete"
      PROVE  tx'[r].inquiry \in Inquiries /\ inquiries'[tx'[r].inquiry].status # "none"
  BY <1>1, <1>2, <1>3 DEF DeletesKnown
<1>4. QED
  BY <1>3 DEF DeletesKnown

\* A status that is set is set there too.
LEMMA SameStatus ==
    ASSUME NEW i \in Inquiries, NEW status, SetStatus(i, status)
    PROVE  Choice!Become(i, status)
BY DEF SetStatus, Live, Choice!Become, Choice!Exists

\* A quote that is committed becomes visible, and one that is rolled back does not.
LEMMA SubmitsAtOnce ==
    ASSUME QuotesInv, NEW r \in Requests, CreateQuoteCommit(r), NEW q, q = tx[r].quote
    PROVE  Choice!Submit(q)
<1>1. q \in Quotes /\ InquiryOf[q] \in Inquiries /\ quotes[q] = "absent"
  BY QuoteTxFields DEF QuotesInv, InsertsAreFresh, Creating, CreateQuoteCommit, OnQuote, About
<1>2. quotes' = [quotes EXCEPT ![q] = "open"] /\ Choice!Become(InquiryOf[q], "sent")
  BY <1>1, SameStatus DEF CreateQuoteCommit, About
<1>3. Seen[q] = "none"
  BY <1>1 DEF Seen, There
<1>4. Seen' = [Seen EXCEPT ![q] = "open"]
  BY <1>1, <1>2 DEF Seen, There, QuotesInv, TypeOK
<1>5. QED
  BY <1>2, <1>3, <1>4 DEF Choice!Submit, Seen

\* The commit of a selection decides the quotes that are visible then.
LEMMA SelectionAtOnce ==
    ASSUME QuotesInv, NEW r \in Requests, SelectQuoteCommit(r), NEW q, q = tx[r].quote
    PROVE  Choice!Select(q)
<1>1. /\ Marked(r) /\ Selecting(r) /\ q \in Quotes /\ InquiryOf[q] \in Inquiries
      /\ About(r) = InquiryOf[q]
  BY QuoteTxFields DEF QuotesInv, Marked, Selecting, SelectQuoteCommit, OnQuote, About
<1>2. There(q) /\ \A p \in tx[r].others : There(p) /\ InquiryOf[p] = InquiryOf[q]
  BY <1>1 DEF QuotesInv, MarksOwnInquiry
<1>3. OthersOf(q) \subseteq tx[r].others
  BY <1>1 DEF QuotesInv, MarksAreAll
<1>4. \A p \in Quotes : p # q => (p \in tx[r].others <=> p \in OthersOf(q))
  BY <1>2, <1>3 DEF OthersOf
<1>5. Choice!Rivals(q) = OthersOf(q)
  BY DEF Choice!Rivals, OthersOf, There
<1>6. quotes' = Chosen(r) /\ Choice!Become(InquiryOf[q], "closed")
  BY <1>1, SameStatus DEF SelectQuoteCommit
<1>7. ASSUME NEW p \in Quotes
      PROVE  Seen'[p] = IF p = q THEN "won" ELSE IF p \in OthersOf(q) THEN "lost" ELSE Seen[p]
  <2>1. quotes'[p] = IF p = q THEN "won" ELSE IF p \in OthersOf(q) THEN "lost" ELSE quotes[p]
    BY <1>4, <1>6 DEF Chosen
  <2>2. QED
    BY <2>1 DEF Seen, There
<1>8. Seen' = [p \in Quotes |-> IF p = q THEN "won"
                                ELSE IF p \in Choice!Rivals(q) THEN "lost" ELSE Seen[p]]
  <2>1. Seen' = [p \in Quotes |-> Seen'[p]]
    BY DEF Seen
  <2>2. QED
    BY <1>5, <1>7, <2>1
<1>9. Seen[q] # "none"
  BY <1>1, <1>2 DEF Seen, There
<1>10. QED
  BY <1>6, <1>8, <1>9 DEF Choice!Select, Seen

\* The other steps of a request are not seen.
LEMMA RequestUnseen ==
    ASSUME QuotesInv, NEW r \in Requests,
           \/ \E i \in Inquiries : DeleteRead(r, i)
           \/ \E q \in Quotes : CreateQuote(r, q) \/ SelectQuote(r, q) \/ SelectQuoteScan(r, q)
           \/ CreateQuoteUpdate(r) \/ SelectQuoteMark(r) \/ SelectQuoteClose(r)
           \/ Rollback(r)
    PROVE  UNCHANGED <<inquiries, Seen>>
<1>1. CASE UNCHANGED <<inquiries, quotes>>
  BY <1>1 DEF Seen, There
<1>2. CASE Rollback(r) /\ tx[r].op = "create"
  <2>1. quotes[tx[r].quote] = "absent" /\ quotes' = [quotes EXCEPT ![tx[r].quote] = "void"]
    BY <1>2 DEF QuotesInv, InsertsAreFresh, Creating, Rollback
  <2>2. \A q \in Quotes : Seen'[q] = Seen[q]
    BY <2>1 DEF Seen, There, QuotesInv, TypeOK
  <2>3. QED
    BY <1>2, <2>2 DEF Seen, Rollback
<1>3. QED
  BY <1>1, <1>2 DEF DeleteRead, CreateQuote, SelectQuote, SelectQuoteScan, CreateQuoteUpdate,
     SelectQuoteMark, SelectQuoteClose, Rollback

\* The requests implement a server that submits and selects quotes at once.
THEOREM QuotesSelectAtOnce == Spec => SelectsAtOnce
<1>1. Init => Choice!Init /\ DeletesKnown
  BY DEF Init, Choice!Init, There, DeletesKnown, Idle
<1>2. ASSUME QuotesInv, DeletesKnown, [Next]_vars
      PROVE  [Choice!Next]_<<inquiries, Seen>>
  <2>1. ASSUME NEW i \in Inquiries, CreateInquiry(i) PROVE Choice!Create(i)
    BY <2>1 DEF CreateInquiry, Choice!Create, Choice!Exists, There
  <2>2. ASSUME NEW i \in Inquiries, CloseInquiry(i) PROVE Choice!Close(i)
    BY <2>2, SameStatus DEF CloseInquiry, Live, Choice!Close, Choice!Exists, There
  <2>3. ASSUME NEW r \in Requests, DeleteWrite(r)
        PROVE  \E i \in Inquiries : Choice!Delete(i)
    <3>1. PICK i \in Inquiries : i = tx[r].inquiry
      BY <1>2, <2>3 DEF DeletesKnown, DeleteWrite
    <3>2. Choice!Delete(i)
      BY <1>2, <2>3, <3>1 DEF DeletesKnown, DeleteWrite, Choice!Delete, Choice!Exists, There
    <3>3. QED
      BY <3>2
  <2>4. ASSUME NEW r \in Requests, CreateQuoteCommit(r) \/ SelectQuoteCommit(r)
        PROVE  \E q \in Quotes : Choice!Submit(q) \/ Choice!Select(q)
    <3>1. PICK q \in Quotes : q = tx[r].quote
      BY <1>2, <2>4, QuoteTxFields DEF QuotesInv, OnQuote, CreateQuoteCommit, SelectQuoteCommit
    <3>2. QED
      BY <1>2, <2>4, <3>1, SubmitsAtOnce, SelectionAtOnce
  <2>5. ASSUME NEW r \in Requests,
               \/ \E i \in Inquiries : DeleteRead(r, i)
               \/ \E q \in Quotes : CreateQuote(r, q) \/ SelectQuote(r, q) \/ SelectQuoteScan(r, q)
               \/ CreateQuoteUpdate(r) \/ SelectQuoteMark(r) \/ SelectQuoteClose(r)
               \/ Rollback(r)
        PROVE  UNCHANGED <<inquiries, Seen>>
    BY <1>2, <2>5, RequestUnseen
  <2>6. CASE UNCHANGED vars
    BY <2>6 DEF vars, Seen, There
  <2>7. ASSUME NEW i \in Inquiries, CreateInquiry(i) \/ CloseInquiry(i) PROVE Choice!Next
    BY <2>1, <2>2, <2>7 DEF Choice!Next
  <2>8. ASSUME NEW r \in Requests, DeleteWrite(r) PROVE Choice!Next
    BY <2>3, <2>8 DEF Choice!Next
  <2>9. ASSUME NEW r \in Requests, CreateQuoteCommit(r) \/ SelectQuoteCommit(r)
        PROVE  Choice!Next
    BY <2>4, <2>9 DEF Choice!Next
  <2>10. Choice!Next \/ UNCHANGED <<inquiries, Seen>>
    BY <1>2, <2>5, <2>6, <2>7, <2>8, <2>9 DEF Next, Proceed
  <2>11. QED
    BY <2>10
<1>3. QuotesInv /\ DeletesKnown /\ [Next]_vars => DeletesKnown'
  BY DeletesKnownStep DEF QuotesInv
<1>4. Spec => []DeletesKnown
  BY <1>1, <1>3, QuotesInvHolds, PTL DEF Spec
<1>5. QuotesInv /\ DeletesKnown /\ [Next]_vars =>
         [Choice!Next]_<<inquiries, [q \in Quotes |-> IF There(q) THEN quotes[q] ELSE "none"]>>
  BY <1>2 DEF Seen
<1>6. QED
  BY <1>1, <1>4, <1>5, QuotesInvHolds, PTL DEF Spec, SelectsAtOnce, Choice!Spec

=============================================================================
