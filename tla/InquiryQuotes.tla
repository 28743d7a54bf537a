---------------------------- MODULE InquiryQuotes ----------------------------
(***************************************************************************)
(* Inquiry sheets and the quotes suppliers give for them: the first half   *)
(* of handler/purchase.go.                                                 *)
(*                                                                         *)
(* Submitting and selecting a quote are database transactions.  As in      *)
(* Inventory, a write locks its row until the transaction ends, and what   *)
(* it wrote is visible to the others after the commit.  The UPDATE that    *)
(* marks the other quotes of an inquiry is a current read over the index   *)
(* on inquiry_id: it locks the quotes of the inquiry one after the other,  *)
(* waiting for those another transaction has written, and then the gap, so *)
(* that no quote can be inserted for this inquiry before it commits.  A    *)
(* cycle of waiting transactions is broken by InnoDB, which rolls one of   *)
(* them back.                                                              *)
(*                                                                         *)
(* UpdateInquiry writes only columns that are not modelled.                *)
(***************************************************************************)
EXTENDS Naturals

CONSTANTS
    Requests,    \* the requests the server may be executing at one time
    Inquiries,   \* inquiry sheets
    Quotes,      \* quotes that may be submitted
    InquiryOf    \* InquiryOf[q]: the inquiry quote q names; it need not exist

ASSUME QuotesAssumption == InquiryOf \in [Quotes -> Inquiries]

VARIABLES
    inquiries,   \* inquiries[i]: the status of inquiry i and whether it is soft-deleted
    quotes,      \* quotes[q]: absent, void, or the column selected: 0, 1 or 2
    tx           \* tx[r]: the transaction request r has open

vars == <<inquiries, quotes, tx>>

Inquiry == [status : {"none", "draft", "sent", "closed"}, deleted : BOOLEAN]

\* selected: 0 = open, 1 = won, 2 = lost.  void: the id was handed out to an
\* insert that was rolled back, and is not handed out again.
Selected == {"absent", "void", "open", "won", "lost"}

Idle == [op |-> "none"]

\* written: the transaction has written the quote it is about (inserted it, or
\* set it to won), and others are those it has marked since; marked: it has marked
\* them all; closing: it has updated the inquiry.
QuoteTx == [op : {"create", "select"}, quote : Quotes, pc : {"written", "marked", "closing"},
            others : SUBSET Quotes]

DeleteTx == [op : {"delete"}, inquiry : Inquiries]

\* Type invariant.
TypeOK ==
    /\ inquiries \in [Inquiries -> Inquiry]
    /\ quotes \in [Quotes -> Selected]
    /\ tx \in [Requests -> {Idle} \cup QuoteTx \cup DeleteTx]

Init ==
    /\ inquiries = [i \in Inquiries |-> [status |-> "none", deleted |-> FALSE]]
    /\ quotes = [q \in Quotes |-> "absent"]
    /\ tx = [r \in Requests |-> Idle]

-----------------------------------------------------------------------------
(***************************************************************************)
(* Locks.                                                                  *)
(***************************************************************************)

OnQuote(r) == tx[r].op \in {"create", "select"}

About(r) == InquiryOf[tx[r].quote]

\* Once it has marked the others, a selection holds all quotes of the inquiry,
\* those to come included.
HoldsAll(r, i) == tx[r].op = "select" /\ tx[r].pc \in {"marked", "closing"} /\ About(r) = i

QuoteLocked(q) ==
    \E s \in Requests :
        OnQuote(s) /\ (q \in {tx[s].quote} \cup tx[s].others \/ HoldsAll(s, InquiryOf[q]))

InquiryLocked(i) ==
    \E s \in Requests : OnQuote(s) /\ tx[s].pc = "closing" /\ About(s) = i

\* The quote is a committed row.
There(q) == quotes[q] \in {"open", "won", "lost"}

\* Someone is inserting a quote of inquiry i.
Inserting(i) == \E s \in Requests : tx[s].op = "create" /\ About(s) = i

Live(i) == inquiries[i].status # "none" /\ ~inquiries[i].deleted

\* The status update applies to the inquiry if it is still there.
SetStatus(i, status) ==
    inquiries' = IF Live(i) THEN [inquiries EXCEPT ![i].status = status] ELSE inquiries

-----------------------------------------------------------------------------
(***************************************************************************)
(* Inquiries.                                                              *)
(***************************************************************************)

\* POST /purchases/inquiries
CreateInquiry(i) ==
    /\ inquiries[i].status = "none"
    /\ inquiries' = [inquiries EXCEPT ![i].status = "draft"]
    /\ UNCHANGED <<quotes, tx>>

\* DELETE /purchases/inquiries/:id reads the inquiry, refuses it unless it is a
\* draft ...
DeleteRead(r, i) ==
    /\ tx[r] = Idle
    /\ Live(i) /\ inquiries[i].status = "draft"
    /\ tx' = [tx EXCEPT ![r] = [op |-> "delete", inquiry |-> i]]
    /\ UNCHANGED <<inquiries, quotes>>

\* ... and deletes it in a statement of its own, whatever it is by then.
DeleteWrite(r) ==
    /\ tx[r].op = "delete"
    /\ ~InquiryLocked(tx[r].inquiry)
    /\ inquiries' = [inquiries EXCEPT ![tx[r].inquiry].deleted = TRUE]
    /\ tx' = [tx EXCEPT ![r] = Idle]
    /\ UNCHANGED quotes

\* POST /purchases/inquiries/:id/close
CloseInquiry(i) ==
    /\ Live(i) /\ ~InquiryLocked(i)
    /\ SetStatus(i, "closed")
    /\ UNCHANGED <<quotes, tx>>

-----------------------------------------------------------------------------
(***************************************************************************)
(* Submitting a quote.                                                     *)
(***************************************************************************)

Begin(r, op, q) ==
    tx' = [tx EXCEPT ![r] = [op |-> op, quote |-> q, pc |-> "written", others |-> {}]]

\* Seeded fault: nothing keeps a quote out while others are being marked.
CreateQuoteUnblocked(r, q) ==
    /\ tx[r] = Idle
    /\ quotes[q] = "absent"
    /\ ~\E s \in Requests : OnQuote(s) /\ tx[s].quote = q
    /\ Begin(r, "create", q)
    /\ UNCHANGED <<inquiries, quotes>>

\* POST /purchases/quotes inserts the quote, whether or not its inquiry exists or
\* is open.
CreateQuote(r, q) ==
    /\ tx[r] = Idle
    /\ quotes[q] = "absent"
    /\ ~QuoteLocked(q)
    /\ Begin(r, "create", q)
    /\ UNCHANGED <<inquiries, quotes>>

\* Seeded fault: the status is written outside the transaction.
CreateQuoteUpdateOutside(r) ==
    /\ tx[r].op = "create" /\ tx[r].pc = "written"
    /\ ~InquiryLocked(About(r))
    /\ SetStatus(About(r), "sent")
    /\ tx' = [tx EXCEPT ![r].pc = "closing"]
    /\ UNCHANGED quotes

\* The inquiry becomes sent, closed or not.
CreateQuoteUpdate(r) ==
    /\ tx[r].op = "create" /\ tx[r].pc = "written"
    /\ ~InquiryLocked(About(r))
    /\ tx' = [tx EXCEPT ![r].pc = "closing"]
    /\ UNCHANGED <<inquiries, quotes>>

CreateQuoteCommit(r) ==
    /\ tx[r].op = "create" /\ tx[r].pc = "closing"
    /\ quotes' = [quotes EXCEPT ![tx[r].quote] = "open"]
    /\ SetStatus(About(r), "sent")
    /\ tx' = [tx EXCEPT ![r] = Idle]

-----------------------------------------------------------------------------
(***************************************************************************)
(* Selecting a quote.                                                      *)
(***************************************************************************)

\* PUT /purchases/quotes/:id/select sets its quote to selected.  The quote is
\* read before the transaction, but only for its inquiry, which never changes.
SelectQuote(r, q) ==
    /\ tx[r] = Idle
    /\ There(q)
    /\ ~QuoteLocked(q)
    /\ Begin(r, "select", q)
    /\ UNCHANGED <<inquiries, quotes>>

\* Seeded fault: only undecided quotes are marked.
OthersOfOpen(q) ==
    {p \in Quotes \ {q} : InquiryOf[p] = InquiryOf[q] /\ quotes[p] = "open"}

\* The quotes the second UPDATE finds: inquiry_id = ? AND id != ?
OthersOf(q) ==
    {p \in Quotes \ {q} : InquiryOf[p] = InquiryOf[q] /\ There(p)}

\* The UPDATE of the other quotes locks them one by one ...
SelectQuoteScan(r, p) ==
    /\ tx[r].op = "select" /\ tx[r].pc = "written"
    /\ p \in OthersOf(tx[r].quote) \ tx[r].others
    /\ ~QuoteLocked(p)
    /\ tx' = [tx EXCEPT ![r].others = @ \cup {p}]
    /\ UNCHANGED <<inquiries, quotes>>

\* ... until it has passed those being inserted too.
SelectQuoteMark(r) ==
    /\ tx[r].op = "select" /\ tx[r].pc = "written"
    /\ OthersOf(tx[r].quote) \subseteq tx[r].others
    /\ ~Inserting(About(r))
    /\ tx' = [tx EXCEPT ![r].pc = "marked"]
    /\ UNCHANGED <<inquiries, quotes>>

SelectQuoteClose(r) ==
    /\ tx[r].op = "select" /\ tx[r].pc = "marked"
    /\ ~InquiryLocked(About(r))
    /\ tx' = [tx EXCEPT ![r].pc = "closing"]
    /\ UNCHANGED <<inquiries, quotes>>

\* Seeded fault: selecting the selected quote again takes the selection back.
ChosenToggling(r) ==
    [p \in Quotes |-> IF p = tx[r].quote THEN (IF quotes[p] = "won" THEN "open" ELSE "won")
                      ELSE IF p \in tx[r].others THEN "lost"
                      ELSE quotes[p]]

\* What the two UPDATEs of the quotes have written.
Chosen(r) ==
    [p \in Quotes |-> IF p = tx[r].quote THEN "won"
                      ELSE IF p \in tx[r].others THEN "lost"
                      ELSE quotes[p]]

SelectQuoteCommit(r) ==
    /\ tx[r].op = "select" /\ tx[r].pc = "closing"
    /\ quotes' = Chosen(r)
    /\ SetStatus(About(r), "closed")
    /\ tx' = [tx EXCEPT ![r] = Idle]

-----------------------------------------------------------------------------

\* Seeded fault: an error answers without rolling back.
RollbackLeaking(r) == tx[r] # Idle /\ UNCHANGED vars

\* A failing statement (a deadlock victim among them), a lost connection or a
\* crash ends the transaction.
Rollback(r) ==
    /\ tx[r] # Idle
    /\ tx' = [tx EXCEPT ![r] = Idle]
    /\ quotes' = IF tx[r].op = "create" THEN [quotes EXCEPT ![tx[r].quote] = "void"] ELSE quotes
    /\ UNCHANGED inquiries

\* Two selections in one inquiry, each in need of the quote the other wrote.
Deadlocked(r) ==
    /\ tx[r].op = "select" /\ tx[r].pc = "written"
    /\ \E s \in Requests \ {r} :
          tx[s].op = "select" /\ tx[s].pc = "written" /\ About(s) = About(r)

Proceed(r) ==
    \/ DeleteWrite(r)
    \/ CreateQuoteUpdate(r) \/ CreateQuoteCommit(r)
    \/ \E p \in Quotes : SelectQuoteScan(r, p)
    \/ SelectQuoteMark(r) \/ SelectQuoteClose(r) \/ SelectQuoteCommit(r)

Next ==
    \/ \E i \in Inquiries : CreateInquiry(i) \/ CloseInquiry(i)
    \/ \E r \in Requests :
          \/ \E i \in Inquiries : DeleteRead(r, i)
          \/ \E q \in Quotes : CreateQuote(r, q) \/ SelectQuote(r, q)
          \/ Proceed(r)
          \/ Rollback(r)

Spec == Init /\ [][Next]_vars

\* A request that is not waiting goes on, a lock is granted to those waiting
\* for it in turn, and InnoDB detects deadlocks.
FairSpec ==
    /\ Spec
    /\ \A r \in Requests : SF_vars(Proceed(r)) /\ WF_vars(Deadlocked(r) /\ Rollback(r))

-----------------------------------------------------------------------------
(***************************************************************************)
(* Properties.                                                             *)
(***************************************************************************)

\* An inquiry has at most one selected quote, however many selections race.
AtMostOneSelected ==
    \A p, q \in Quotes :
        quotes[p] = "won" /\ quotes[q] = "won" /\ InquiryOf[p] = InquiryOf[q] => p = q

\* A selected quote only loses to another: an inquiry that has a selected quote
\* keeps having one.
NeverUnselected ==
    [][\A q \in Quotes : quotes[q] = "won" =>
           \E p \in Quotes : InquiryOf[p] = InquiryOf[q] /\ quotes'[p] = "won"]_vars

\* An inquiry is sent only when a quote for it has been committed with it.
SentIsQuoted ==
    \A i \in Inquiries : inquiries[i].status = "sent" =>
        \E q \in Quotes : InquiryOf[q] = i /\ There(q)

Choice == INSTANCE QuoteChoice WITH
    quotes <- [q \in Quotes |-> IF There(q) THEN quotes[q] ELSE "none"]

\* However requests overlap, each submission and each selection takes effect at once,
\* when it commits: a selection decides all quotes there are by then, not even one
\* that was being submitted while the others were marked escapes, and the inquiry
\* and its quotes change together.
SelectsAtOnce == Choice!Spec

\* Every request ends, although selections of one inquiry block each other.
RequestsEnd == \A r \in Requests : tx[r] # Idle ~> tx[r] = Idle

=============================================================================
