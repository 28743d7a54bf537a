----------------------------- MODULE QuoteChoice -----------------------------
(***************************************************************************)
(* What the handlers promise of inquiries and their quotes: each of them   *)
(* works at once.  A quote is submitted and its inquiry sent, or neither;  *)
(* with a quote that is selected all others of the inquiry are lost and    *)
(* the inquiry is closed.                                                  *)
(***************************************************************************)
CONSTANTS Inquiries, Quotes, InquiryOf

VARIABLES
    inquiries,   \* inquiries[i]: the status of inquiry i and whether it is deleted
    quotes       \* quotes[q]: none, before it is submitted, or how it stands

Init ==
    /\ inquiries = [i \in Inquiries |-> [status |-> "none", deleted |-> FALSE]]
    /\ quotes = [q \in Quotes |-> "none"]

Exists(i) == inquiries[i].status # "none"

\* An inquiry that is deleted keeps the status it had.
Become(i, status) ==
    inquiries' = IF Exists(i) /\ ~inquiries[i].deleted
                 THEN [inquiries EXCEPT ![i].status = status] ELSE inquiries

Create(i) ==
    /\ ~Exists(i)
    /\ inquiries' = [inquiries EXCEPT ![i].status = "draft"]
    /\ UNCHANGED quotes

Close(i) == Exists(i) /\ Become(i, "closed") /\ UNCHANGED quotes

Delete(i) ==
    /\ Exists(i)
    /\ inquiries' = [inquiries EXCEPT ![i].deleted = TRUE]
    /\ UNCHANGED quotes

Submit(q) ==
    /\ quotes[q] = "none"
    /\ quotes' = [quotes EXCEPT ![q] = "open"]
    /\ Become(InquiryOf[q], "sent")

Rivals(q) == {p \in Quotes \ {q} : InquiryOf[p] = InquiryOf[q] /\ quotes[p] # "none"}

Select(q) ==
    /\ quotes[q] # "none"
    /\ quotes' = [p \in Quotes |-> IF p = q THEN "won"
                                   ELSE IF p \in Rivals(q) THEN "lost" ELSE quotes[p]]
    /\ Become(InquiryOf[q], "closed")

Next ==
    \/ \E i \in Inquiries : Create(i) \/ Close(i) \/ Delete(i)
    \/ \E q \in Quotes : Submit(q) \/ Select(q)

Spec == Init /\ [][Next]_<<inquiries, quotes>>

=============================================================================
