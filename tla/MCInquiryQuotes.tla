--------------------------- MODULE MCInquiryQuotes ---------------------------
(* Model-checking instance of InquiryQuotes: every quote is for i1. *)
EXTENDS InquiryQuotes

CONSTANT i1

MCInquiryOf == [q \in Quotes |-> i1]

=============================================================================
