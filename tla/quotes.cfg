CONSTANTS
    i1 = i1
    Requests = {r1, r2, r3}
    Inquiries = {i1}
    Quotes = {q1, q2, q3}
    InquiryOf <- MCInquiryOf
SPECIFICATION FairSpec
INVARIANTS
    AtMostOneSelected
    SentIsQuoted
PROPERTIES
    SelectsAtOnce
    NeverUnselected
    RequestsEnd
CHECK_DEADLOCK FALSE
