\* Two overlapping calls, bookings with several invoices, numbers given twice.
SPECIFICATION Spec
CONSTANTS
    Query = {q1, q2}
    Doc = {d1, d2}
    InvoiceNumber = {n1, n2}
    Booking = {b1, b2}
    Blank = Blank
    Faults = {"find"}
    None = None
SYMMETRY DocSymmetry
INVARIANTS
    OfferWasOpen
    RefusalIsRight
CHECK_DEADLOCK FALSE
