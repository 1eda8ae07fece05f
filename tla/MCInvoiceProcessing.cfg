\* Two valid messages about one booking, one message of every other kind, three
\* invoices; the clock answers, everything else may fail, and the process may be stopped.
SPECIFICATION Spec
CONSTANTS
    m1 = m1
    m2 = m2
    m3 = m3
    m4 = m4
    m5 = m5
    b1 = b1
    b2 = b2
    Message = {m1, m2, m3, m4, m5}
    Doc = {d1, d2, d3}
    InvoiceNumber = {n1, n2}
    Booking = {b1, b2}
    KindOf <- MCKindOf
    BookingOf <- MCBookingOf
    UniqueKeys = FALSE
    Faults <- ClockWorks
    None = None
SYMMETRY DocSymmetry
INVARIANTS
    AckedIsDone
    RequestHasInvoice
    HeldUntilSettled
PROPERTIES
    
    SettlesOnlyRequested
CHECK_DEADLOCK FALSE
