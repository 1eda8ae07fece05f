\* Messages about two bookings, one payment, one reissue; publishes fail or are
\* lost, the process is killed or told to stop, and starts again.
SPECIFICATION Spec
CONSTANTS
    m1 = m1
    m2 = m2
    m3 = m3
    b1 = b1
    b2 = b2
    Message = {m1, m3}
    Doc = {d1, d2}
    InvoiceNumber = {n1, n2}
    Booking = {b1, b2}
    KindOf <- MCKindOf
    BookingOf <- MCBookingOf
    UniqueKeys = TRUE
    Request = {r1}
    ReceiptNumber = {x1}
    Cards <- AnyCard
    FailChance = 0
    Query = {q1}
    Blank = Blank
    Faults <- SomeFaults
    None = None
SYMMETRY SimulatorSymmetry
INVARIANTS
    
    ConfirmedWasBilled
PROPERTIES
    ImplementsParts
    ImplementsBookings
CHECK_DEADLOCK FALSE
