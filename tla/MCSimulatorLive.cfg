\* A message, its repetition and a corrupt one; nothing fails, and guests pay what
\* they are asked for.  The unique index allows one invoice of a booking.
SPECIFICATION FairSpec
CONSTANTS
    m1 = m1
    m2 = m2
    m3 = m3
    b1 = b1
    b2 = b2
    Message = {m1, m2, m3}
    Doc = {d1}
    InvoiceNumber = {n1}
    Booking = {b1, b2}
    KindOf <- CorruptThird
    BookingOf <- MCBookingOf
    UniqueKeys = TRUE
    Request = {r1, r2}
    ReceiptNumber = {x1}
    Cards <- AnyCard
    FailChance = 0
    Query = {}
    Blank = Blank
    Faults <- NoFaults
    None = None
PROPERTIES
    BookingIsConfirmed
    SucceededIsConfirmed
    EveryMessageSettles
CHECK_DEADLOCK FALSE
