\* Two overlapping payments, two invoices (also with the same number), every
\* kind of card and every fault.
SPECIFICATION Spec
CONSTANTS
    Request = {r1, r2}
    Doc = {d1, d2}
    InvoiceNumber = {n1, n2}
    Booking = {b1, b2}
    ReceiptNumber = {x1}
    Cards <- AllCards
    Faults <- AllFaults
    FailChance = 1
    None = None
SYMMETRY RequestSymmetry
INVARIANTS
    TypeOK
    ReceiptBacked
    ConfirmationHasReceipt
    ConfirmedBookingIsPaid
    PaidInvoiceIsNotChargedAgain
    OnlySuccessLeavesTrace
PROPERTY ImplementsLifecycle
CHECK_DEADLOCK FALSE
