\* Two goroutines on one producer, one on another; two faults.
SPECIFICATION Spec
CONSTANTS
    g1 = g1
    g2 = g2
    consumer = consumer
    payment = payment
    guest = guest
    Caller = {g1, g2, consumer}
    Producer = {payment, guest}
    ProducerOf <- MCProducerOf
    rabbitDialAttempts = 2
    MaxFaults = 2
    None = None
SYMMETRY PaymentSymmetry
INVARIANTS
    OnlyOneConnection
    NothingOutlivesClose
    FailureHasCause
    SoleUserKeepsItsChannel
