\* Two goroutines on one producer: everyone who waits for the mutex is served,
\* and publishing works again after the faults.
SPECIFICATION FairSpec
CONSTANTS
    g1 = g1
    g2 = g2
    consumer = consumer
    payment = payment
    guest = guest
    Caller = {g1, g2}
    Producer = {payment}
    ProducerOf <- MCProducerOf
    rabbitDialAttempts = 2
    MaxFaults = 2
    None = None
PROPERTIES
    NobodyWaitsForever
    PublishingRecovers
