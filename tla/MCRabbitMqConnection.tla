------------------------- MODULE MCRabbitMqConnection -------------------------
(* Small instances of RabbitMqConnection for TLC. *)
EXTENDS RabbitMqConnection, TLC

CONSTANTS g1, g2, consumer, payment, guest

(* Two payments share a producer, the consumer's loop has one of its own.    *)
MCProducerOf == [c \in Caller |-> IF c = consumer THEN guest ELSE payment]

PaymentSymmetry == Permutations({g1, g2})
==============================================================================
