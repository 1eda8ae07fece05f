-------------------------- MODULE InvoiceProcessing --------------------------
(***************************************************************************)
(* app/invoice_service.go: the single loop that takes invoice-generation    *)
(* messages from RabbitMQ, stores an invoice for each, publishes a payment  *)
(* request to the guest and settles the message (Ack, Nack with or without  *)
(* requeue).  The consumer sets no prefetch limit, so the broker pushes     *)
(* whatever is ready into the client's buffer; a lost connection makes the  *)
(* broker take back every message that is not settled, and ends the loop    *)
(* for good, because nothing calls Consume a second time.                   *)
(***************************************************************************)
EXTENDS InvoiceCollection

CONSTANTS Message,     \* messages the platform sends
          KindOf,      \* what the checks make of a message (MessageKind)
          BookingOf,   \* what the message is about
          UniqueKeys,  \* does MongoDB hold a unique index on idempotency_id?
          Faults,      \* what may go wrong
          None

(***************************************************************************)
(* corrupt: neither protobuf nor JSON (refused by unmarshalRequest)         *)
(* invalid: refused by NewInvoiceFromProtoMessage                           *)
(* undated: accepted there, but refused by invoiceRepo.Add; InvoiceChecks   *)
(*          shows that an issued_at of the year 1 does this and nothing     *)
(*          else                                                            *)
(* valid:   accepted by both                                                *)
(***************************************************************************)
MessageKind == {"corrupt", "invalid", "undated", "valid"}

FaultKind == {"clock", "insert", "publish", "lost", "consume", "connection",
              "shutdown", "crash"}

ASSUME ProcessingAssumption ==
    /\ KindOf \in [Message -> MessageKind]
    /\ BookingOf \in [Message -> Booking]
    /\ UniqueKeys \in BOOLEAN
    /\ Faults \subseteq FaultKind
    /\ None \notin Message \cup InvoiceNumber

VARIABLES
    at,        \* where the broker has each message
    buffer,    \* deliveries the client library holds for the loop
    loop,      \* where the loop is
    current,   \* the delivery it works on
    number,    \* the number of the invoice it has made
    link,      \* the AMQP connection
    ctxDone,   \* SIGTERM has cancelled the context every call is given
    requests,  \* payment requests the exchange has accepted
    saved      \* history: which message each stored invoice was made from

loopVars   == <<loop, current, number>>
brokerVars == <<at, buffer, link>>
vars       == <<invoices, brokerVars, loopVars, ctxDone, requests, saved>>

MessageAt == {"unsent", "ready", "delivered", "acked", "dropped"}
LoopAt    == {"starting", "waiting", "unmarshal", "generate", "save", "publish",
              "ack", "requeue", "drop", "stopped"}
LinkState == {"up", "lost", "closed"}

PaymentRequest == [message : Message, number : InvoiceNumber, booking : Booking]

TypeOK ==
    /\ InvoicesOK
    /\ at \in [Message -> MessageAt]
    /\ buffer \subseteq Message
    /\ loop \in LoopAt
    /\ current \in Message \cup {None}
    /\ number \in InvoiceNumber \cup {None}
    /\ link \in LinkState
    /\ ctxDone \in BOOLEAN
    /\ requests \subseteq PaymentRequest
    /\ saved \subseteq [message : Message, doc : Doc]

Init ==
    /\ invoices = [d \in {} |-> None]
    /\ at = [m \in Message |-> "unsent"]
    /\ buffer = {}
    /\ loop = "starting" /\ current = None /\ number = None
    /\ link = "up"
    /\ ctxDone = FALSE
    /\ requests = {}
    /\ saved = {}

----------------------------------------------------------------------------
(* The broker and the client library                                         *)

Send(m) ==
    /\ at[m] = "unsent"
    /\ at' = [at EXCEPT ![m] = "ready"]
    /\ UNCHANGED <<invoices, buffer, link, loopVars, ctxDone, requests, saved>>

(* A consumer is registered from Consume until the context is cancelled or   *)
(* the connection goes.                                                      *)
Consuming == loop \notin {"starting", "stopped"} /\ link = "up" /\ ~ctxDone

Deliver(m) ==
    /\ Consuming
    /\ at[m] = "ready"
    /\ at' = [at EXCEPT ![m] = "delivered"]
    /\ buffer' = buffer \cup {m}
    /\ UNCHANGED <<invoices, link, loopVars, ctxDone, requests, saved>>

(* What the broker does with the messages of a connection that is gone.      *)
TakenBack == [m \in Message |-> IF at[m] = "delivered" THEN "ready" ELSE at[m]]

LoseConnection ==
    /\ "connection" \in Faults
    /\ link = "up"
    /\ link' = "lost"
    /\ at' = TakenBack
    /\ UNCHANGED <<invoices, buffer, loopVars, ctxDone, requests, saved>>

(* main.go: SIGTERM cancels the context, then shutdown closes the connection *)
(* (line 70) while the loop may still be at work.                            *)
Shutdown ==
    /\ "shutdown" \in Faults
    /\ ~ctxDone
    /\ ctxDone' = TRUE
    /\ UNCHANGED <<invoices, brokerVars, loopVars, requests, saved>>

CloseConnection ==
    /\ ctxDone
    /\ link # "closed"
    /\ link' = "closed"
    /\ at' = TakenBack
    /\ UNCHANGED <<invoices, buffer, loopVars, ctxDone, requests, saved>>

(* The process ends (it is killed, it crashes, or shutdown is through) and a *)
(* new one starts with nothing of its memory.                                *)
Restart ==
    /\ "crash" \in Faults \/ link = "closed"
    /\ at' = TakenBack
    /\ buffer' = {}
    /\ loop' = "starting" /\ current' = None /\ number' = None
    /\ link' = "up"
    /\ ctxDone' = FALSE
    /\ UNCHANGED <<invoices, requests, saved>>

----------------------------------------------------------------------------
(* StartInvoiceProcessing                                                    *)

loopOnly == UNCHANGED <<invoices, brokerVars, ctxDone, requests, saved>>

(* Lines 60-65: Consume is called once; after an error nobody listens.       *)
StartConsuming ==
    /\ loop = "starting"
    /\ \/ link = "up" /\ loop' = "waiting"
       \/ (link # "up" \/ "consume" \in Faults) /\ loop' = "stopped"
    /\ UNCHANGED <<current, number>>
    /\ loopOnly

(* Line 67: the next delivery, whether or not the connection it came over    *)
(* still exists.                                                             *)
TakeDelivery ==
    /\ loop = "waiting"
    /\ \E m \in buffer : /\ current' = m
                         /\ buffer' = buffer \ {m}
    /\ loop' = "unmarshal"
    /\ UNCHANGED <<invoices, at, link, number, ctxDone, requests, saved>>

(* Line 67: the channel is closed.  A cancelled consumer's buffer is drained *)
(* first, one of a dead connection may be given up.                          *)
EndLoop ==
    /\ loop = "waiting"
    /\ link # "up" \/ (ctxDone /\ buffer = {})
    /\ loop' = "stopped"
    /\ buffer' = {}
    /\ UNCHANGED <<invoices, at, link, current, number, ctxDone, requests, saved>>

(* Lines 84-89 and 127-157. *)
UnmarshalRequest ==
    /\ loop = "unmarshal"
    /\ loop' = IF KindOf[current] = "corrupt" THEN "drop" ELSE "generate"
    /\ UNCHANGED <<current, number>>
    /\ loopOnly

(* Lines 91-96 and 159-185.  The clock is a remote service, and once the     *)
(* context is cancelled it can only fail; every error here drops the message. *)
GenerateInvoiceDoc ==
    /\ loop = "generate"
    /\ \/ /\ ~ctxDone
          /\ KindOf[current] # "invalid"
          /\ \E n \in InvoiceNumber : number' = n
          /\ loop' = "save"
       \/ /\ ctxDone \/ "clock" \in Faults \/ KindOf[current] = "invalid"
          /\ loop' = "drop"
          /\ UNCHANGED number
    /\ UNCHANGED current
    /\ loopOnly

KeyTaken == UniqueKeys /\ WithBooking(BookingOf[current]) # {}

(* Slip: the error of the insert is only logged.                             *)
SaveInvoiceUnchecked ==
    /\ loop = "save"
    /\ \/ \E d \in Doc : /\ InsertInvoice(d, NewInvoice(number, BookingOf[current]))
                         /\ saved' = saved \cup {[message |-> current, doc |-> d]}
       \/ "insert" \in Faults /\ UNCHANGED <<invoices, saved>>
    /\ loop' = "publish"
    /\ UNCHANGED <<brokerVars, current, number, ctxDone, requests>>

(* Slip: a message whose invoice is stored already overwrites it. *)
SaveInvoiceOver ==
    /\ loop = "save"
    /\ \E d \in Doc :
          /\ IF KeyTaken
             THEN /\ d \in WithBooking(BookingOf[current])
                  /\ invoices' = [invoices EXCEPT ![d] = NewInvoice(number, BookingOf[current])]
             ELSE InsertInvoice(d, NewInvoice(number, BookingOf[current]))
          /\ saved' = saved \cup {[message |-> current, doc |-> d]}
    /\ loop' = "publish"
    /\ UNCHANGED <<brokerVars, current, number, ctxDone, requests>>

(* Slip: the handler returns on a failed insert without settling.            *)
SaveInvoiceAndForget ==
    /\ loop = "save"
    /\ \/ /\ \E d \in Doc : /\ InsertInvoice(d, NewInvoice(number, BookingOf[current]))
                            /\ saved' = saved \cup {[message |-> current, doc |-> d]}
          /\ loop' = "publish"
          /\ UNCHANGED <<current, number>>
       \/ /\ "insert" \in Faults
          /\ loop' = "waiting" /\ current' = None /\ number' = None
          /\ UNCHANGED <<invoices, saved>>
    /\ UNCHANGED <<brokerVars, ctxDone, requests>>

Storable == KindOf[current] # "undated"

(* Lines 98-110 and 187-205.  A document that Add refuses is no duplicate,   *)
(* so its message is requeued like one whose insert has failed.  An insert   *)
(* that fails because its context is cancelled, or because the answer does   *)
(* not come, may have been applied.                                          *)
SaveInvoice ==
    /\ loop = "save"
    /\ \/ /\ Storable /\ ~KeyTaken
          /\ \E d \in Doc : /\ InsertInvoice(d, NewInvoice(number, BookingOf[current]))
                            /\ saved' = saved \cup {[message |-> current, doc |-> d]}
          /\ \/ loop' = "publish"
             \/ (ctxDone \/ "insert" \in Faults) /\ loop' = "requeue"
       \/ Storable /\ KeyTaken /\ loop' = "drop" /\ UNCHANGED <<invoices, saved>>
       \/ /\ ~Storable \/ ctxDone \/ "insert" \in Faults
          /\ loop' = "requeue"
          /\ UNCHANGED <<invoices, saved>>
    /\ UNCHANGED <<brokerVars, current, number, ctxDone, requests>>

(* Slip: the error of the publish is only logged.                            *)
PublishBestEffort ==
    /\ loop = "publish"
    /\ \/ requests' = requests \cup
             {[message |-> current, number |-> number, booking |-> BookingOf[current]]}
       \/ "publish" \in Faults /\ UNCHANGED requests
    /\ loop' = "ack"
    /\ UNCHANGED <<invoices, brokerVars, current, number, ctxDone, saved>>

(* Slip: every nack is one without requeue.                                  *)
VerdictNoRequeue == IF loop = "ack" THEN "acked" ELSE "dropped"

(* Lines 112-122 and 207-230.  PublishWithContext ignores its context; a     *)
(* producer whose connection was lost opens another one, a closed one stays  *)
(* closed.  buildPaymentRequest fills in every field that                    *)
(* validatePaymentRequest asks for, so line 116 does not fire.               *)
PublishPaymentRequest ==
    /\ loop = "publish"
    /\ \/ /\ link # "closed"
          /\ requests' = requests \cup
                {[message |-> current, number |-> number, booking |-> BookingOf[current]]}
          /\ loop' = "ack"
       \/ link # "closed" /\ "lost" \in Faults /\ loop' = "ack" /\ UNCHANGED requests
       \/ (link = "closed" \/ "publish" \in Faults) /\ loop' = "requeue" /\ UNCHANGED requests
    /\ UNCHANGED <<invoices, brokerVars, current, number, ctxDone, saved>>

(* Slip: every nack is one with requeue.                                     *)
VerdictRequeue == IF loop = "ack" THEN "acked" ELSE "ready"

Verdict == CASE loop = "ack" -> "acked" [] loop = "requeue" -> "ready" [] loop = "drop" -> "dropped"

(* Line 124 and lines 232-236.  On a connection that is gone the broker has  *)
(* the message already, and the error is logged.                             *)
SettleDelivery ==
    /\ loop \in {"ack", "requeue", "drop"}
    /\ at' = IF link = "up" THEN [at EXCEPT ![current] = Verdict] ELSE at
    /\ loop' = "waiting" /\ current' = None /\ number' = None
    /\ UNCHANGED <<invoices, buffer, link, ctxDone, requests, saved>>

LoopStep ==
    \/ StartConsuming
    \/ TakeDelivery
    \/ EndLoop
    \/ UnmarshalRequest
    \/ GenerateInvoiceDoc
    \/ SaveInvoice
    \/ PublishPaymentRequest
    \/ SettleDelivery

Next ==
    \/ \E m \in Message : Send(m) \/ Deliver(m)
    \/ LoopStep
    \/ LoseConnection
    \/ Shutdown
    \/ CloseConnection
    \/ Restart

Spec == Init /\ [][Next]_vars

(* The loop runs, its calls return, and the broker delivers what is ready to *)
(* a consumer.  TakeDelivery is fair per message: the client's buffer is a   *)
(* queue.                                                                    *)
FairSpec ==
    /\ Spec
    /\ WF_vars(LoopStep)
    /\ \A m \in Message : WF_vars(Deliver(m)) /\ SF_vars(TakeDelivery /\ current' = m)

----------------------------------------------------------------------------
(* Properties                                                                *)

(* A message is acknowledged only when its invoice is stored and a payment   *)
(* request for that invoice was handed to the exchange (line 124 is reached  *)
(* through both).  Without publisher confirms the exchange may still have    *)
(* lost it: fault "lost".                                                    *)
AckedIsDone ==
    \A m \in Message : at[m] = "acked" =>
        \E s \in saved :
            /\ s.message = m
            /\ "lost" \notin Faults =>
                  \E q \in requests : q.message = m /\ q.number = invoices[s.doc].number

(* The guest is never asked to pay an invoice that is not stored: every      *)
(* payment request names a document made from the same message, with the     *)
(* same number and booking, whatever failed, was redelivered or restarted    *)
(* in between.                                                               *)
RequestHasInvoice ==
    \A q \in requests :
        \E s \in saved : /\ s.message = q.message
                         /\ invoices[s.doc].number = q.number
                         /\ invoices[s.doc].booking = q.booking

(* No path of processInvoiceDelivery forgets its delivery: as long as the    *)
(* connection stands, what the broker has handed out and not heard of again  *)
(* is exactly what the client's buffer and the loop hold.  (A message lost   *)
(* between the two would wait for the next restart.)                         *)
HeldUntilSettled ==
    link = "up" => {m \in Message : at[m] = "delivered"} = buffer \cup ({current} \ {None})

(* README.md:103-105: only an invalid payload is nacked without requeue, a   *)
(* failure to save or to publish is requeued.                                *)
OnlyInvalidIsDropped ==
    \A m \in Message : at[m] = "dropped" => KindOf[m] # "valid"

(* Once a message with a stored invoice has left the queue, the guest was    *)
(* asked to pay an invoice of it: a publish that failed after the save       *)
(* (line 120), a save that failed after it was applied (line 108) and a      *)
(* crash in between all bring the message back.                              *)
SettledInvoiceIsRequested ==
    \A s \in saved : at[s.message] \in {"acked", "dropped"} =>
        \E q \in requests : q.message = s.message

(* The same while nobody stops the process: a valid message is dropped only  *)
(* by a loop whose context is cancelled (the clock call of line 91 then      *)
(* fails), whatever was redelivered, lost or restarted before.               *)
DropsOnlyInvalid ==
    [][\A m \in Message : at'[m] = "dropped" /\ at[m] # "dropped" =>
           KindOf[m] # "valid" \/ ctxDone]_vars

(* And: a message that has a stored invoice, also one of an earlier attempt  *)
(* or an earlier process, leaves the queue only when the guest was asked to  *)
(* pay, unless the loop's context is cancelled.                              *)
SettlesOnlyRequested ==
    [][\A s \in saved : at'[s.message] # at[s.message] /\ at'[s.message] \in {"acked", "dropped"} =>
           ctxDone \/ \E q \in requests : q.message = s.message]_vars

(* README.md:103-105: a message is acknowledged, dropped because it is       *)
(* invalid, or requeued because of a failure that can be retried.  So when   *)
(* nothing fails, every message leaves the queue for good.                   *)
EveryMessageSettles ==
    \A m \in Message : at[m] = "ready" ~> at[m] \in {"acked", "dropped"}

(* README.md:11, "consumes invoice-generation requests from RabbitMQ": a     *)
(* message that is ready is taken some day.                                  *)
ReadyIsConsumed ==
    \A m \in Message : at[m] = "ready" ~> at[m] # "ready"
==============================================================================
