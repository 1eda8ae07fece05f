----------------------- MODULE InvoiceProcessingProofs -----------------------
(***************************************************************************)
(* Theorems about the invoice consumer: InvoiceProcessing, for every set of *)
(* messages, documents, numbers and faults, and InvoiceChecks, for every    *)
(* content a message can have, with what the kinds of the first mean in the *)
(* second.                                                                  *)
(***************************************************************************)
EXTENDS InvoiceProcessing, InvoiceChecks, InvoiceCollectionProofs

(***************************************************************************)
(* The inductive invariant.                                                 *)
(***************************************************************************)
Working == {"unmarshal", "generate", "save", "publish", "ack", "requeue", "drop"}

(* An invoice of message m and number n is stored / its payment was asked.   *)
Stored(m, n) == \E s \in saved : /\ s.message = m
                                 /\ s.doc \in DOMAIN invoices
                                 /\ invoices[s.doc].number = n
                                 /\ invoices[s.doc].booking = BookingOf[m]
Asked(m, n) == \E q \in requests : q.message = m /\ q.number = n

LoopInv ==
    /\ loop \in Working => current \in Message
    /\ loop \notin Working => current = None
    /\ loop \in {"save", "publish", "ack"} => number \in InvoiceNumber
    /\ loop \in {"publish", "ack"} => Stored(current, number)
    /\ loop = "ack" /\ "lost" \notin Faults => Asked(current, number)

RequestsInv == \A q \in requests : Stored(q.message, q.number) /\ q.booking = BookingOf[q.message]

AckedInv == \A m \in Message : at[m] = "acked" =>
    \E n \in InvoiceNumber : Stored(m, n) /\ ("lost" \notin Faults => Asked(m, n))

Held == {m \in Message : at[m] = "delivered"}

HeldInv == link = "up" =>
    /\ Held = buffer \cup ({current} \ {None})
    /\ current \notin buffer

IInv == TypeOK /\ LoopInv /\ RequestsInv /\ AckedInv /\ HeldInv

----------------------------------------------------------------------------
(* A stored invoice stays stored, an asked payment stays asked.              *)
LEMMA StoredStays ==
    ASSUME InvoicesGrow, saved \subseteq saved', NEW m, NEW n
    PROVE  Stored(m, n) => Stored(m, n)'
    BY DEF InvoicesGrow, Stored

(* A payment request that the exchange has accepted stays accepted.          *)
LEMMA AskedStays ==
    ASSUME requests \subseteq requests', NEW m, NEW n
    PROVE  Asked(m, n) => Asked(m, n)'
    BY DEF Asked

(* Steps that store and publish nothing and acknowledge nothing keep what is *)
(* known of stored invoices, requests and acknowledged messages.             *)
LEMMA QuietStep ==
    ASSUME IInv, UNCHANGED <<invoices, requests, saved>>,
           \A m \in Message : at'[m] = "acked" => at[m] = "acked"
    PROVE  RequestsInv' /\ AckedInv'
<1>1. /\ \A m, n : Stored(m, n) => Stored(m, n)'
      /\ \A m, n : Asked(m, n) => Asked(m, n)'
    BY SameInvoicesGrow, StoredStays, AskedStays
<1> QED
    BY <1>1 DEF IInv, RequestsInv, AckedInv

(* A freshly started process with an empty collection satisfies the          *)
(* invariant.                                                                *)
LEMMA InvInit == ProcessingAssumption /\ Init => IInv
<1> SUFFICES ASSUME ProcessingAssumption, Init PROVE IInv
    OBVIOUS
<1>1. TypeOK
    BY DEF Init, TypeOK, InvoicesOK, MessageAt, LoopAt, LinkState
<1>2. LoopInv /\ RequestsInv /\ AckedInv /\ HeldInv
    BY DEF Init, LoopInv, RequestsInv, AckedInv, HeldInv, Held, Working
<1> QED
    BY <1>1, <1>2 DEF IInv

(* The steps of the broker, the connection and the process.                  *)
LEMMA BrokerStep ==
    ASSUME ProcessingAssumption, IInv,
           \/ \E m \in Message : Send(m) \/ Deliver(m)
           \/ LoseConnection \/ Shutdown \/ CloseConnection \/ Restart
    PROVE  IInv'
<1> USE DEF IInv, ProcessingAssumption
<1>1. UNCHANGED <<invoices, requests, saved>>
    BY DEF Send, Deliver, LoseConnection, Shutdown, CloseConnection, Restart
<1>2. TypeOK'
    BY DEF TypeOK, InvoicesOK, MessageAt, LoopAt, LinkState, TakenBack, Send, Deliver,
       LoseConnection, Shutdown, CloseConnection, Restart, loopVars, brokerVars
<1>3. \A m \in Message : at'[m] = "acked" => at[m] = "acked"
    BY DEF TypeOK, TakenBack, Send, Deliver, LoseConnection, Shutdown, CloseConnection, Restart,
       brokerVars
<1>4. LoopInv'
  <2>1. \A m, n : Stored(m, n) => Stored(m, n)'
      BY <1>1, SameInvoicesGrow, StoredStays
  <2>2. \A m, n : Asked(m, n) => Asked(m, n)'
      BY <1>1, AskedStays
  <2>3. UNCHANGED loopVars \/ (loop' = "starting" /\ current' = None)
      BY DEF Send, Deliver, LoseConnection, Shutdown, CloseConnection, Restart
  <2> QED
      BY <2>1, <2>2, <2>3 DEF LoopInv, loopVars, Working
<1>5. HeldInv'
  <2>1. ASSUME NEW m \in Message, Send(m) PROVE HeldInv'
      BY <2>1 DEF Send, HeldInv, Held, TypeOK, loopVars
  <2>2. ASSUME NEW m \in Message, Deliver(m) PROVE HeldInv'
    <3>1. link = "up" /\ at[m] = "ready" /\ Held' = Held \cup {m} /\ buffer' = buffer \cup {m}
        BY <2>2 DEF Deliver, Consuming, Held, TypeOK
    <3>2. m \notin Held
        BY <3>1 DEF Held
    <3>3. current' = current /\ link' = link
        BY <2>2 DEF Deliver, loopVars
    <3> QED
        BY <3>1, <3>2, <3>3 DEF HeldInv
  <2>3. CASE LoseConnection \/ CloseConnection
      BY <2>3 DEF LoseConnection, CloseConnection, HeldInv
  <2>4. CASE Shutdown
      BY <2>4 DEF Shutdown, HeldInv, Held, brokerVars, loopVars
  <2>5. CASE Restart
    <3>1. Held' = {}
        BY <2>5 DEF Restart, Held, TakenBack
    <3> QED
        BY <2>5, <3>1 DEF Restart, HeldInv
  <2> QED
      BY <2>1, <2>2, <2>3, <2>4, <2>5
<1> QED
    BY <1>1, <1>2, <1>3, <1>4, <1>5, QuietStep

----------------------------------------------------------------------------
(* The steps of the loop.                                                    *)

(* A step of the loop that leaves the collections and the broker alone.      *)
LEMMA LocalStep ==
    ASSUME ProcessingAssumption, IInv,
           StartConsuming \/ UnmarshalRequest \/ GenerateInvoiceDoc
    PROVE  IInv'
<1> USE DEF IInv, ProcessingAssumption, loopOnly, brokerVars
<1>1. UNCHANGED <<invoices, brokerVars, ctxDone, requests, saved, current>>
    BY DEF StartConsuming, UnmarshalRequest, GenerateInvoiceDoc
<1>2. TypeOK'
    BY DEF TypeOK, InvoicesOK, LoopAt, StartConsuming, UnmarshalRequest, GenerateInvoiceDoc
<1>3. LoopInv'
  <2>1. /\ loop' \in {"waiting", "stopped", "drop", "generate", "save"}
        /\ loop' \in {"waiting", "stopped"} => current = None
        /\ loop' \notin {"waiting", "stopped"} => current \in Message
        /\ loop' = "save" => number' \in InvoiceNumber
      BY DEF LoopInv, Working, StartConsuming, UnmarshalRequest, GenerateInvoiceDoc
  <2> QED
      BY <1>1, <2>1 DEF LoopInv, Working
<1>4. HeldInv'
    BY <1>1 DEF HeldInv, Held
<1> QED
    BY <1>1, <1>2, <1>3, <1>4, QuietStep

(* Line 67, a delivery leaves the buffer and becomes the current one: it     *)
(* stays held.                                                               *)
LEMMA TakeDeliveryStep ==
    ASSUME ProcessingAssumption, IInv, TakeDelivery
    PROVE  IInv'
<1> USE DEF IInv, ProcessingAssumption, TakeDelivery
<1>1. PICK m \in buffer : current' = m /\ buffer' = buffer \ {m}
    OBVIOUS
<1>2. TypeOK'
    BY <1>1 DEF TypeOK, InvoicesOK, LoopAt
<1>3. LoopInv'
    BY <1>1 DEF LoopInv, Working, TypeOK
<1>4. HeldInv'
  <2>1. current = None /\ m \in Message
      BY <1>1 DEF LoopInv, Working, TypeOK
  <2> QED
      BY <1>1, <2>1 DEF HeldInv, Held
<1> QED
    BY <1>2, <1>3, <1>4, QuietStep

(* Line 67, the channel is closed: the loop ends between two deliveries.     *)
LEMMA EndLoopStep ==
    ASSUME ProcessingAssumption, IInv, EndLoop
    PROVE  IInv'
<1> USE DEF IInv, ProcessingAssumption, EndLoop
<1>1. TypeOK'
    BY DEF TypeOK, InvoicesOK, LoopAt
<1>2. LoopInv'
    BY DEF LoopInv, Working
<1>3. HeldInv'
    BY DEF HeldInv, Held
<1> QED
    BY <1>1, <1>2, <1>3, QuietStep

(* Lines 98-110: after a save without an error the invoice of the delivery   *)
(* is stored.                                                                *)
LEMMA SaveInvoiceStep ==
    ASSUME ProcessingAssumption, IInv, SaveInvoice
    PROVE  IInv'
<1> USE DEF IInv, ProcessingAssumption, SaveInvoice, brokerVars
<1>1. current \in Message /\ number \in InvoiceNumber /\ BookingOf[current] \in Booking
    BY DEF LoopInv, Working
<1>2. /\ InvoicesOK' /\ InvoicesGrow /\ saved \subseteq saved'
      /\ saved' \subseteq [message : Message, doc : Doc]
      /\ loop' = "publish" => Stored(current, number)'
  <2>1. CASE UNCHANGED <<invoices, saved>> /\ loop' # "publish"
      BY <2>1, SameInvoicesGrow DEF TypeOK, InvoicesOK
  <2>2. ASSUME NEW d \in Doc, InsertInvoice(d, NewInvoice(number, BookingOf[current])),
               saved' = saved \cup {[message |-> current, doc |-> d]}
        PROVE  /\ InvoicesOK' /\ InvoicesGrow /\ saved \subseteq saved'
               /\ saved' \subseteq [message : Message, doc : Doc]
               /\ Stored(current, number)'
    <3>1. InvoicesOK' /\ InvoicesGrow
        BY <1>1, <2>2, InsertStep DEF TypeOK
    <3>2. /\ d \in DOMAIN invoices' /\ invoices'[d].number = number
          /\ invoices'[d].booking = BookingOf[current]
        BY <2>2 DEF InsertInvoice, NewInvoice
    <3>3. Stored(current, number)'
      <4>1. [message |-> current, doc |-> d] \in saved'
          BY <2>2
      <4> QED
          BY <3>2, <4>1 DEF Stored
    <3> QED
        BY <1>1, <2>2, <3>1, <3>3 DEF TypeOK
  <2> QED
      BY <2>1, <2>2
<1>3. TypeOK'
    BY <1>2 DEF TypeOK, LoopAt
<1>4. LoopInv'
    BY <1>1, <1>2 DEF LoopInv, Working
<1>5. RequestsInv' /\ AckedInv'
  <2>1. /\ \A m, n : Stored(m, n) => Stored(m, n)'
        /\ \A m, n : Asked(m, n) => Asked(m, n)'
      BY <1>2, StoredStays, AskedStays
  <2> QED
      BY <2>1 DEF RequestsInv, AckedInv
<1>6. HeldInv'
    BY DEF HeldInv, Held
<1> QED
    BY <1>3, <1>4, <1>5, <1>6

(* Lines 112-122: what is published names the invoice that was just stored.  *)
LEMMA PublishPaymentRequestStep ==
    ASSUME ProcessingAssumption, IInv, PublishPaymentRequest
    PROVE  IInv'
<1> USE DEF IInv, ProcessingAssumption, PublishPaymentRequest, brokerVars
<1> DEFINE q == [message |-> current, number |-> number, booking |-> BookingOf[current]]
<1>1. /\ current \in Message /\ number \in InvoiceNumber /\ BookingOf[current] \in Booking
      /\ Stored(current, number)
    BY DEF LoopInv, Working
<1>2. \/ UNCHANGED requests /\ (loop' = "ack" => "lost" \in Faults)
      \/ requests' = requests \cup {q}
    OBVIOUS
<1>3. TypeOK'
    BY <1>1, <1>2 DEF TypeOK, InvoicesOK, LoopAt, PaymentRequest
<1>4. \A m, n : Stored(m, n) => Stored(m, n)'
    BY SameInvoicesGrow, StoredStays
<1>5. \A m, n : Asked(m, n) => Asked(m, n)'
    BY <1>2, AskedStays
<1>6. ASSUME requests' = requests \cup {q} PROVE Asked(current, number)'
  <2>1. q \in requests' /\ q.message = current' /\ q.number = number'
      BY <1>6
  <2> QED
      BY <2>1 DEF Asked
<1>7. LoopInv'
    BY <1>1, <1>2, <1>4, <1>6 DEF LoopInv, Working
<1>8. RequestsInv'
    BY <1>1, <1>2, <1>4 DEF RequestsInv
<1>9. AckedInv'
    BY <1>4, <1>5 DEF AckedInv
<1>10. HeldInv'
    BY DEF HeldInv, Held
<1> QED
    BY <1>3, <1>7, <1>8, <1>9, <1>10

(* Ack and Nack: a message is acknowledged only after both the save and the  *)
(* publish.                                                                  *)
LEMMA SettleDeliveryStep ==
    ASSUME ProcessingAssumption, IInv, SettleDelivery
    PROVE  IInv'
<1> USE DEF IInv, ProcessingAssumption, SettleDelivery
<1>1. current \in Message
    BY DEF LoopInv, Working
<1>2. Verdict \in {"acked", "ready", "dropped"} /\ (Verdict = "acked" => loop = "ack")
    BY DEF Verdict
<1>3. TypeOK'
    BY <1>1, <1>2 DEF TypeOK, InvoicesOK, LoopAt, MessageAt
<1>4. LoopInv'
    BY DEF LoopInv, Working
<1>5. /\ \A m, n : Stored(m, n) => Stored(m, n)'
      /\ \A m, n : Asked(m, n) => Asked(m, n)'
    BY SameInvoicesGrow, StoredStays, AskedStays
<1>6. RequestsInv'
    BY <1>5 DEF RequestsInv
<1>7. AckedInv'
  <2>1. ASSUME NEW m \in Message, at'[m] = "acked", at[m] # "acked"
        PROVE  m = current /\ loop = "ack"
      BY <1>1, <1>2, <2>1 DEF TypeOK
  <2> QED
      BY <1>5, <2>1 DEF AckedInv, LoopInv
<1>8. HeldInv'
  <2>1. CASE link # "up"
      BY <2>1 DEF HeldInv
  <2>2. CASE link = "up"
    <3>1. Held' = Held \ {current}
        BY <1>1, <1>2, <2>2 DEF Held, TypeOK
    <3> QED
        BY <1>1, <2>2, <3>1 DEF HeldInv, TypeOK
  <2> QED
      BY <2>1, <2>2
<1> QED
    BY <1>3, <1>4, <1>6, <1>7, <1>8

(* A step that changes nothing keeps the invariant.                          *)
LEMMA StutterStep == ProcessingAssumption /\ IInv /\ UNCHANGED vars => IInv'
<1> SUFFICES ASSUME ProcessingAssumption, IInv, UNCHANGED vars PROVE IInv'
    OBVIOUS
<1> USE DEF IInv, vars, brokerVars, loopVars
<1>1. TypeOK' /\ HeldInv'
    BY DEF TypeOK, InvoicesOK, HeldInv, Held
<1>2. LoopInv'
  <2>1. /\ \A m, n : Stored(m, n) => Stored(m, n)'
        /\ \A m, n : Asked(m, n) => Asked(m, n)'
      BY SameInvoicesGrow, StoredStays, AskedStays
  <2> QED
      BY <2>1 DEF LoopInv
<1> QED
    BY <1>1, <1>2, QuietStep

(* Every step of the broker, of the process and of the loop keeps the        *)
(* invariant.                                                                *)
LEMMA InvStep == ProcessingAssumption /\ IInv /\ [Next]_vars => IInv'
    BY BrokerStep, LocalStep, TakeDeliveryStep, EndLoopStep, SaveInvoiceStep,
       PublishPaymentRequestStep, SettleDeliveryStep, StutterStep DEF Next, LoopStep

(* The invariant holds in every reachable state.                             *)
THEOREM Invariance == Spec => []IInv
    BY ProcessingAssumption, InvInit, InvStep, PTL DEF Spec

(* Every variable keeps its type.                                            *)
THEOREM TypeCorrect == Spec => []TypeOK
<1>1. IInv => TypeOK
    BY DEF IInv
<1> QED
    BY <1>1, Invariance, PTL

(* An acknowledged message has a stored invoice, and a payment request for   *)
(* it unless the broker itself loses messages.                               *)
THEOREM AckedMessagesAreDone == Spec => []AckedIsDone
<1>1. ASSUME IInv, NEW m \in Message, at[m] = "acked"
      PROVE  \E s \in saved :
                /\ s.message = m
                /\ "lost" \notin Faults =>
                      \E q \in requests : q.message = m /\ q.number = invoices[s.doc].number
    BY <1>1 DEF IInv, AckedInv, Stored, Asked
<1>2. IInv => AckedIsDone
    BY <1>1 DEF AckedIsDone
<1> QED
    BY <1>2, Invariance, PTL

(* Every payment request the guest can see is for a stored invoice of the    *)
(* same message, number and booking.                                         *)
THEOREM RequestsHaveInvoices == Spec => []RequestHasInvoice
<1>1. IInv => RequestHasInvoice
    BY DEF IInv, RequestsInv, Stored, RequestHasInvoice
<1> QED
    BY <1>1, Invariance, PTL

(* No delivery is forgotten while the connection stands.                     *)
THEOREM DeliveriesAreHeld == Spec => []HeldUntilSettled
<1>1. IInv => HeldUntilSettled
    BY DEF IInv, HeldInv, Held, HeldUntilSettled
<1> QED
    BY <1>1, Invariance, PTL

----------------------------------------------------------------------------
(* Where the clock answers, every message that is dropped deserves it, or is *)
(* about a booking that has an invoice already and a unique index refuses    *)
(* another one, or is dropped by a process that was told to stop.            *)
ClockAnswers == "clock" \notin Faults

Bad(m)     == KindOf[m] \in {"corrupt", "invalid"}
Good(m)    == KindOf[m] \in {"valid", "undated"}
Refused(m) == UniqueKeys /\ WithBooking(BookingOf[m]) # {}

DropInv ==
    /\ loop = "generate" => KindOf[current] # "corrupt"
    /\ loop \in {"save", "publish", "ack", "requeue"} => Good(current)
    /\ loop = "drop" => Bad(current) \/ Refused(current) \/ ctxDone
    /\ \A s \in saved : Good(s.message)
    /\ "shutdown" \notin Faults =>
          ~ctxDone /\ \A m \in Message : at[m] = "dropped" => Bad(m) \/ Refused(m)

(* A booking that has an invoice keeps one.                                  *)
LEMMA RefusedStays ==
    ASSUME [Next]_vars, NEW m
    PROVE  Refused(m) => Refused(m)'
<1>1. DOMAIN invoices \subseteq DOMAIN invoices'
      /\ \A d \in DOMAIN invoices : invoices'[d] = invoices[d]
  <2>1. CASE SaveInvoice
      BY <2>1 DEF SaveInvoice, InsertInvoice
  <2>2. CASE ~SaveInvoice
      BY <2>2 DEF Next, LoopStep, vars, Send, Deliver, LoseConnection, CloseConnection, Restart,
                  Shutdown, StartConsuming, TakeDelivery, EndLoop, UnmarshalRequest,
                  GenerateInvoiceDoc, PublishPaymentRequest, SettleDelivery, loopOnly
  <2> QED
      BY <2>1, <2>2
<1> QED
    BY <1>1 DEF Refused, WithBooking

(* A step of the loop, of the broker or of the process keeps it so.          *)
LEMMA DropStep == ProcessingAssumption /\ ClockAnswers /\ IInv /\ DropInv /\ [Next]_vars => DropInv'
<1> SUFFICES ASSUME ProcessingAssumption, ClockAnswers, IInv, DropInv, [Next]_vars PROVE DropInv'
    OBVIOUS
<1> USE DEF DropInv, Bad, Good, loopVars, brokerVars, loopOnly
<1>1. TypeOK /\ (loop \in Working => current \in Message)
    BY DEF IInv, LoopInv
<1>r. \A m : Refused(m) => Refused(m)'
    BY RefusedStays
<1>2. CASE \E m \in Message : Send(m) \/ Deliver(m)
    BY <1>1, <1>r, <1>2 DEF Send, Deliver, TypeOK
<1>3. CASE LoseConnection \/ CloseConnection \/ Restart \/ Shutdown
    BY <1>1, <1>r, <1>3 DEF LoseConnection, CloseConnection, Restart, Shutdown, TakenBack, TypeOK
<1>4. CASE StartConsuming \/ TakeDelivery \/ EndLoop
    BY <1>r, <1>4 DEF StartConsuming, TakeDelivery, EndLoop
<1>5. CASE UnmarshalRequest
    BY <1>r, <1>5 DEF UnmarshalRequest
<1>6. CASE GenerateInvoiceDoc
    BY <1>1, <1>r, <1>6 DEF GenerateInvoiceDoc, ClockAnswers, ProcessingAssumption, MessageKind, Working
<1>7. CASE SaveInvoice
  <2>1. KeyTaken => Refused(current)
      BY DEF KeyTaken, Refused
  <2> QED
      BY <1>r, <1>7, <2>1 DEF SaveInvoice
<1>8. CASE PublishPaymentRequest
    BY <1>r, <1>8 DEF PublishPaymentRequest
<1>9. CASE SettleDelivery
    BY <1>1, <1>r, <1>9 DEF SettleDelivery, Verdict, Working, TypeOK
<1>10. CASE UNCHANGED vars
    BY <1>r, <1>10 DEF vars
<1> QED
    BY <1>2, <1>3, <1>4, <1>5, <1>6, <1>7, <1>8, <1>9, <1>10 DEF Next, LoopStep

(* Every reachable state of a service whose clock answers has it.            *)
THEOREM DropInvariance == ASSUME ClockAnswers PROVE Spec => [](IInv /\ DropInv)
<1>1. Init => DropInv
    BY DEF Init, DropInv
<1>2. IInv /\ DropInv /\ [Next]_vars => DropInv'
    BY ProcessingAssumption, DropStep
<1> QED
    BY <1>1, <1>2, Invariance, PTL DEF Spec

(* A valid message leaves the queue of a service that nobody stops only when *)
(* there is an invoice of its booking, its own or one of an earlier message  *)
(* that a unique index keeps: no booking is lost.                            *)
NoBookingIsLost ==
    \A m \in Message : at[m] \in {"acked", "dropped"} /\ KindOf[m] = "valid" =>
        WithBooking(BookingOf[m]) # {}

(* Lines 84-124: whatever fails, is lost, redelivered or restarted, as long   *)
(* as the clock answers and nobody stops the process.                         *)
THEOREM NoBookingsAreLost ==
    ASSUME ClockAnswers, "shutdown" \notin Faults
    PROVE  Spec => []NoBookingIsLost
<1>1. ASSUME IInv, DropInv, NEW m \in Message, at[m] \in {"acked", "dropped"}, KindOf[m] = "valid"
      PROVE  WithBooking(BookingOf[m]) # {}
  <2>1. CASE at[m] = "acked"
      BY <1>1, <2>1 DEF IInv, AckedInv, Stored, WithBooking
  <2>2. CASE at[m] = "dropped"
      BY <1>1, <2>2 DEF DropInv, Bad, Refused
  <2> QED
      BY <1>1, <2>1, <2>2
<1>2. IInv /\ DropInv => NoBookingIsLost
    BY <1>1 DEF NoBookingIsLost
<1> QED
    BY <1>2, DropInvariance, PTL

(* Without an index nothing is refused: then only what deserves it is dropped. *)
Calm == ClockAnswers /\ ~UniqueKeys

(* Only an invalid message is dropped, provided besides that nobody stops    *)
(* the process: those are the only ways to lose a valid one.                 *)
THEOREM OnlyInvalidAreDropped ==
    ASSUME Calm, "shutdown" \notin Faults
    PROVE  Spec => []OnlyInvalidIsDropped
<1>1. DropInv => OnlyInvalidIsDropped
    BY DEF DropInv, Bad, Refused, Calm, OnlyInvalidIsDropped
<1> QED
    BY <1>1, DropInvariance, PTL DEF Calm

(* If besides the broker loses nothing, no stored invoice is left behind     *)
(* without a payment request once its message has left the queue.            *)
THEOREM SettledInvoicesAreRequested ==
    ASSUME Calm, "lost" \notin Faults, "shutdown" \notin Faults
    PROVE  Spec => []SettledInvoiceIsRequested
<1>1. ASSUME IInv, DropInv, NEW s \in saved,
             at[s.message] \in {"acked", "dropped"}
      PROVE  \E q \in requests : q.message = s.message
  <2>1. s.message \in Message
      BY <1>1 DEF IInv, TypeOK
  <2>2. at[s.message] # "dropped"
      BY <1>1, <2>1 DEF DropInv, Bad, Good, Refused, Calm
  <2> QED
      BY <1>1, <2>1, <2>2 DEF IInv, AckedInv, Asked
<1>2. IInv /\ DropInv => SettledInvoiceIsRequested
    BY <1>1 DEF SettledInvoiceIsRequested
<1> QED
    BY <1>2, DropInvariance, PTL DEF Calm

(* A message is settled by SettleDelivery alone, and it is the loop's own.    *)
LEMMA SettledByLoop ==
    ASSUME IInv, [Next]_vars, NEW m \in Message, at'[m] # at[m], at'[m] \in {"acked", "dropped"}
    PROVE  /\ SettleDelivery /\ m = current
           /\ at'[m] = "acked" => loop = "ack"
           /\ at'[m] = "dropped" => loop = "drop"
<1> USE DEF loopVars, brokerVars, loopOnly
<1>1. at \in [Message -> MessageAt]
    BY DEF IInv, TypeOK
<1>2. SettleDelivery
  <2>1. CASE \E n \in Message : Send(n) \/ Deliver(n)
      BY <1>1, <2>1 DEF Send, Deliver
  <2>2. CASE LoseConnection \/ CloseConnection \/ Restart \/ Shutdown
      BY <1>1, <2>2 DEF LoseConnection, CloseConnection, Restart, Shutdown, TakenBack
  <2>3. CASE LoopStep /\ ~SettleDelivery
      BY <2>3 DEF LoopStep, StartConsuming, TakeDelivery, EndLoop, UnmarshalRequest,
                  GenerateInvoiceDoc, SaveInvoice, PublishPaymentRequest
  <2>4. CASE UNCHANGED vars
      BY <2>4 DEF vars
  <2> QED
      BY <2>1, <2>2, <2>3, <2>4 DEF Next
<1>3. m = current /\ at'[m] = Verdict
    BY <1>1, <1>2 DEF SettleDelivery
<1> QED
    BY <1>2, <1>3 DEF SettleDelivery, Verdict

(* A valid message is dropped only by a process that was told to stop.       *)
THEOREM RunningDropsOnlyInvalid == ASSUME Calm PROVE Spec => DropsOnlyInvalid
<1>1. IInv /\ DropInv /\ [Next]_vars =>
        [\A m \in Message : at'[m] = "dropped" /\ at[m] # "dropped" =>
             KindOf[m] # "valid" \/ ctxDone]_vars
  <2> SUFFICES ASSUME IInv, DropInv, [Next]_vars, NEW m \in Message,
                      at'[m] = "dropped", at[m] # "dropped"
               PROVE  KindOf[m] # "valid" \/ ctxDone
      OBVIOUS
  <2> QED
      BY SettledByLoop DEF DropInv, Bad, Refused, Calm
<1> QED
    BY <1>1, DropInvariance, PTL DEF Calm, Spec, DropsOnlyInvalid

(* And, if the broker loses nothing, one with a stored invoice leaves the     *)
(* queue only when its payment was asked for, unless it was told to stop.     *)
THEOREM RunningSettlesRequested ==
    ASSUME Calm, "lost" \notin Faults PROVE Spec => SettlesOnlyRequested
<1>1. IInv /\ DropInv /\ [Next]_vars =>
        [\A s \in saved : at'[s.message] # at[s.message] /\ at'[s.message] \in {"acked", "dropped"} =>
             ctxDone \/ \E q \in requests : q.message = s.message]_vars
  <2> SUFFICES ASSUME IInv, DropInv, [Next]_vars, NEW s \in saved,
                      at'[s.message] # at[s.message], at'[s.message] \in {"acked", "dropped"}
               PROVE  ctxDone \/ \E q \in requests : q.message = s.message
      OBVIOUS
  <2>1. s.message \in Message
      BY DEF IInv, TypeOK
  <2>2. /\ s.message = current
        /\ loop \in {"ack", "drop"}
      BY <2>1, SettledByLoop
  <2>3. CASE loop = "ack"
      BY <2>2, <2>3 DEF IInv, LoopInv, Asked
  <2>4. CASE loop = "drop"
      BY <2>2, <2>4 DEF DropInv, Bad, Good, Refused, Calm
  <2> QED
      BY <2>2, <2>3, <2>4
<1> QED
    BY <1>1, DropInvariance, PTL DEF Calm, Spec, SettlesOnlyRequested

----------------------------------------------------------------------------
(***************************************************************************)
(* The checks along one message (InvoiceChecks), for every content a        *)
(* message can have: the runs vary two fields at a time.                    *)
(***************************************************************************)

(* A message that is still on its way has passed the checks before its        *)
(* stage, and no dependency has failed on it.                                 *)
Passed ==
    /\ stage # "done" => failed = "none"
    /\ stage \in {"generate", "save", "publish"} => Decodable
    /\ stage \in {"save", "publish"} => InvoiceAccepted
    /\ stage = "publish" => DocumentAccepted

ChecksInv == ChecksTypeOK /\ Passed /\ KindDecides /\ FailureKeepsMessage

(* What no check finds at fault.                                              *)
LEMMA NoViolations ==
    ASSUME NEW value, NEW notBlank, NEW notNil, NEW positive
    PROVE  Violations(value, notBlank, notNil, positive) = {} <=>
               /\ \A f \in notBlank : NotBlank(value[f])
               /\ \A f \in notNil : NotNil(value[f])
               /\ \A f \in positive : PositiveValue(value[f])
BY DEF Violations

(* invoice.go:81-110: when every part is there the getters return what the    *)
(* message says.                                                              *)
LEMMA GotAll ==
    ASSUME ChecksTypeOK, \A p \in Part : message[p] = "good"
    PROVE  \A f \in Field : Got[f] = message[f]
<1>1. \A f \in Field : Parts(f) \subseteq Part
  BY DEF Parts, Part
<1> QED
  BY <1>1 DEF Got

(* A part that a getter returns is there, and so are the parts it lies in.    *)
LEMMA GotPart ==
    ASSUME ChecksTypeOK, NEW p \in Part, Got[p] # "zero"
    PROVE  message[p] = "good"
<1>1. p \in Field /\ message[p] \in {"good", "zero"}
  <2>1. p \in Field /\ p \notin Text /\ p \notin Number
    BY DEF Field, Part, Text, Number
  <2>2. Values(p) = PartValue
    BY <2>1 DEF Values, Part, Time
  <2>3. message[p] \in Values(p)
    BY <2>1 DEF ChecksTypeOK, Content
  <2> QED
    BY <2>1, <2>2, <2>3 DEF PartValue
<1>2. Got[p] \in {message[p], "zero"}
  BY <1>1 DEF Got
<1> QED
  BY <1>1, <1>2

(* The values a field can have.                                               *)
LEMMA FieldValues ==
    ASSUME ChecksTypeOK
    PROVE  /\ \A f \in Text : message[f] \in TextValue
           /\ \A f \in Number : message[f] \in NumberValue
           /\ \A f \in Part : message[f] \in PartValue
           /\ \A f \in Time : message[f] \in TimeValue
<1>1. \A f \in Field : message[f] \in Values(f)
  BY DEF ChecksTypeOK, Content
<1>2. /\ \A f \in Text : f \notin Number /\ f \notin Part /\ f \notin Time
      /\ \A f \in Number : f \notin Part /\ f \notin Time
      /\ \A f \in Part : f \notin Time
  BY DEF Text, Number, Part, Time
<1>3. \A f \in Text : Values(f) = TextValue
  BY <1>2 DEF Values
<1>4. \A f \in Number : Values(f) = NumberValue
  BY <1>2 DEF Values
<1>5. \A f \in Part : Values(f) = PartValue
  BY <1>2 DEF Values
<1>6. \A f \in Time : Values(f) = TimeValue
  BY <1>2 DEF Values
<1> QED
  BY <1>1, <1>3, <1>4, <1>5, <1>6 DEF Field

(* NewInvoiceFromProtoMessage accepts the complete and dated messages.        *)
LEMMA AcceptedIsComplete == ChecksTypeOK => (InvoiceAccepted <=> Complete /\ Dated)
<1> SUFFICES ASSUME ChecksTypeOK PROVE InvoiceAccepted <=> Complete /\ Dated
  OBVIOUS
<1> DEFINE Clean == /\ \A f \in Text : NotBlank(Got[f])
                    /\ \A f \in Part \cup Time : NotNil(Got[f])
                    /\ \A f \in Number : PositiveValue(Got[f])
<1>1. InvoiceAccepted <=> Clean /\ InOrder
  BY NoViolations DEF InvoiceAccepted
<1>2. ASSUME Clean PROVE \A p \in Part : message[p] = "good"
  BY <1>2, GotPart DEF NotNil
<1>3. ASSUME Complete PROVE \A p \in Part : message[p] = "good"
  BY <1>3 DEF Complete
<1>4. ASSUME \A f \in Field : Got[f] = message[f]
      PROVE  Clean /\ InOrder <=> Complete /\ Dated
  <2>1. /\ \A f \in Text : NotBlank(Got[f]) <=> message[f] = "good"
        /\ \A f \in Part : NotNil(Got[f]) <=> message[f] = "good"
        /\ \A f \in Number : PositiveValue(Got[f]) <=> message[f] = "good"
        /\ \A f \in Time : NotNil(Got[f]) <=> message[f] # "zero"
    BY <1>4, FieldValues
    DEF Field, TextValue, PartValue, NumberValue, NotBlank, NotNil, PositiveValue
  <2>2. Clean <=> Complete /\ (\A f \in Time : message[f] # "zero")
    BY <2>1 DEF Complete
  <2>3. ASSUME \A f \in Time : message[f] # "zero"
        PROVE  InOrder <=> Rank[message["issued_at"]] < Rank[message["due_at"]]
    BY <1>4, <2>3 DEF InOrder, ValidPrecedence, AsTime, Time, Field
  <2> QED
    BY <2>2, <2>3 DEF Dated, Time
<1> QED
  BY <1>1, <1>2, <1>3, <1>4, GotAll

(* Add refuses of these only what was issued in the year 1.                   *)
LEMMA DocumentIsDated ==
    ChecksTypeOK /\ InvoiceAccepted => (DocumentAccepted <=> message["issued_at"] # "year1")
<1> SUFFICES ASSUME ChecksTypeOK, InvoiceAccepted
             PROVE  DocumentAccepted <=> message["issued_at"] # "year1"
  OBVIOUS
<1>1. Complete /\ Dated
  BY AcceptedIsComplete
<1>2. \A f \in Field : Got[f] = message[f]
  BY <1>1, GotAll DEF Complete
<1>3. Violations(Got, {"idempotency_key", "booking_id", "payer_id", "payer.document_number",
                       "total.currency"}, {}, {"total.amount"}) = {}
  BY <1>1, <1>2, NoViolations DEF Complete, Field, Text, Number, NotBlank, PositiveValue
<1>4. message["due_at"] # "year1"
  <2>1. message["issued_at"] \in Instant /\ message["due_at"] \in Instant
    BY <1>1, FieldValues DEF Dated, Time, TimeValue
  <2>2. Rank[message["issued_at"]] < Rank[message["due_at"]]
    BY <1>1 DEF Dated
  <2> QED
    BY <2>1, <2>2 DEF Instant, Rank
<1>5. DocumentAccepted <=> \A f \in Time : NotZeroTime(AsTime(message[f]))
  BY <1>2, <1>3 DEF DocumentAccepted, Field
<1> QED
  BY <1>1, <1>4, <1>5 DEF Time, NotZeroTime, AsTime, Dated

(* validatePaymentRequest refuses nothing that was accepted before.           *)
LEMMA RequestIsAccepted == InvoiceAccepted => RequestAccepted
<1> SUFFICES ASSUME InvoiceAccepted PROVE RequestAccepted
  OBVIOUS
<1>1. /\ \A f \in Text : NotBlank(Got[f])
      /\ \A f \in Part \cup Time : NotNil(Got[f])
      /\ \A f \in Number : PositiveValue(Got[f])
  BY NoViolations DEF InvoiceAccepted
<1>2. RequestText \subseteq Text /\ RequestPart \subseteq Part /\ RequestNumber \subseteq Number
  BY DEF RequestText, RequestPart, RequestNumber, Text, Part, Number
<1>3. Violations(Got, RequestText, RequestPart, RequestNumber) = {}
  BY <1>1, <1>2, NoViolations
<1> QED
  BY <1>3 DEF RequestAccepted, InvoiceAccepted

(* What is proved of a message depends on nothing that a step changes.        *)
LEMMA SameMessage ==
    ASSUME UNCHANGED <<contentType, body, message>>
    PROVE  /\ Decodable' = Decodable /\ Kind' = Kind
           /\ InvoiceAccepted' = InvoiceAccepted
           /\ DocumentAccepted' = DocumentAccepted
           /\ RequestAccepted' = RequestAccepted
<1>1. Got' = Got /\ Decodable' = Decodable
  BY DEF Got, Decodable
<1>2. InOrder' = InOrder
  BY <1>1 DEF InOrder
<1>3. Kind' = Kind
  BY <1>1 DEF Kind, Complete, Dated
<1> QED
  BY <1>1, <1>2, <1>3 DEF InvoiceAccepted, DocumentAccepted, RequestAccepted

(* A message that has just been delivered satisfies the invariant.            *)
LEMMA ChecksInvInit == ChecksInit => ChecksInv
BY MessagesAssumption DEF ChecksInit, ChecksInv, ChecksTypeOK, Passed, KindDecides, FailureKeepsMessage

(* Lines 82-89: what no encoding fits is dropped.                             *)
LEMMA UnmarshalStep == ASSUME ChecksInv, Unmarshal PROVE ChecksInv'
<1>1. UNCHANGED <<contentType, body, message, failed>> /\ stage = "unmarshal" /\ failed = "none"
  BY DEF Unmarshal, Proceed, Refuse, ChecksInv, Passed
<1>2. CASE Decodable
  BY <1>1, <1>2, SameMessage
  DEF Unmarshal, Proceed, ChecksInv, ChecksTypeOK, Passed, KindDecides, FailureKeepsMessage
<1>3. CASE ~Decodable
  <2>1. stage' = "done" /\ error' = {"app.corrupted"} /\ outcome' = "drop"
    BY <1>3 DEF Unmarshal, Refuse
  <2>2. Kind' = "corrupt"
    BY <1>1, <1>3, SameMessage DEF Kind
  <2> QED
    BY <1>1, <2>1, <2>2
    DEF ChecksInv, ChecksTypeOK, ErrorType, AppError, Passed, KindDecides, FailureKeepsMessage
<1> QED
  BY <1>2, <1>3

(* Lines 91-96: what is not complete and dated is dropped, and so is what the *)
(* clock fails on.                                                            *)
LEMMA GenerateStep == ASSUME ChecksInv, Generate PROVE ChecksInv'
<1>1. UNCHANGED <<contentType, body, message>> /\ stage = "generate" /\ failed = "none" /\ Decodable
  BY DEF Generate, Proceed, Refuse, ChecksInv, Passed
<1>2. CASE InvoiceAccepted /\ Proceed("save") /\ UNCHANGED failed
  BY <1>1, <1>2, SameMessage DEF Proceed, ChecksInv, ChecksTypeOK, Passed, KindDecides, FailureKeepsMessage
<1>3. CASE ~InvoiceAccepted /\ Refuse({"app.corrupted", "validation"}, "drop") /\ UNCHANGED failed
  <2>1. Kind' = "invalid"
    BY <1>1, <1>3, SameMessage, AcceptedIsComplete DEF Kind, ChecksInv
  <2> QED
    BY <1>1, <1>3, <2>1
    DEF Refuse, ChecksInv, ChecksTypeOK, ErrorType, AppError, Passed, KindDecides, FailureKeepsMessage
<1>4. CASE Refuse({"app.unexpected", "clock"}, "drop") /\ failed' = "clock"
  BY <1>1, <1>4
  DEF Refuse, ChecksInv, ChecksTypeOK, ErrorType, AppError, Passed, KindDecides, FailureKeepsMessage
<1> QED
  BY <1>2, <1>3, <1>4 DEF Generate

(* Lines 98-109: only a duplicate is dropped; what Add refuses by itself was  *)
(* issued in the year 1.                                                      *)
LEMMA SaveStep == ASSUME ChecksInv, Save PROVE ChecksInv'
<1>1. /\ UNCHANGED <<contentType, body, message>> /\ stage = "save" /\ failed = "none"
      /\ Decodable /\ InvoiceAccepted /\ ChecksTypeOK
  BY DEF Save, RefuseSave, Proceed, Refuse, ChecksInv, Passed
<1>2. CASE ~DocumentAccepted /\ RefuseSave({"validation"}) /\ UNCHANGED failed
  <2>1. Kind' = "undated"
    BY <1>1, <1>2, SameMessage, AcceptedIsComplete, DocumentIsDated DEF Kind
  <2>2. AddError({"validation"}) = {"validation", "app.unexpected"}
    BY DEF AddError
  <2>3. stage' = "done" /\ error' = {"validation", "app.unexpected"} /\ outcome' = "requeue"
    BY <1>2, <2>2 DEF RefuseSave, Refuse
  <2> QED
    BY <1>1, <1>2, <2>1, <2>3
    DEF ChecksInv, ChecksTypeOK, ErrorType, AppError, Passed, KindDecides, FailureKeepsMessage
<1>3. CASE DocumentAccepted /\ Proceed("publish") /\ UNCHANGED failed
  BY <1>1, <1>3, SameMessage DEF Proceed, ChecksInv, ChecksTypeOK, Passed, KindDecides, FailureKeepsMessage
<1>4. CASE RefuseSave({"db.alreadyExists"}) /\ failed' = "duplicate"
  <2>1. AddError({"db.alreadyExists"}) = {"db.alreadyExists", "app.alreadyExists"}
    BY DEF AddError
  <2> QED
    BY <1>1, <1>4, <2>1
    DEF RefuseSave, Refuse, ChecksInv, ChecksTypeOK, ErrorType, AppError, DbError, Passed, KindDecides,
        FailureKeepsMessage
<1>5. CASE RefuseSave({"db.unexpected"}) /\ failed' = "insert"
  <2>1. AddError({"db.unexpected"}) = {"db.unexpected", "app.unexpected"}
    BY DEF AddError
  <2> QED
    BY <1>1, <1>5, <2>1
    DEF RefuseSave, Refuse, ChecksInv, ChecksTypeOK, ErrorType, AppError, DbError, Passed, KindDecides,
        FailureKeepsMessage
<1> QED
  BY <1>2, <1>3, <1>4, <1>5 DEF Save

(* Lines 112-124: what comes here is valid, and is acknowledged unless the    *)
(* publish fails.                                                             *)
LEMMA PublishStep == ASSUME ChecksInv, Publish PROVE ChecksInv'
<1>1. /\ UNCHANGED <<contentType, body, message>> /\ stage = "publish" /\ failed = "none"
      /\ Decodable /\ InvoiceAccepted /\ DocumentAccepted /\ RequestAccepted /\ ChecksTypeOK
  BY RequestIsAccepted DEF Publish, RefusePublish, Refuse, ChecksInv, Passed
<1>2. CASE RefusePublish({"app.publish", "mq.unexpected"}) /\ failed' = "publish"
  BY <1>1, <1>2
  DEF RefusePublish, Refuse, ChecksInv, ChecksTypeOK, ErrorType, AppError, MqError, Passed, KindDecides,
      FailureKeepsMessage
<1>3. CASE stage' = "done" /\ outcome' = "ack" /\ UNCHANGED <<error, failed>>
  <2>1. Kind' = "valid"
    BY <1>1, SameMessage, AcceptedIsComplete, DocumentIsDated DEF Kind
  <2> QED
    BY <1>1, <1>3, <2>1 DEF ChecksInv, ChecksTypeOK, Passed, KindDecides, FailureKeepsMessage
<1> QED
  BY <1>1, <1>2, <1>3 DEF Publish

(* Every step of processInvoiceDelivery keeps the invariant.                  *)
LEMMA ChecksInvStep == ChecksInv /\ [ChecksNext]_checksVars => ChecksInv'
<1> SUFFICES ASSUME ChecksInv, [ChecksNext]_checksVars PROVE ChecksInv'
  OBVIOUS
<1>1. CASE UNCHANGED checksVars
  BY <1>1, SameMessage DEF checksVars, ChecksInv, ChecksTypeOK, Passed, KindDecides, FailureKeepsMessage
<1> QED
  BY <1>1, UnmarshalStep, GenerateStep, SaveStep, PublishStep DEF ChecksNext

(* The inductive invariant holds in every reachable state.                    *)
THEOREM ChecksInvariance == ChecksSpec => []ChecksInv
BY ChecksInvInit, ChecksInvStep, PTL DEF ChecksSpec

(* Type correctness of the chain of checks.                                   *)
THEOREM ChecksTypeCorrect == ChecksSpec => []ChecksTypeOK
<1>1. ChecksInv => ChecksTypeOK
  BY DEF ChecksInv
<1> QED
  BY <1>1, ChecksInvariance, PTL

(* invoice_service.go:77-125: whatever a message says, when nothing fails it  *)
(* is settled by its kind.                                                    *)
THEOREM KindsDecide == ChecksSpec => []KindDecides
<1>1. ChecksInv => KindDecides
  BY DEF ChecksInv
<1> QED
  BY <1>1, ChecksInvariance, PTL

(* Line 116 never drops a message whose invoice is stored.                    *)
THEOREM StoredCanAlwaysBeRequested == ChecksSpec => []StoredCanBeRequested
<1>1. ChecksInv => StoredCanBeRequested
  BY RequestIsAccepted DEF ChecksInv, Passed, StoredCanBeRequested
<1> QED
  BY <1>1, ChecksInvariance, PTL

(* Lines 107 and 120: a message that the insert or the publish failed on is   *)
(* requeued.                                                                  *)
THEOREM FailuresKeepMessages == ChecksSpec => []FailureKeepsMessage
<1>1. ChecksInv => FailureKeepsMessage
  BY DEF ChecksInv
<1> QED
  BY <1>1, ChecksInvariance, PTL

(* What InvoiceProcessing decides by the kind of a message is what the three  *)
(* checks decide by its content: unmarshalRequest refuses the corrupt ones,   *)
(* NewInvoiceFromProtoMessage the invalid ones and invoiceRepo.Add the        *)
(* undated ones, and no other.                                                *)
KindOfChecks == CASE ~Decodable                                          -> "corrupt"
                  [] Decodable /\ ~InvoiceAccepted                       -> "invalid"
                  [] Decodable /\ InvoiceAccepted /\ ~DocumentAccepted   -> "undated"
                  [] Decodable /\ InvoiceAccepted /\ DocumentAccepted    -> "valid"

THEOREM KindsAreThoseOfTheChecks == ChecksSpec => [](Kind \in MessageKind /\ Kind = KindOfChecks)
<1>1. ChecksTypeOK => Kind \in MessageKind /\ Kind = KindOfChecks
  <2> SUFFICES ASSUME ChecksTypeOK PROVE Kind \in MessageKind /\ Kind = KindOfChecks
    OBVIOUS
  <2>1. InvoiceAccepted <=> Complete /\ Dated
    BY AcceptedIsComplete
  <2>2. InvoiceAccepted => (DocumentAccepted <=> message["issued_at"] # "year1")
    BY DocumentIsDated
  <2> QED
    BY <2>1, <2>2 DEF Kind, KindOfChecks, MessageKind
<1> QED
  BY <1>1, ChecksTypeCorrect, PTL
==============================================================================
