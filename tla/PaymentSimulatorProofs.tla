------------------------ MODULE PaymentSimulatorProofs ------------------------
(***************************************************************************)
(* Proofs about the service as a whole, for any messages, requests, calls,  *)
(* documents, numbers and faults: each part goes on as its own module says, *)
(* whatever the other two do, so what is proved of a part holds of the      *)
(* whole; and what only the parts together promise.                         *)
(***************************************************************************)
EXTENDS PaymentSimulator, InvoiceCollectionProofs

(* The parts' own proofs.  The checks along one message (InvoiceChecks) have  *)
(* no state in the whole.                                                     *)
ConsumerProved == INSTANCE InvoiceProcessingProofs WITH
    invoices <- Unpaid, Faults <- Faults \ {"find", "update", "id"},
    Messages <- {}, contentType <- None, body <- None, message <- None, stage <- None,
    error <- None, failed <- None, outcome <- None
PaymentsProved == INSTANCE PaymentMakingProofs WITH
    Faults <- (Faults \ {"consume", "connection", "shutdown"}) \cup {"publish", "crash"}
ReissuesProved == INSTANCE PaymentReissueProofs

(***************************************************************************)
(* The inductive invariant                                                   *)
(***************************************************************************)

(* What the loop is about to store is well formed.                            *)
LoopHolds ==
    /\ buffer \subseteq Message
    /\ loop \in {"unmarshal", "generate", "save", "publish", "ack", "requeue", "drop"} =>
          current \in Message
    /\ loop = "save" => number \in InvoiceNumber

(* Every invoice was made from a message about its booking.                   *)
Billed == \A d \in DOMAIN invoices :
              \E s \in saved : s.doc = d /\ BookingOf[s.message] = invoices[d].booking

SimInv == InvoicesOK /\ LoopHolds /\ Billed /\ (UniqueKeys => UniqueBookings)

----------------------------------------------------------------------------
(***************************************************************************)
(* What the steps do to the collection: nothing, but for UpdateStatus of a  *)
(* payment and Add of the consumer.                                         *)
(***************************************************************************)

(* saveInvoice either stores nothing or adds a document about the booking of  *)
(* its message, which under a unique index is the first one.                  *)
Added == \E d \in Doc :
            /\ InsertInvoice(d, NewInvoice(number, BookingOf[current]))
            /\ saved' = saved \cup {[message |-> current, doc |-> d]}
            /\ UniqueKeys => WithBooking(BookingOf[current]) = {}
            /\ loop = "save"

LEMMA SaveInvoiceWrites ==
    ASSUME Consumer!SaveInvoice
    PROVE  Added \/ UNCHANGED <<invoices, saved>>
BY DEF Consumer!SaveInvoice, Consumer!KeyTaken, Consumer!WithBooking, Consumer!InsertInvoice,
       Consumer!NewInvoice, Added, WithBooking, InsertInvoice, NewInvoice

(* The loop's other steps write to no collection.                             *)
LEMMA LoopWrites ==
    ASSUME Consumer!LoopStep
    PROVE  Added \/ UNCHANGED <<invoices, saved>>
BY SaveInvoiceWrites
DEF Consumer!LoopStep, Consumer!StartConsuming, Consumer!TakeDelivery, Consumer!EndLoop,
    Consumer!UnmarshalRequest, Consumer!GenerateInvoiceDoc, Consumer!PublishPaymentRequest,
    Consumer!SettleDelivery, Consumer!loopOnly

(* Neither do the broker, the library and the process.                        *)
LEMMA AroundWrites ==
    ASSUME \/ ConsumerEnvironment \/ Consumer!Restart
           \/ \E m \in Message : Consumer!Deliver(m)
    PROVE  UNCHANGED <<invoices, saved>>
BY DEF ConsumerEnvironment, Consumer!Send, Consumer!LoseConnection, Consumer!Shutdown,
       Consumer!CloseConnection, Consumer!Restart, Consumer!Deliver

(* Of a payment's steps only UpdateStatus writes an invoice.                  *)
LEMMA PaymentWrites ==
    ASSUME NEW r \in Request, PaymentArrives(r) \/ PaymentHandlerStep(r) \/ PaymentPostStep(r)
    PROVE  UNCHANGED invoices \/ \E d \in DOMAIN invoices : SetPaid(d)
<1>1. CASE Payments!UpdateInvoiceStatus(r)
  BY <1>1 DEF Payments!UpdateInvoiceStatus, Payments!WithNumber, Payments!SetPaid, SetPaid
<1>2. CASE ~Payments!UpdateInvoiceStatus(r)
  BY <1>2
  DEF PaymentArrives, PaymentHandlerStep, PaymentPostStep, PublishConfirmation,
      Payments!ReceiveRequest, Payments!HandlerStep, Payments!ReadClock, Payments!LoadInvoice,
      Payments!BuildFailedResponse, Payments!BuildResponse, Payments!SendAnswer,
      Payments!SaveReceipt, Payments!FindForConfirmation, Payments!PublishConfirmation,
      Payments!storeVars
<1> QED
  BY <1>1, <1>2

(* The answers to Reissue write nothing.                                      *)
LEMMA ReissueWrites == ASSUME NEW q \in Query, ReissueStep(q) PROVE UNCHANGED invoices
BY DEF ReissueStep, Reissues!ReceiveQuery, Reissues!QueryStep, Reissues!FindInvoice, Reissues!SendReply

(* Every step of the service, seen from the collection.                       *)
LEMMA Writes ==
    ASSUME Next
    PROVE  \/ UNCHANGED <<invoices, saved>>
           \/ Added
           \/ (\E d \in DOMAIN invoices : SetPaid(d)) /\ UNCHANGED consumerVars
<1>1. CASE ConsumerEnvironment \/ (\E m \in Message : ConsumerDelivery(m)) \/ Restart
  BY <1>1, AroundWrites DEF ConsumerDelivery, Restart
<1>2. CASE ConsumerLoopStep
  BY <1>2, LoopWrites DEF ConsumerLoopStep
<1>3. ASSUME NEW r \in Request, PaymentArrives(r) \/ PaymentHandlerStep(r) \/ PaymentPostStep(r)
      PROVE  /\ UNCHANGED consumerVars
             /\ UNCHANGED invoices \/ \E d \in DOMAIN invoices : SetPaid(d)
  BY <1>3, PaymentWrites DEF PaymentArrives, PaymentHandlerStep, PaymentPostStep
<1>4. ASSUME NEW q \in Query, ReissueStep(q)
      PROVE  UNCHANGED consumerVars /\ UNCHANGED invoices
  BY <1>4, ReissueWrites DEF ReissueStep
<1> QED
  BY <1>1, <1>2, <1>3, <1>4 DEF Next, consumerVars

----------------------------------------------------------------------------
(* A service that has not started yet satisfies the invariant.                *)
LEMMA SimInvInit == Init => SimInv
<1> SUFFICES ASSUME Init PROVE SimInv
  OBVIOUS
<1>1. DOMAIN invoices = {} /\ invoices \in [{} -> Invoice]
  BY DEF Init, Consumer!Init
<1>2. InvoicesOK /\ Billed /\ UniqueBookings
  BY <1>1 DEF InvoicesOK, Billed, UniqueBookings
<1>3. LoopHolds
  BY DEF Init, Consumer!Init, LoopHolds
<1> QED
  BY <1>2, <1>3 DEF SimInv

(* What a step of the loop holds is a message it was handed, or nothing.      *)
LEMMA LoopHoldsStep ==
    ASSUME LoopHolds, Consumer!LoopStep
    PROVE  LoopHolds'
<1> USE DEF LoopHolds
<1>1. CASE Consumer!StartConsuming \/ Consumer!TakeDelivery \/ Consumer!EndLoop
  BY <1>1 DEF Consumer!StartConsuming, Consumer!TakeDelivery, Consumer!EndLoop,
              Consumer!loopOnly, Consumer!brokerVars
<1>2. CASE Consumer!UnmarshalRequest \/ Consumer!GenerateInvoiceDoc
  BY <1>2 DEF Consumer!UnmarshalRequest, Consumer!GenerateInvoiceDoc,
              Consumer!loopOnly, Consumer!brokerVars
<1>3. CASE Consumer!SaveInvoice \/ Consumer!PublishPaymentRequest \/ Consumer!SettleDelivery
  BY <1>3 DEF Consumer!SaveInvoice, Consumer!PublishPaymentRequest, Consumer!SettleDelivery,
              Consumer!brokerVars
<1> QED
  BY <1>1, <1>2, <1>3 DEF Consumer!LoopStep

(* Nothing but the loop's own steps puts anything into its hands.             *)
LEMMA LoopStaysHeld == ASSUME LoopHolds, [Next]_vars PROVE LoopHolds'
<1>1. CASE UNCHANGED consumerVars
  BY <1>1 DEF LoopHolds, consumerVars
<1>2. CASE ConsumerEnvironment \/ Restart \/ \E m \in Message : ConsumerDelivery(m)
  BY <1>2
  DEF ConsumerEnvironment, Restart, ConsumerDelivery, Consumer!Send, Consumer!LoseConnection,
      Consumer!Shutdown, Consumer!CloseConnection, Consumer!Restart, Consumer!Deliver,
      Consumer!loopVars, Consumer!brokerVars, LoopHolds
<1>3. CASE ConsumerLoopStep
  BY <1>3, LoopHoldsStep DEF ConsumerLoopStep
<1> QED
  BY <1>1, <1>2, <1>3
  DEF Next, vars, PaymentArrives, PaymentHandlerStep, PaymentPostStep, ReissueStep

(* UpdateStatus keeps numbers and bookings.                                   *)
LEMMA PaidStep ==
    ASSUME SimInv, NEW d \in DOMAIN invoices, SetPaid(d), UNCHANGED saved
    PROVE  InvoicesOK' /\ Billed' /\ (UniqueKeys => UniqueBookings')
<1>1. InvoicesOK' /\ InvoicesGrow
  BY SetPaidStep DEF SimInv
<1>2. DOMAIN invoices' = DOMAIN invoices
  BY DEF SetPaid
<1>3. Billed'
  BY <1>1, <1>2 DEF SimInv, Billed, InvoicesGrow
<1>4. UniqueKeys => UniqueBookings'
  BY <1>1, <1>2 DEF SimInv, UniqueBookings, InvoicesGrow
<1> QED
  BY <1>1, <1>3, <1>4

(* Add stores a document of its message's booking, the first one of it under  *)
(* a unique index.                                                            *)
LEMMA AddStep ==
    ASSUME SimulatorAssumption, SimInv, Added
    PROVE  InvoicesOK' /\ Billed' /\ (UniqueKeys => UniqueBookings')
<1>1. PICK d \in Doc : /\ InsertInvoice(d, NewInvoice(number, BookingOf[current]))
                       /\ saved' = saved \cup {[message |-> current, doc |-> d]}
                       /\ UniqueKeys => WithBooking(BookingOf[current]) = {}
  BY DEF Added
<1>2. number \in InvoiceNumber /\ BookingOf[current] \in Booking
  BY DEF Added, SimInv, LoopHolds, SimulatorAssumption
<1>3. InvoicesOK' /\ InvoicesGrow
  BY <1>1, <1>2, InsertStep DEF SimInv
<1>4. /\ DOMAIN invoices' = DOMAIN invoices \cup {d}
      /\ invoices'[d].booking = BookingOf[current]
      /\ d \notin DOMAIN invoices
  BY <1>1 DEF InsertInvoice, NewInvoice
<1>5. Billed'
  <2> SUFFICES ASSUME NEW e \in DOMAIN invoices'
               PROVE  \E s \in saved' : s.doc = e /\ BookingOf[s.message] = invoices'[e].booking
    BY DEF Billed
  <2>1. CASE e = d
    <3> DEFINE s == [message |-> current, doc |-> d]
    <3>1. s \in saved' /\ s.doc = d /\ s.message = current
      BY <1>1
    <3> HIDE DEF s
    <3> QED
      BY <1>4, <2>1, <3>1
  <2>2. CASE e \in DOMAIN invoices
    BY <1>1, <1>3, <2>2 DEF SimInv, Billed, InvoicesGrow
  <2> QED
    BY <1>4, <2>1, <2>2
<1>6. ASSUME UniqueKeys PROVE UniqueBookings'
  <2>1. \A e \in DOMAIN invoices : /\ invoices[e].booking # BookingOf[current]
                                   /\ invoices'[e].booking = invoices[e].booking
    BY <1>1, <1>3, <1>6 DEF WithBooking, InvoicesGrow
  <2> QED
    BY <1>4, <1>6, <2>1 DEF SimInv, UniqueBookings
<1> QED
  BY <1>3, <1>5, <1>6

(* Every step of the service keeps the invariant.                             *)
LEMMA SimInvStep == SimulatorAssumption /\ SimInv /\ [Next]_vars => SimInv'
<1> SUFFICES ASSUME SimulatorAssumption, SimInv, [Next]_vars PROVE SimInv'
  OBVIOUS
<1>1. LoopHolds'
  BY LoopStaysHeld DEF SimInv
<1>2. CASE UNCHANGED <<invoices, saved>>
  BY <1>1, <1>2 DEF SimInv, InvoicesOK, Billed, UniqueBookings
<1>3. CASE Added
  BY <1>1, <1>3, AddStep DEF SimInv
<1>4. CASE (\E d \in DOMAIN invoices : SetPaid(d)) /\ UNCHANGED consumerVars
  BY <1>1, <1>4, PaidStep DEF SimInv, consumerVars
<1> QED
  BY <1>2, <1>3, <1>4, Writes DEF vars, consumerVars

(* The inductive invariant of the whole holds in every reachable state.       *)
THEOREM Invariance == Spec => []SimInv
BY SimulatorAssumption, SimInvInit, SimInvStep, PTL DEF Spec

----------------------------------------------------------------------------
(***************************************************************************)
(* The consumer in the whole: seen from the collection without its          *)
(* statuses, every step is one of InvoiceProcessing or none.                *)
(***************************************************************************)

(* An update of a status is not seen.                                         *)
LEMMA PaidIsUnseen ==
    ASSUME InvoicesOK, NEW d \in DOMAIN invoices, SetPaid(d)
    PROVE  Unpaid' = Unpaid
BY DEF InvoicesOK, Invoice, SetPaid, Unpaid

(* An insertion is seen as it is: a new invoice is pending.                   *)
LEMMA InsertIsSeen ==
    ASSUME NEW d, NEW n, NEW b, InsertInvoice(d, NewInvoice(n, b))
    PROVE  ConsumerPromise!InsertInvoice(d, ConsumerPromise!NewInvoice(n, b))
<1>1. /\ d \in Doc \ DOMAIN Unpaid
      /\ DOMAIN invoices' = DOMAIN Unpaid \cup {d}
  BY DEF InsertInvoice, Unpaid
<1>2. ASSUME NEW e \in DOMAIN invoices'
      PROVE  [invoices'[e] EXCEPT !.status = "pending"]
             = IF e = d THEN NewInvoice(n, b) ELSE Unpaid[e]
  <2>1. CASE e = d
    BY <1>2, <2>1 DEF InsertInvoice, NewInvoice
  <2>2. CASE e # d
    BY <1>1, <1>2, <2>2 DEF InsertInvoice, Unpaid
  <2> QED
    BY <2>1, <2>2
<1> QED
  BY <1>1, <1>2 DEF Unpaid, ConsumerPromise!InsertInvoice, ConsumerPromise!NewInvoice, NewInvoice

(* The keys that are taken are the same.                                      *)
LEMMA KeysAreSeen ==
    ASSUME NEW b PROVE ConsumerPromise!WithBooking(b) = Consumer!WithBooking(b)
BY DEF ConsumerPromise!WithBooking, Consumer!WithBooking, Unpaid

(* saveInvoice.                                                               *)
LEMMA SaveInvoiceIsSeen ==
    ASSUME Consumer!SaveInvoice
    PROVE  ConsumerPromise!SaveInvoice
<1>1. ConsumerPromise!KeyTaken <=> Consumer!KeyTaken
  BY KeysAreSeen DEF ConsumerPromise!KeyTaken, Consumer!KeyTaken
<1>2. ASSUME NEW d, Consumer!InsertInvoice(d, Consumer!NewInvoice(number, BookingOf[current]))
      PROVE  ConsumerPromise!InsertInvoice(d, ConsumerPromise!NewInvoice(number, BookingOf[current]))
  BY <1>2, InsertIsSeen DEF Consumer!InsertInvoice, Consumer!NewInvoice, InsertInvoice, NewInvoice
<1>3. UNCHANGED invoices => UNCHANGED Unpaid
  BY DEF Unpaid
<1> QED
  BY <1>1, <1>2, <1>3
  DEF Consumer!SaveInvoice, ConsumerPromise!SaveInvoice, Consumer!Storable, ConsumerPromise!Storable,
      Consumer!brokerVars, ConsumerPromise!brokerVars

(* The other steps of the loop.                                               *)
LEMMA LoopIsSeen ==
    ASSUME Consumer!LoopStep
    PROVE  ConsumerPromise!LoopStep
<1>1. UNCHANGED invoices => UNCHANGED Unpaid
  BY DEF Unpaid
<1> USE DEF Consumer!loopOnly, ConsumerPromise!loopOnly,
            Consumer!brokerVars, ConsumerPromise!brokerVars
<1>2. Consumer!StartConsuming => ConsumerPromise!StartConsuming
  BY <1>1 DEF Consumer!StartConsuming, ConsumerPromise!StartConsuming
<1>3. Consumer!TakeDelivery => ConsumerPromise!TakeDelivery
  BY <1>1 DEF Consumer!TakeDelivery, ConsumerPromise!TakeDelivery
<1>4. Consumer!EndLoop => ConsumerPromise!EndLoop
  BY <1>1 DEF Consumer!EndLoop, ConsumerPromise!EndLoop
<1>5. Consumer!UnmarshalRequest => ConsumerPromise!UnmarshalRequest
  BY <1>1 DEF Consumer!UnmarshalRequest, ConsumerPromise!UnmarshalRequest
<1>6. Consumer!GenerateInvoiceDoc => ConsumerPromise!GenerateInvoiceDoc
  BY <1>1 DEF Consumer!GenerateInvoiceDoc, ConsumerPromise!GenerateInvoiceDoc
<1>7. Consumer!PublishPaymentRequest => ConsumerPromise!PublishPaymentRequest
  BY <1>1 DEF Consumer!PublishPaymentRequest, ConsumerPromise!PublishPaymentRequest
<1>8. Consumer!SettleDelivery => ConsumerPromise!SettleDelivery
  BY <1>1 DEF Consumer!SettleDelivery, ConsumerPromise!SettleDelivery,
              Consumer!Verdict, ConsumerPromise!Verdict
<1> QED
  BY <1>2, <1>3, <1>4, <1>5, <1>6, <1>7, <1>8, SaveInvoiceIsSeen
  DEF Consumer!LoopStep, ConsumerPromise!LoopStep

(* The steps of the broker, of the library and of the process.                *)
LEMMA AroundIsSeen ==
    ASSUME \/ ConsumerEnvironment \/ Consumer!Restart
           \/ \E m \in Message : Consumer!Deliver(m)
    PROVE  ConsumerPromise!Next
<1>1. UNCHANGED invoices => UNCHANGED Unpaid
  BY DEF Unpaid
<1> USE DEF Consumer!loopVars, ConsumerPromise!loopVars, Consumer!brokerVars,
            ConsumerPromise!brokerVars, Consumer!TakenBack, ConsumerPromise!TakenBack
<1>2. ASSUME NEW m \in Message
      PROVE  /\ Consumer!Send(m) => ConsumerPromise!Send(m)
             /\ Consumer!Deliver(m) => ConsumerPromise!Deliver(m)
  BY <1>1, <1>2 DEF Consumer!Send, ConsumerPromise!Send, Consumer!Deliver, ConsumerPromise!Deliver,
                    Consumer!Consuming, ConsumerPromise!Consuming
<1>3. Consumer!LoseConnection => ConsumerPromise!LoseConnection
  BY <1>1 DEF Consumer!LoseConnection, ConsumerPromise!LoseConnection
<1>4. Consumer!Shutdown => ConsumerPromise!Shutdown
  BY <1>1 DEF Consumer!Shutdown, ConsumerPromise!Shutdown
<1>5. Consumer!CloseConnection => ConsumerPromise!CloseConnection
  BY <1>1 DEF Consumer!CloseConnection, ConsumerPromise!CloseConnection
<1>6. Consumer!Restart => ConsumerPromise!Restart
  BY <1>1 DEF Consumer!Restart, ConsumerPromise!Restart
<1> QED
  BY <1>2, <1>3, <1>4, <1>5, <1>6 DEF ConsumerEnvironment, ConsumerPromise!Next

(* A payment or a reissue is none of the consumer's steps.                    *)
LEMMA OthersAreUnseen ==
    ASSUME InvoicesOK, UNCHANGED consumerVars,
           UNCHANGED invoices \/ \E d \in DOMAIN invoices : SetPaid(d)
    PROVE  UNCHANGED ConsumerPromise!vars
<1>1. UNCHANGED Unpaid
  BY PaidIsUnseen DEF Unpaid
<1> QED
  BY <1>1 DEF consumerVars, ConsumerPromise!vars, ConsumerPromise!brokerVars, ConsumerPromise!loopVars

LEMMA ConsumerInit == Init => ConsumerPromise!Init
BY DEF Init, Consumer!Init, ConsumerPromise!Init, Unpaid

(* Each step of the whole.                                                    *)
LEMMA ConsumerStep == SimInv /\ [Next]_vars => [ConsumerPromise!Next]_(ConsumerPromise!vars)
<1> SUFFICES ASSUME SimInv, [Next]_vars PROVE [ConsumerPromise!Next]_(ConsumerPromise!vars)
  OBVIOUS
<1>1. CASE ConsumerEnvironment \/ Restart \/ \E m \in Message : ConsumerDelivery(m)
  BY <1>1, AroundIsSeen DEF Restart, ConsumerDelivery
<1>2. CASE ConsumerLoopStep
  BY <1>2, LoopIsSeen DEF ConsumerLoopStep, ConsumerPromise!Next
<1>3. ASSUME NEW r \in Request, PaymentArrives(r) \/ PaymentHandlerStep(r) \/ PaymentPostStep(r)
      PROVE  UNCHANGED ConsumerPromise!vars
  BY <1>3, PaymentWrites, OthersAreUnseen
  DEF SimInv, PaymentArrives, PaymentHandlerStep, PaymentPostStep
<1>4. ASSUME NEW q \in Query, ReissueStep(q)
      PROVE  UNCHANGED ConsumerPromise!vars
  BY <1>4, ReissueWrites, OthersAreUnseen DEF SimInv, ReissueStep
<1>5. CASE UNCHANGED vars
  BY <1>5, OthersAreUnseen DEF SimInv, vars
<1> QED
  BY <1>1, <1>2, <1>3, <1>4, <1>5 DEF Next

----------------------------------------------------------------------------
(***************************************************************************)
(* The payments in the whole: the consumer's Add is their AddInvoice, every *)
(* other step of the consumer and of the reissues is none of theirs.        *)
(***************************************************************************)

LEMMA PaymentsInit == Init => Payments!Init
<1> SUFFICES ASSUME Init PROVE Payments!Init
  OBVIOUS
<1>1. invoices \in [{} -> Invoice]
  BY DEF Init, Consumer!Init
<1>2. {} \in SUBSET Doc
  OBVIOUS
<1> QED
  BY <1>1, <1>2 DEF Init, Payments!Init, Payments!PaymentInit, Invoice, InvoiceStatus,
                    Payments!Invoice, Payments!InvoiceStatus

(* What an insertion by the consumer is to the other two.                     *)
LEMMA AddedAny ==
    ASSUME SimulatorAssumption, LoopHolds, Added
    PROVE  \E d \in Doc, n \in InvoiceNumber, b \in Booking : InsertInvoice(d, NewInvoice(n, b))
BY DEF SimulatorAssumption, LoopHolds, Added

(* The steps of a payment.                                                    *)
LEMMA OwnPaymentStep ==
    ASSUME NEW r \in Request, PaymentArrives(r) \/ PaymentHandlerStep(r) \/ PaymentPostStep(r)
    PROVE  Payments!Next
BY DEF PaymentArrives, PaymentHandlerStep, PaymentPostStep, PublishConfirmation,
       Payments!Next, Payments!PostStep

(* Steps that leave payments and invoices alone.                              *)
LEMMA NoPaymentStep ==
    ASSUME UNCHANGED <<invoices, paymentVars>>
    PROVE  UNCHANGED Payments!vars
BY DEF paymentVars, Payments!vars, Payments!storeVars, Payments!handlerVars, Payments!postVars

(* Each step of the whole.                                                    *)
LEMMA PaymentsStep ==
    SimulatorAssumption /\ SimInv /\ [Next]_vars => [Payments!Next]_(Payments!vars)
<1> SUFFICES ASSUME SimulatorAssumption, SimInv, [Next]_vars
             PROVE  [Payments!Next]_(Payments!vars)
  OBVIOUS
<1>1. CASE ConsumerEnvironment \/ \E m \in Message : ConsumerDelivery(m)
  BY <1>1, AroundWrites, NoPaymentStep DEF ConsumerEnvironment, ConsumerDelivery
<1>2. CASE ConsumerLoopStep
  <2>1. UNCHANGED paymentVars
    BY <1>2 DEF ConsumerLoopStep
  <2>2. CASE Added
    <3>1. \E d \in Doc, n \in InvoiceNumber, b \in Booking :
             Payments!InsertInvoice(d, Payments!NewInvoice(n, b))
      BY <2>2, AddedAny DEF SimInv, InsertInvoice, NewInvoice,
                            Payments!InsertInvoice, Payments!NewInvoice
    <3>2. Payments!AddInvoice
      BY <2>1, <3>1 DEF paymentVars, Payments!AddInvoice, Payments!handlerVars, Payments!postVars
    <3> QED
      BY <3>2 DEF Payments!Next
  <2> QED
    BY <1>2, <2>1, <2>2, LoopWrites, NoPaymentStep DEF ConsumerLoopStep
<1>3. CASE Restart
  <2>1. CASE Payments!Crash
    BY <2>1 DEF Payments!Next
  <2> QED
    BY <1>3, <2>1, AroundWrites, NoPaymentStep DEF Restart
<1>4. CASE \E q \in Query : ReissueStep(q)
  BY <1>4, ReissueWrites, NoPaymentStep DEF ReissueStep
<1>5. CASE UNCHANGED vars
  BY <1>5, NoPaymentStep DEF vars
<1> QED
  BY <1>1, <1>2, <1>3, <1>4, <1>5, OwnPaymentStep DEF Next

----------------------------------------------------------------------------
(***************************************************************************)
(* The reissues in the whole: Add and UpdateStatus are their OthersWrite.   *)
(***************************************************************************)

LEMMA ReissuesInit == Init => Reissues!Init
<1> SUFFICES ASSUME Init PROVE Reissues!Init
  OBVIOUS
<1>1. invoices \in [{} -> Invoice]
  BY DEF Init, Consumer!Init
<1>2. {} \in SUBSET Doc
  OBVIOUS
<1> QED
  BY <1>1, <1>2 DEF Init, Reissues!Init, Reissues!ReissueInit, Invoice, InvoiceStatus,
                    Reissues!Invoice, Reissues!InvoiceStatus

(* A write of an invoice, seen from the reissues.                             *)
LEMMA OthersWriteIt ==
    ASSUME SimulatorAssumption, LoopHolds, UNCHANGED reissueVars,
           Added \/ \E d \in DOMAIN invoices : SetPaid(d)
    PROVE  Reissues!OthersWrite
<1>1. Added => \E d \in Doc, n \in InvoiceNumber, b \in Booking :
                   Reissues!InsertInvoice(d, Reissues!NewInvoice(n, b))
  BY AddedAny DEF InsertInvoice, NewInvoice, Reissues!InsertInvoice, Reissues!NewInvoice
<1> QED
  BY <1>1 DEF Reissues!OthersWrite, SetPaid, Reissues!SetPaid, reissueVars, Reissues!reissueVars

(* Each step of the whole.                                                    *)
LEMMA ReissuesStep ==
    SimulatorAssumption /\ SimInv /\ [Next]_vars => [Reissues!Next]_(Reissues!vars)
<1> SUFFICES ASSUME SimulatorAssumption, SimInv, [Next]_vars
             PROVE  [Reissues!Next]_(Reissues!vars)
  OBVIOUS
<1>1. CASE UNCHANGED reissueVars
  <2>1. CASE UNCHANGED invoices
    BY <1>1, <2>1 DEF reissueVars, Reissues!vars, Reissues!reissueVars
  <2>2. CASE Added \/ \E d \in DOMAIN invoices : SetPaid(d)
    BY <1>1, <2>2, OthersWriteIt DEF SimInv, Reissues!Next
  <2> QED
    BY <2>1, <2>2, Writes DEF vars
<1>2. CASE Restart
  BY <1>2 DEF Restart, Reissues!Next
<1>3. CASE \E q \in Query : ReissueStep(q)
  BY <1>3 DEF ReissueStep, Reissues!Next
<1> QED
  BY <1>1, <1>2, <1>3
  DEF Next, vars, ConsumerEnvironment, ConsumerDelivery, ConsumerLoopStep, PaymentArrives,
      PaymentHandlerStep, PaymentPostStep

(* Each part keeps behaving as its own module says, whatever the others do to *)
(* the collection and whenever the process dies: saveInvoice and              *)
(* UpdateStatus are all that the handlers of one process do to each other.    *)
THEOREM WholeImplementsParts == Spec => ImplementsParts
BY SimulatorAssumption, Invariance, ConsumerInit, PaymentsInit, ReissuesInit, ConsumerStep,
   PaymentsStep, ReissuesStep, PTL
DEF Spec, ImplementsParts, ConsumerPromise!Spec, Payments!Spec, Reissues!Spec

----------------------------------------------------------------------------
(***************************************************************************)
(* What is proved of the parts is proved of the whole.  A part and the      *)
(* instance of its proofs are the same definitions twice.                   *)
(***************************************************************************)

(* The payments, as the proofs about them know them.                          *)
LEMMA PaymentsAreProved == Payments!Spec <=> PaymentsProved!Spec
<1>1. Payments!Init <=> PaymentsProved!Init
  BY
  DEF Payments!Init, PaymentsProved!Init, Payments!PaymentInit,
    PaymentsProved!PaymentInit, Payments!Invoice, PaymentsProved!Invoice,
    Payments!InvoiceStatus, PaymentsProved!InvoiceStatus
<1>2. [Payments!Next]_(Payments!vars) <=> [PaymentsProved!Next]_(PaymentsProved!vars)
  BY
  DEF Payments!Next, PaymentsProved!Next, Payments!ReceiveRequest,
    PaymentsProved!ReceiveRequest, Payments!HandlerStep, PaymentsProved!HandlerStep,
    Payments!PostStep, PaymentsProved!PostStep, Payments!AddInvoice,
    PaymentsProved!AddInvoice, Payments!Crash, PaymentsProved!Crash, Payments!ReadClock,
    PaymentsProved!ReadClock, Payments!LoadInvoice, PaymentsProved!LoadInvoice,
    Payments!UpdateInvoiceStatus, PaymentsProved!UpdateInvoiceStatus,
    Payments!BuildFailedResponse, PaymentsProved!BuildFailedResponse,
    Payments!BuildResponse, PaymentsProved!BuildResponse, Payments!SendAnswer,
    PaymentsProved!SendAnswer, Payments!SaveReceipt, PaymentsProved!SaveReceipt,
    Payments!FindForConfirmation, PaymentsProved!FindForConfirmation,
    Payments!PublishConfirmation, PaymentsProved!PublishConfirmation,
    Payments!InsertInvoice, PaymentsProved!InsertInvoice, Payments!NewInvoice,
    PaymentsProved!NewInvoice, Payments!GoTo, PaymentsProved!GoTo, Payments!Return,
    PaymentsProved!Return, Payments!PostGoTo, PaymentsProved!PostGoTo, Payments!Number,
    PaymentsProved!Number, Payments!WithNumber, PaymentsProved!WithNumber,
    Payments!IsPaid, PaymentsProved!IsPaid, Payments!SomePaid, PaymentsProved!SomePaid,
    Payments!SetPaid, PaymentsProved!SetPaid, Payments!ReceiptIsComplete,
    PaymentsProved!ReceiptIsComplete, Payments!ReceiptOf, PaymentsProved!ReceiptOf,
    Payments!InsertReceipt, PaymentsProved!InsertReceipt, Payments!InFlight,
    PaymentsProved!InFlight, Payments!Busy, PaymentsProved!Busy, Payments!PostRuns,
    PaymentsProved!PostRuns, Payments!storeVars, PaymentsProved!storeVars,
    Payments!handlerVars, PaymentsProved!handlerVars, Payments!postVars,
    PaymentsProved!postVars, Payments!vars, PaymentsProved!vars
<1> QED
  BY <1>1, <1>2, PTL DEF Payments!Spec, PaymentsProved!Spec

(* The reissues.                                                              *)
LEMMA ReissuesAreProved == Reissues!Spec <=> ReissuesProved!Spec
<1>1. Reissues!Init <=> ReissuesProved!Init
  BY
  DEF Reissues!Init, ReissuesProved!Init, Reissues!ReissueInit,
    ReissuesProved!ReissueInit, Reissues!Invoice, ReissuesProved!Invoice,
    Reissues!InvoiceStatus, ReissuesProved!InvoiceStatus
<1>2. [Reissues!Next]_(Reissues!vars) <=> [ReissuesProved!Next]_(ReissuesProved!vars)
  BY
  DEF Reissues!Next, ReissuesProved!Next, Reissues!ReceiveQuery,
    ReissuesProved!ReceiveQuery, Reissues!QueryStep, ReissuesProved!QueryStep,
    Reissues!FindInvoice, ReissuesProved!FindInvoice, Reissues!SendReply,
    ReissuesProved!SendReply, Reissues!OthersWrite, ReissuesProved!OthersWrite,
    Reissues!CutOff, ReissuesProved!CutOff, Reissues!OfferInvoice,
    ReissuesProved!OfferInvoice, Reissues!Reply, ReissuesProved!Reply,
    Reissues!PaidInvoices, ReissuesProved!PaidInvoices, Reissues!WithBooking,
    ReissuesProved!WithBooking, Reissues!IsPaid, ReissuesProved!IsPaid,
    Reissues!SetPaid, ReissuesProved!SetPaid, Reissues!InsertInvoice,
    ReissuesProved!InsertInvoice, Reissues!NewInvoice, ReissuesProved!NewInvoice,
    Reissues!reissueVars, ReissuesProved!reissueVars, Reissues!vars, ReissuesProved!vars
<1> QED
  BY <1>1, <1>2, PTL DEF Reissues!Spec, ReissuesProved!Spec

(* The consumer.                                                              *)
LEMMA ConsumerIsProved == ConsumerPromise!Spec <=> ConsumerProved!Spec
<1>1. ConsumerPromise!Init <=> ConsumerProved!Init
  BY DEF ConsumerPromise!Init, ConsumerProved!Init
<1>2. [ConsumerPromise!Next]_(ConsumerPromise!vars) <=> [ConsumerProved!Next]_(ConsumerProved!vars)
  BY
  DEF ConsumerPromise!Next, ConsumerProved!Next, ConsumerPromise!Send,
    ConsumerProved!Send, ConsumerPromise!Deliver, ConsumerProved!Deliver,
    ConsumerPromise!LoopStep, ConsumerProved!LoopStep, ConsumerPromise!LoseConnection,
    ConsumerProved!LoseConnection, ConsumerPromise!Shutdown, ConsumerProved!Shutdown,
    ConsumerPromise!CloseConnection, ConsumerProved!CloseConnection,
    ConsumerPromise!Restart, ConsumerProved!Restart, ConsumerPromise!Consuming,
    ConsumerProved!Consuming, ConsumerPromise!TakenBack, ConsumerProved!TakenBack,
    ConsumerPromise!loopOnly, ConsumerProved!loopOnly, ConsumerPromise!StartConsuming,
    ConsumerProved!StartConsuming, ConsumerPromise!TakeDelivery,
    ConsumerProved!TakeDelivery, ConsumerPromise!EndLoop, ConsumerProved!EndLoop,
    ConsumerPromise!UnmarshalRequest, ConsumerProved!UnmarshalRequest,
    ConsumerPromise!GenerateInvoiceDoc, ConsumerProved!GenerateInvoiceDoc,
    ConsumerPromise!KeyTaken, ConsumerProved!KeyTaken, ConsumerPromise!Storable,
    ConsumerProved!Storable, ConsumerPromise!SaveInvoice, ConsumerProved!SaveInvoice,
    ConsumerPromise!PublishPaymentRequest, ConsumerProved!PublishPaymentRequest,
    ConsumerPromise!Verdict, ConsumerProved!Verdict, ConsumerPromise!SettleDelivery,
    ConsumerProved!SettleDelivery, ConsumerPromise!WithBooking,
    ConsumerProved!WithBooking, ConsumerPromise!InsertInvoice,
    ConsumerProved!InsertInvoice, ConsumerPromise!NewInvoice, ConsumerProved!NewInvoice,
    ConsumerPromise!loopVars, ConsumerProved!loopVars, ConsumerPromise!brokerVars,
    ConsumerProved!brokerVars, ConsumerPromise!vars, ConsumerProved!vars
<1> QED
  BY <1>1, <1>2, PTL DEF ConsumerPromise!Spec, ConsumerProved!Spec

(* What the constants of a payment have to be.                                *)
LEMMA PaymentConstants ==
    ASSUME SimulatorAssumption
    PROVE  /\ Cards \subseteq PaymentsProved!CardKind
           /\ (Faults \ {"consume", "connection", "shutdown"}) \cup {"publish", "crash"}
              \subseteq PaymentsProved!FaultKind
           /\ FailChance \in Nat
           /\ None \notin ReceiptNumber \cup Booking
BY DEF SimulatorAssumption, Payments!CardKind, PaymentsProved!CardKind, Payments!FaultKind,
       PaymentsProved!FaultKind, Consumer!FaultKind

(* The inductive invariant of the payments, in the whole.                     *)
LEMMA PaymentsInvariance == Spec => []PaymentsProved!IInv
<1>1. PaymentsProved!Spec => []PaymentsProved!IInv
  BY SimulatorAssumption, PaymentConstants, PaymentsProved!Invariance
<1> QED
  BY <1>1, WholeImplementsParts, PaymentsAreProved, PTL DEF ImplementsParts

(* Whatever the consumer stores in between, and whenever it goes down with    *)
(* the process: no receipt without a paid invoice and a charged card, no      *)
(* confirmation without its receipt, no second charge of a paid number, no    *)
(* trace of a payment that was refused.                                       *)
THEOREM PaymentsKeepTheirPromise ==
    Spec => [](/\ Payments!ReceiptBacked
               /\ Payments!ConfirmationHasReceipt
               /\ Payments!ConfirmedBookingIsPaid
               /\ Payments!PaidInvoiceIsNotChargedAgain
               /\ Payments!OnlySuccessLeavesTrace)
<1>1. /\ PaymentsProved!Spec => []PaymentsProved!ReceiptBacked
      /\ PaymentsProved!Spec => []PaymentsProved!ConfirmationHasReceipt
      /\ PaymentsProved!Spec => []PaymentsProved!ConfirmedBookingIsPaid
      /\ PaymentsProved!Spec => []PaymentsProved!PaidInvoiceIsNotChargedAgain
      /\ PaymentsProved!Spec => []PaymentsProved!OnlySuccessLeavesTrace
  BY SimulatorAssumption, PaymentConstants, PaymentsProved!ReceiptsAreBacked,
     PaymentsProved!ConfirmationsHaveReceipts, PaymentsProved!ConfirmedBookingsArePaid,
     PaymentsProved!PaidInvoicesAreNotChargedAgain, PaymentsProved!OnlySuccessesLeaveTraces
<1>2. /\ PaymentsProved!ReceiptBacked => Payments!ReceiptBacked
      /\ PaymentsProved!ConfirmationHasReceipt => Payments!ConfirmationHasReceipt
      /\ PaymentsProved!ConfirmedBookingIsPaid => Payments!ConfirmedBookingIsPaid
      /\ PaymentsProved!PaidInvoiceIsNotChargedAgain => Payments!PaidInvoiceIsNotChargedAgain
      /\ PaymentsProved!OnlySuccessLeavesTrace => Payments!OnlySuccessLeavesTrace
  BY
  DEF PaymentsProved!ReceiptBacked, Payments!ReceiptBacked,
      PaymentsProved!ConfirmationHasReceipt, Payments!ConfirmationHasReceipt,
      PaymentsProved!ConfirmedBookingIsPaid, Payments!ConfirmedBookingIsPaid,
      PaymentsProved!PaidInvoiceIsNotChargedAgain, Payments!PaidInvoiceIsNotChargedAgain,
      PaymentsProved!OnlySuccessLeavesTrace, Payments!OnlySuccessLeavesTrace,
      PaymentsProved!SomePaid, Payments!SomePaid, PaymentsProved!WithNumber, Payments!WithNumber,
      PaymentsProved!IsPaid, Payments!IsPaid, PaymentsProved!UniqueNumbers, Payments!UniqueNumbers,
      PaymentsProved!Number, Payments!Number, PaymentsProved!Refusal, Payments!Refusal
<1> QED
  BY <1>1, <1>2, WholeImplementsParts, PaymentsAreProved, PTL DEF ImplementsParts

(* The promise of InvoiceLifecycle, as the payments and as their proofs state *)
(* it.                                                                        *)
LEMMA LifecycleIsProved == Payments!ImplementsLifecycle <=> PaymentsProved!ImplementsLifecycle
<1>1. Payments!NumberStatus = PaymentsProved!NumberStatus
  BY DEF Payments!NumberStatus, PaymentsProved!NumberStatus, Payments!SomePaid,
         PaymentsProved!SomePaid, Payments!WithNumber, PaymentsProved!WithNumber,
         Payments!IsPaid, PaymentsProved!IsPaid
<1>2. Payments!Lifecycle!Init <=> PaymentsProved!Lifecycle!Init
  BY <1>1 DEF Payments!Lifecycle!Init, PaymentsProved!Lifecycle!Init
<1>3. [Payments!Lifecycle!Next]_(Payments!Lifecycle!vars)
      <=> [PaymentsProved!Lifecycle!Next]_(PaymentsProved!Lifecycle!vars)
  <2>1. Payments!NumberStatus' = PaymentsProved!NumberStatus'
    BY DEF Payments!NumberStatus, PaymentsProved!NumberStatus, Payments!SomePaid,
           PaymentsProved!SomePaid, Payments!WithNumber, PaymentsProved!WithNumber,
           Payments!IsPaid, PaymentsProved!IsPaid
  <2> QED
    BY <1>1, <2>1
    DEF Payments!Lifecycle!Next, PaymentsProved!Lifecycle!Next,
        Payments!Lifecycle!Issue, PaymentsProved!Lifecycle!Issue,
        Payments!Lifecycle!Settle, PaymentsProved!Lifecycle!Settle,
        Payments!Lifecycle!Record, PaymentsProved!Lifecycle!Record,
        Payments!Lifecycle!Confirm, PaymentsProved!Lifecycle!Confirm,
        Payments!Lifecycle!Payment, PaymentsProved!Lifecycle!Payment,
        Payments!Lifecycle!vars, PaymentsProved!Lifecycle!vars
<1> QED
  BY <1>2, <1>3, PTL
  DEF Payments!ImplementsLifecycle, PaymentsProved!ImplementsLifecycle,
      Payments!Lifecycle!Spec, PaymentsProved!Lifecycle!Spec

(* In the whole, too, a number once paid stays paid, a payment is recorded    *)
(* once and against a paid number, and only a recorded one is confirmed.      *)
THEOREM WholeFollowsLifecycle == Spec => Payments!ImplementsLifecycle
<1>1. PaymentsProved!Spec => PaymentsProved!ImplementsLifecycle
  BY SimulatorAssumption, PaymentConstants, PaymentsProved!PaymentsFollowLifecycle
<1> QED
  BY <1>1, LifecycleIsProved, WholeImplementsParts, PaymentsAreProved, PTL DEF ImplementsParts

(* sendConfirmationMessage confirms a booking the platform has asked an       *)
(* invoice for, under the number that invoice was given.                      *)
THEOREM ConfirmedWereBilled == Spec => []ConfirmedWasBilled
<1>1. ASSUME PaymentsProved!IInv, SimInv, NEW c \in confirmations
      PROVE  \E s \in saved : BookingOf[s.message] = c.booking /\ invoices[s.doc].number = c.invoice
  <2>1. c.id \in Request
    BY <1>1 DEF PaymentsProved!IInv, PaymentsProved!TypeOK, PaymentsProved!Confirmation
  <2>2. PaymentsProved!WorkInv(c.id)
    BY <1>1, <2>1 DEF PaymentsProved!IInv, PaymentsProved!RequestInv
  <2>3. PaymentsProved!HasBooking(c.invoice, c.booking)
    BY <1>1, <2>2 DEF PaymentsProved!WorkInv
  <2>4. PICK d \in DOMAIN invoices : invoices[d].number = c.invoice /\ invoices[d].booking = c.booking
    BY <2>3 DEF PaymentsProved!HasBooking, PaymentsProved!WithNumber
  <2>5. PICK s \in saved : s.doc = d /\ BookingOf[s.message] = invoices[d].booking
    BY <1>1 DEF SimInv, Billed
  <2> QED
    BY <2>4, <2>5
<1>2. PaymentsProved!IInv /\ SimInv => ConfirmedWasBilled
  BY <1>1 DEF ConfirmedWasBilled
<1> QED
  BY <1>2, Invariance, PaymentsInvariance, PTL

(* Under a unique index a booking has one invoice, and once it is paid the    *)
(* guest is not asked for the payment again.                                  *)
THEOREM PaidAreNotReissued == ASSUME UniqueKeys PROVE Spec => []DoesNotReissuePaid
<1>1. None \notin InvoiceNumber /\ Blank \notin Booking
  BY SimulatorAssumption DEF SimulatorAssumption
<1>2. ReissuesProved!Spec =>
          [](ReissuesProved!UniqueBookings =>
                \A q \in Query : paidOnArrival[q] # {} => offer[q] = None)
  BY <1>1, ReissuesProved!PaidBookingsAreNotReissued
<1>3. SimInv => ReissuesProved!UniqueBookings
  BY DEF SimInv, UniqueBookings, ReissuesProved!UniqueBookings
<1> QED
  BY <1>2, <1>3, WholeImplementsParts, ReissuesAreProved, Invariance, PTL
  DEF ImplementsParts, DoesNotReissuePaid

(* Reissue tells the truth while payments and the consumer go on writing.     *)
THEOREM ReissuesKeepTheirPromise == Spec => [](Reissues!OfferWasOpen /\ Reissues!RefusalIsRight)
<1>1. None \notin InvoiceNumber /\ Blank \notin Booking
  BY SimulatorAssumption DEF SimulatorAssumption
<1>2. /\ ReissuesProved!Spec => []ReissuesProved!OfferWasOpen
      /\ ReissuesProved!Spec => []ReissuesProved!RefusalIsRight
  BY <1>1, ReissuesProved!OffersWereOpen, ReissuesProved!RefusalsAreRight
<1>3. /\ ReissuesProved!OfferWasOpen => Reissues!OfferWasOpen
      /\ ReissuesProved!RefusalIsRight => Reissues!RefusalIsRight
  BY DEF ReissuesProved!OfferWasOpen, Reissues!OfferWasOpen,
         ReissuesProved!RefusalIsRight, Reissues!RefusalIsRight,
         ReissuesProved!PaidInvoices, Reissues!PaidInvoices,
         ReissuesProved!WithBooking, Reissues!WithBooking, ReissuesProved!IsPaid, Reissues!IsPaid
<1> QED
  BY <1>2, <1>3, WholeImplementsParts, ReissuesAreProved, PTL DEF ImplementsParts

(* What the constants of the consumer have to be.                             *)
LEMMA ConsumerConstants ==
    ASSUME SimulatorAssumption
    PROVE  /\ KindOf \in [Message -> ConsumerProved!MessageKind]
           /\ BookingOf \in [Message -> Booking]
           /\ UniqueKeys \in BOOLEAN
           /\ Faults \ {"find", "update", "id"} \subseteq ConsumerProved!FaultKind
           /\ None \notin Message \cup InvoiceNumber
BY DEF SimulatorAssumption, Consumer!MessageKind, ConsumerProved!MessageKind, Payments!FaultKind,
       Consumer!FaultKind, ConsumerProved!FaultKind

(* The inductive invariant of the consumer, in the whole.                     *)
LEMMA ConsumerInvariance == Spec => []ConsumerProved!IInv
<1>1. ConsumerProved!Spec => []ConsumerProved!IInv
  BY SimulatorAssumption, ConsumerConstants, ConsumerProved!Invariance
<1> QED
  BY <1>1, WholeImplementsParts, ConsumerIsProved, PTL DEF ImplementsParts

(* The consumer acknowledges what is stored and asked for, asks for nothing   *)
(* that is not stored, and forgets no delivery, over the collection that the  *)
(* payments write.                                                            *)
THEOREM ConsumerKeepsItsPromise ==
    Spec => [](Consumer!AckedIsDone /\ Consumer!RequestHasInvoice /\ Consumer!HeldUntilSettled)
<1>1. ConsumerProved!Spec => []ConsumerProved!HeldUntilSettled
  BY SimulatorAssumption, ConsumerConstants, ConsumerProved!DeliveriesAreHeld
<1>2. ConsumerProved!HeldUntilSettled => Consumer!HeldUntilSettled
  BY DEF ConsumerProved!HeldUntilSettled, Consumer!HeldUntilSettled
<1>3. ASSUME InvoicesOK, NEW m, NEW n, ConsumerProved!Stored(m, n)
      PROVE  \E s \in saved : /\ s.message = m
                              /\ invoices[s.doc].number = n
                              /\ invoices[s.doc].booking = BookingOf[m]
  BY <1>3 DEF ConsumerProved!Stored, Unpaid, InvoicesOK, Invoice
<1>4. SimInv /\ ConsumerProved!IInv => Consumer!RequestHasInvoice
  BY <1>3 DEF SimInv, ConsumerProved!IInv, ConsumerProved!RequestsInv, Consumer!RequestHasInvoice
<1>5. SimInv /\ ConsumerProved!IInv => Consumer!AckedIsDone
  BY <1>3 DEF SimInv, ConsumerProved!IInv, ConsumerProved!AckedInv, ConsumerProved!Asked,
              Consumer!AckedIsDone
<1> QED
  BY <1>1, <1>2, <1>4, <1>5, Invariance, ConsumerInvariance, WholeImplementsParts, ConsumerIsProved, PTL
  DEF ImplementsParts

(* No booking is forgotten and none is billed twice: a valid message that has *)
(* left the queue has one invoice of its booking, and only one.               *)
OneInvoiceEach ==
    \A m \in Message : at[m] \in {"acked", "dropped"} /\ KindOf[m] = "valid" =>
        \E d \in DOMAIN invoices : WithBooking(BookingOf[m]) = {d}

(* So it is under a unique index, while the clock answers and nobody stops    *)
(* the process, whatever fails, is redelivered or restarted, and whatever the *)
(* payments do to the collection (invoice_service.go:84-124).                 *)
THEOREM OneInvoiceForEach ==
    ASSUME UniqueKeys, "clock" \notin Faults, "shutdown" \notin Faults
    PROVE  Spec => []OneInvoiceEach
<1>1. ConsumerProved!Spec => []ConsumerProved!NoBookingIsLost
  <2>1. ConsumerProved!ClockAnswers /\ "shutdown" \notin Faults \ {"find", "update", "id"}
    BY DEF ConsumerProved!ClockAnswers
  <2> QED
    BY <2>1, SimulatorAssumption, ConsumerConstants, ConsumerProved!NoBookingsAreLost
<1>2. ASSUME ConsumerProved!NoBookingIsLost, SimInv, NEW m \in Message,
             at[m] \in {"acked", "dropped"}, KindOf[m] = "valid"
      PROVE  \E d \in DOMAIN invoices : WithBooking(BookingOf[m]) = {d}
  <2>1. PICK d \in DOMAIN invoices : invoices[d].booking = BookingOf[m]
    <3>1. ConsumerProved!WithBooking(BookingOf[m]) # {}
      BY <1>2 DEF ConsumerProved!NoBookingIsLost
    <3>2. ConsumerProved!WithBooking(BookingOf[m]) = WithBooking(BookingOf[m])
      BY <1>2 DEF ConsumerProved!WithBooking, WithBooking, Unpaid, SimInv, InvoicesOK, Invoice
    <3> QED
      BY <3>1, <3>2 DEF WithBooking
  <2>2. \A e \in DOMAIN invoices : invoices[e].booking = BookingOf[m] => e = d
    BY <1>2, <2>1 DEF SimInv, UniqueBookings
  <2> QED
    BY <2>1, <2>2 DEF WithBooking
<1>3. ConsumerProved!NoBookingIsLost /\ SimInv => OneInvoiceEach
  BY <1>2 DEF OneInvoiceEach
<1> QED
  BY <1>1, <1>3, Invariance, WholeImplementsParts, ConsumerIsProved, PTL DEF ImplementsParts

----------------------------------------------------------------------------
(***************************************************************************)
(* The whole implements BookingLifecycle.                                   *)
(***************************************************************************)

(* The reissues' invariant in the whole.                                      *)
LEMMA ReissuesInvariance == Spec => []ReissuesProved!Inv
<1>1. None \notin InvoiceNumber /\ Blank \notin Booking
  BY SimulatorAssumption DEF SimulatorAssumption
<1>2. ReissuesProved!Spec => []ReissuesProved!Inv
  BY <1>1, ReissuesProved!Invariance
<1> QED
  BY <1>2, WholeImplementsParts, ReissuesAreProved, PTL DEF ImplementsParts

(* What the parts know, taken together.                                       *)
AllInv == SimInv /\ ConsumerProved!IInv /\ PaymentsProved!IInv /\ ReissuesProved!Inv

(* A document is billed, and paid ones are settled.                           *)
Bills       == {BillOf(d) : d \in DOMAIN invoices}
PaidBills   == {BillOf(d) : d \in {e \in DOMAIN invoices : IsPaid(e)}}
AskedBills  == {[number |-> q.number, booking |-> q.booking] : q \in requests}
OfferBills  == {[number |-> offer[q], booking |-> asked[q]] : q \in Offered}
ToldBills   == {[id |-> c.id, bill |-> [number |-> c.invoice, booking |-> c.booking]] :
                   c \in confirmations}

(* Steps that touch none of what is billed, asked, settled or confirmed.      *)
LEMMA BookingsStutter ==
    ASSUME UNCHANGED <<invoices, requests, asked, offer, confirmations>>
    PROVE  UNCHANGED Bookings!vars
BY DEF Bookings!vars, BillOf, IsPaid, Offered

(* The bill of a stored document is a bill.                                   *)
LEMMA BillsAreBills ==
    ASSUME InvoicesOK, NEW d \in DOMAIN invoices
    PROVE  BillOf(d) \in Bookings!Bill /\ BillOf(d) \in Bills
BY DEF InvoicesOK, Invoice, BillOf, Bookings!Bill, Bills

(* Add makes a bill; under a unique index the first one of its booking.       *)
LEMMA AddIssues ==
    ASSUME SimulatorAssumption, SimInv, Added, UNCHANGED <<requests, asked, offer, confirmations>>
    PROVE  \E b \in Bookings!Bill : Bookings!Issue(b)
<1>1. PICK d \in Doc : /\ InsertInvoice(d, NewInvoice(number, BookingOf[current]))
                       /\ UniqueKeys => WithBooking(BookingOf[current]) = {}
  BY DEF Added
<1>b. PICK b : b = [number |-> number, booking |-> BookingOf[current]]
  OBVIOUS
<1>2. b \in Bookings!Bill /\ b.booking = BookingOf[current]
  BY <1>b DEF Added, SimInv, LoopHolds, SimulatorAssumption, Bookings!Bill
<1>3. /\ DOMAIN invoices' = DOMAIN invoices \cup {d}
      /\ d \notin DOMAIN invoices
      /\ BillOf(d)' = b
      /\ invoices'[d].status = "pending"
      /\ \A e \in DOMAIN invoices : invoices'[e] = invoices[e]
  BY <1>1, <1>b DEF InsertInvoice, NewInvoice, BillOf
<1>4. \A e \in DOMAIN invoices : BillOf(e)' = BillOf(e) /\ (IsPaid(e)' <=> IsPaid(e))
  BY <1>3 DEF BillOf, IsPaid
<1>5. Bills' = Bills \cup {b}
  BY <1>3, <1>4 DEF Bills
<1>6. PaidBills' = PaidBills
  BY <1>3, <1>4 DEF PaidBills, IsPaid
<1>7. UniqueKeys => \A a \in Bills : a.booking # b.booking
  BY <1>1, <1>2 DEF Bills, BillOf, WithBooking
<1>8. Bookings!Issue(b)
  BY <1>5, <1>6, <1>7 DEF Bookings!Issue, Bills, PaidBills, Offered
<1> QED
  BY <1>2, <1>8

(* UpdateStatus settles the bill of the document it matches.                  *)
LEMMA PaidSettles ==
    ASSUME InvoicesOK, NEW d \in DOMAIN invoices, SetPaid(d),
           UNCHANGED <<requests, asked, offer, confirmations>>
    PROVE  \E b \in Bookings!Bill : Bookings!Settle(b)
<1>1. /\ DOMAIN invoices' = DOMAIN invoices
      /\ \A e \in DOMAIN invoices :
            /\ BillOf(e)' = BillOf(e)
            /\ IsPaid(e)' <=> IsPaid(e) \/ e = d
  BY DEF SetPaid, InvoicesOK, Invoice, BillOf, IsPaid
<1>2. Bills' = Bills
  BY <1>1 DEF Bills
<1>3. PICK b : b = BillOf(d)
  OBVIOUS
<1>4. PaidBills' = PaidBills \cup {b}
  BY <1>1, <1>3 DEF PaidBills
<1>5. b \in Bookings!Bill /\ b \in Bills
  BY <1>3, BillsAreBills
<1>6. Bookings!Settle(b)
  BY <1>2, <1>4, <1>5 DEF Bookings!Settle, Bills, PaidBills, Offered
<1> QED
  BY <1>5, <1>6

(* The consumer asks for the payment of what it has stored.                   *)
LEMMA PublishAsks ==
    ASSUME AllInv, Consumer!PublishPaymentRequest, UNCHANGED <<asked, offer, confirmations>>
    PROVE  \/ \E b \in Bookings!Bill : Bookings!Ask(b)
           \/ UNCHANGED Bookings!vars
<1>r. PICK r : r = [message |-> current, number |-> number, booking |-> BookingOf[current]]
  OBVIOUS
<1>b. PICK b : b = [number |-> number, booking |-> BookingOf[current]]
  OBVIOUS
<1>1. CASE UNCHANGED requests
  BY <1>1, BookingsStutter DEF Consumer!PublishPaymentRequest
<1>2. CASE requests' = requests \cup {r}
  <2>1. loop = "publish" /\ UNCHANGED invoices
    BY DEF Consumer!PublishPaymentRequest
  <2>2. ConsumerProved!Stored(current, number)
    BY <2>1 DEF AllInv, ConsumerProved!IInv, ConsumerProved!LoopInv
  <2>3. PICK d \in DOMAIN invoices : BillOf(d) = b
    BY <1>b, <2>2 DEF AllInv, SimInv, InvoicesOK, Invoice, ConsumerProved!Stored, Unpaid, BillOf
  <2>4. b \in Bookings!Bill /\ b \in Bills
    BY <2>3, BillsAreBills DEF AllInv, SimInv
  <2>5. [number |-> r.number, booking |-> r.booking] = b
    BY <1>r, <1>b
  <2>6. AskedBills' = AskedBills \cup {b}
    BY <1>2, <2>5 DEF AskedBills
  <2>7. Bookings!Ask(b)
    BY <2>1, <2>4, <2>6 DEF Bookings!Ask, Bills, AskedBills, BillOf, IsPaid, Offered
  <2> QED
    BY <2>4, <2>7
<1> QED
  BY <1>1, <1>2, <1>r DEF Consumer!PublishPaymentRequest

(* A step of the loop.                                                        *)
LEMMA LoopBooks ==
    ASSUME SimulatorAssumption, AllInv, Consumer!LoopStep, UNCHANGED <<asked, offer, confirmations>>
    PROVE  \/ \E b \in Bookings!Bill : Bookings!Issue(b) \/ Bookings!Ask(b)
           \/ UNCHANGED Bookings!vars
<1>1. CASE Consumer!SaveInvoice
  <2>1. UNCHANGED requests
    BY <1>1 DEF Consumer!SaveInvoice
  <2> QED
    BY <1>1, <2>1, SaveInvoiceWrites, AddIssues, BookingsStutter DEF AllInv
<1>2. CASE Consumer!PublishPaymentRequest
  BY <1>2, PublishAsks
<1>3. CASE ~Consumer!SaveInvoice /\ ~Consumer!PublishPaymentRequest
  <2>1. UNCHANGED <<invoices, requests>>
    BY <1>3
    DEF Consumer!LoopStep, Consumer!StartConsuming, Consumer!TakeDelivery, Consumer!EndLoop,
        Consumer!UnmarshalRequest, Consumer!GenerateInvoiceDoc, Consumer!SettleDelivery,
        Consumer!loopOnly
  <2> QED
    BY <2>1, BookingsStutter
<1> QED
  BY <1>1, <1>2, <1>3

(* sendConfirmationMessage tells of a payment once, of a bill whose number is *)
(* paid.                                                                      *)
LEMMA PublishConfirms ==
    ASSUME AllInv, NEW r \in Request, Payments!PublishConfirmation(r),
           UNCHANGED <<requests, asked, offer>>
    PROVE  \/ \E b \in Bookings!Bill : Bookings!Confirm(r, b)
           \/ UNCHANGED Bookings!vars
<1>c. PICK c : c = [id |-> r, receipt |-> receiptNo[r], invoice |-> input[r].number,
                    booking |-> readBooking[r]]
  OBVIOUS
<1>b. PICK b : b = [number |-> input[r].number, booking |-> readBooking[r]]
  OBVIOUS
<1>1. /\ post[r] = "publish" /\ UNCHANGED invoices
      /\ confirmations' = confirmations \cup {c} \/ UNCHANGED confirmations
  BY <1>c DEF Payments!PublishConfirmation, Payments!Number
<1>2. CASE UNCHANGED confirmations
  BY <1>1, <1>2, BookingsStutter
<1>3. CASE confirmations' = confirmations \cup {c}
  <2>1. PaymentsProved!ControlInv(r) /\ PaymentsProved!WorkInv(r)
    BY DEF AllInv, PaymentsProved!IInv, PaymentsProved!RequestInv
  <2>2. PICK d \in DOMAIN invoices : BillOf(d) = b
    BY <1>1, <1>b, <2>1
    DEF PaymentsProved!WorkInv, PaymentsProved!HasBooking, PaymentsProved!WithNumber,
        PaymentsProved!Number, BillOf
  <2>3. b \in Bookings!Bill /\ b \in Bills
    BY <2>2, BillsAreBills DEF AllInv, SimInv
  <2>4. PICK e \in DOMAIN invoices : IsPaid(e) /\ invoices[e].number = input[r].number
    BY <1>1, <2>1
    DEF PaymentsProved!ControlInv, PaymentsProved!SomePaid, PaymentsProved!WithNumber,
        PaymentsProved!IsPaid, PaymentsProved!Number, IsPaid
  <2>5. \E p \in PaidBills : p.number = b.number
    <3>1. BillOf(e) \in PaidBills
      BY <2>4 DEF PaidBills
    <3>2. BillOf(e).number = b.number
      BY <1>b, <2>4 DEF BillOf
    <3> QED
      BY <3>1, <3>2
  <2>6. \A t \in ToldBills : t.id # r
    BY <1>1, <2>1 DEF ToldBills, PaymentsProved!WorkInv
  <2>7. [id |-> c.id, bill |-> [number |-> c.invoice, booking |-> c.booking]] = [id |-> r, bill |-> b]
    BY <1>c, <1>b
  <2>8. ToldBills' = ToldBills \cup {[id |-> r, bill |-> b]}
    BY <1>3, <2>7 DEF ToldBills
  <2>9. /\ Bills' = Bills /\ PaidBills' = PaidBills /\ AskedBills' = AskedBills
        /\ OfferBills' = OfferBills
    BY <1>1 DEF Bills, PaidBills, AskedBills, OfferBills, BillOf, IsPaid, Offered
  <2>10. Bookings!Confirm(r, b)
    BY <2>3, <2>5, <2>6, <2>8, <2>9
    DEF Bookings!Confirm, Bills, PaidBills, AskedBills, OfferBills, ToldBills
  <2> QED
    BY <2>3, <2>10
<1> QED
  BY <1>1, <1>2, <1>3

(* A step of a payment.                                                       *)
LEMMA PaymentBooks ==
    ASSUME AllInv, NEW r \in Request, UNCHANGED <<requests, asked, offer>>,
           \/ PaymentArrives(r) \/ PaymentHandlerStep(r) \/ PaymentPostStep(r)
    PROVE  \/ \E b \in Bookings!Bill : Bookings!Settle(b) \/ Bookings!Confirm(r, b)
           \/ UNCHANGED Bookings!vars
<1>1. CASE PublishConfirmation(r)
  BY <1>1, PublishConfirms DEF PublishConfirmation
<1>2. CASE ~PublishConfirmation(r)
  <2>1. UNCHANGED confirmations
    BY <1>2
    DEF PaymentArrives, PaymentHandlerStep, PaymentPostStep, Payments!ReceiveRequest,
        Payments!HandlerStep, Payments!ReadClock, Payments!LoadInvoice,
        Payments!UpdateInvoiceStatus, Payments!BuildFailedResponse, Payments!BuildResponse,
        Payments!SendAnswer, Payments!SaveReceipt, Payments!FindForConfirmation,
        Payments!storeVars
  <2> QED
    BY <2>1, PaymentWrites, PaidSettles, BookingsStutter DEF AllInv, SimInv
<1> QED
  BY <1>1, <1>2

(* FindInvoice offers a stored invoice of the booking it was asked about, and *)
(* an offer that was made is made for good.                                   *)
LEMMA FindInvoiceAsks ==
    ASSUME AllInv, NEW q \in Query, Reissues!FindInvoice(q), UNCHANGED <<requests, confirmations>>
    PROVE  \/ \E b \in Bookings!Bill : Bookings!Ask(b)
           \/ UNCHANGED Bookings!vars
<1>1. UNCHANGED <<invoices, asked>> /\ step[q] = "find"
  BY DEF Reissues!FindInvoice
<1>2. CASE UNCHANGED offer
  BY <1>1, <1>2, BookingsStutter
<1>3. CASE ~UNCHANGED offer
  <2>1. PICK d \in DOMAIN invoices : /\ invoices[d].booking = asked[q]
                                     /\ offer' = [offer EXCEPT ![q] = invoices[d].number]
    BY <1>3 DEF Reissues!FindInvoice, Reissues!OfferInvoice, Reissues!WithBooking
  <2>b. PICK b : b = BillOf(d)
    OBVIOUS
  <2>2. b \in Bookings!Bill /\ b \in Bills
    BY <2>b, BillsAreBills DEF AllInv, SimInv
  <2>3. offer \in [Query -> InvoiceNumber \cup {None}] /\ offer[q] = None
    BY <1>1 DEF AllInv, ReissuesProved!Inv, ReissuesProved!TypeOK, ReissuesProved!Unanswered
  <2>4. /\ \A p \in Query : p # q => offer'[p] = offer[p]
        /\ offer'[q] = b.number /\ asked[q] = b.booking
    BY <2>b, <2>1, <2>3 DEF BillOf
  <2>5. b.number # None /\ b = [number |-> b.number, booking |-> b.booking]
    BY <2>2, SimulatorAssumption DEF SimulatorAssumption, Bookings!Bill
  <2>6. Offered' = Offered \cup {q} /\ q \notin Offered
    BY <2>3, <2>4, <2>5 DEF Offered
  <2>7. OfferBills' = OfferBills \cup {b}
    <3>1. \A p \in Offered : offer'[p] = offer[p] /\ asked'[p] = asked[p]
      BY <1>1, <2>4, <2>6 DEF Offered
    <3>2. [number |-> offer'[q], booking |-> asked'[q]] = b
      BY <1>1, <2>4, <2>5
    <3> QED
      BY <2>6, <3>1, <3>2 DEF OfferBills
  <2>8. /\ Bills' = Bills /\ PaidBills' = PaidBills /\ AskedBills' = AskedBills
        /\ ToldBills' = ToldBills
    BY <1>1 DEF Bills, PaidBills, AskedBills, ToldBills, BillOf, IsPaid
  <2>9. Bookings!Ask(b)
    BY <2>2, <2>7, <2>8 DEF Bookings!Ask, Bills, PaidBills, AskedBills, OfferBills, ToldBills
  <2> QED
    BY <2>2, <2>9
<1> QED
  BY <1>2, <1>3

(* A step of a call of Reissue; one that arrives has no offer yet.            *)
LEMMA ReissueBooks ==
    ASSUME AllInv, NEW q \in Query, ReissueStep(q)
    PROVE  \/ \E b \in Bookings!Bill : Bookings!Ask(b)
           \/ UNCHANGED Bookings!vars
<1>1. UNCHANGED <<requests, confirmations>>
  BY DEF ReissueStep, consumerVars, paymentVars
<1>2. CASE Reissues!ReceiveQuery(q)
  <2>1. /\ asked \in [Query -> Booking \cup {Blank, None}]
        /\ offer[q] = None
    BY <1>2 DEF AllInv, ReissuesProved!Inv, ReissuesProved!TypeOK, ReissuesProved!Unanswered,
                Reissues!ReceiveQuery
  <2>2. UNCHANGED <<invoices, offer>> /\ \A p \in Query : p # q => asked'[p] = asked[p]
    BY <1>2, <2>1 DEF Reissues!ReceiveQuery
  <2>3. OfferBills' = OfferBills
    BY <2>1, <2>2 DEF OfferBills, Offered
  <2>4. /\ Bills' = Bills /\ PaidBills' = PaidBills /\ AskedBills' = AskedBills
        /\ ToldBills' = ToldBills
    BY <1>1, <2>2 DEF Bills, PaidBills, AskedBills, ToldBills, BillOf, IsPaid
  <2> QED
    BY <2>3, <2>4 DEF Bookings!vars, Bills, PaidBills, AskedBills, OfferBills, ToldBills
<1>3. CASE Reissues!FindInvoice(q)
  BY <1>1, <1>3, FindInvoiceAsks
<1>4. CASE Reissues!SendReply(q)
  BY <1>1, <1>4, BookingsStutter DEF Reissues!SendReply
<1> QED
  BY <1>2, <1>3, <1>4 DEF ReissueStep, Reissues!QueryStep

(* The rest of the service bills, asks, settles and confirms nothing.         *)
LEMMA OthersBookNothing ==
    ASSUME \/ ConsumerEnvironment \/ Restart \/ UNCHANGED vars
           \/ \E m \in Message : ConsumerDelivery(m)
    PROVE  UNCHANGED Bookings!vars
<1>1. UNCHANGED <<invoices, requests>>
  BY DEF ConsumerEnvironment, ConsumerDelivery, Restart, vars, consumerVars, Consumer!Send,
         Consumer!LoseConnection, Consumer!Shutdown, Consumer!CloseConnection, Consumer!Restart,
         Consumer!Deliver
<1>2. UNCHANGED confirmations
  BY DEF ConsumerEnvironment, ConsumerDelivery, Restart, vars, paymentVars, Payments!Crash,
         Payments!storeVars
<1>3. UNCHANGED <<asked, offer>>
  BY DEF ConsumerEnvironment, ConsumerDelivery, Restart, vars, reissueVars, Reissues!CutOff
<1> QED
  BY <1>1, <1>2, <1>3, BookingsStutter

(* Nothing is billed before the first message.                                *)
LEMMA BookingsInit == Init => Bookings!Init
<1> SUFFICES ASSUME Init PROVE Bookings!Init
  OBVIOUS
<1>1. DOMAIN invoices = {} /\ requests = {} /\ confirmations = {}
  BY DEF Init, Consumer!Init, Payments!PaymentInit
<1>2. Offered = {}
  BY DEF Init, Reissues!ReissueInit, Offered
<1> QED
  BY <1>1, <1>2 DEF Bookings!Init

(* Each step of the whole.                                                    *)
LEMMA BookingsStep == SimulatorAssumption /\ AllInv /\ [Next]_vars => [Bookings!Next]_(Bookings!vars)
<1> SUFFICES ASSUME SimulatorAssumption, AllInv, [Next]_vars
             PROVE  [Bookings!Next]_(Bookings!vars)
  OBVIOUS
<1>1. CASE ConsumerLoopStep
  BY <1>1, LoopBooks DEF ConsumerLoopStep, paymentVars, reissueVars, Bookings!Next
<1>2. ASSUME NEW r \in Request, PaymentArrives(r) \/ PaymentHandlerStep(r) \/ PaymentPostStep(r)
      PROVE  [Bookings!Next]_(Bookings!vars)
  <2>1. UNCHANGED <<requests, asked, offer>>
    BY <1>2 DEF PaymentArrives, PaymentHandlerStep, PaymentPostStep, consumerVars, reissueVars
  <2> QED
    BY <1>2, <2>1, PaymentBooks DEF Bookings!Next
<1>3. ASSUME NEW q \in Query, ReissueStep(q)
      PROVE  [Bookings!Next]_(Bookings!vars)
  BY <1>3, ReissueBooks DEF Bookings!Next
<1>4. CASE \/ ConsumerEnvironment \/ Restart \/ UNCHANGED vars
           \/ \E m \in Message : ConsumerDelivery(m)
  BY <1>4, OthersBookNothing
<1> QED
  BY <1>1, <1>2, <1>3, <1>4 DEF Next

(* Whatever fails, is redelivered, restarted or raced for: guests are asked   *)
(* only for what was billed, bills are settled for good, bookings are billed  *)
(* once if the index is unique, and a payment is confirmed once, for a bill   *)
(* whose number is paid (README.md:10-16).                                    *)
THEOREM WholeImplementsBookings == Spec => ImplementsBookings
<1>1. Spec => []AllInv
  BY Invariance, ConsumerInvariance, PaymentsInvariance, ReissuesInvariance, PTL DEF AllInv
<1> QED
  BY <1>1, SimulatorAssumption, BookingsInit, BookingsStep, PTL
  DEF Spec, ImplementsBookings, Bookings!Spec
==============================================================================
