---------------------------- MODULE StartupProofs ----------------------------
(***************************************************************************)
(* Proofs about the module Startup, for any settings that are wrong and any  *)
(* number of faults and restarts.                                           *)
(***************************************************************************)
EXTENDS Startup, TLAPS

(* Where the main goroutine is once a step of it has succeeded.               *)
AfterServer          == {"serving"}
AfterInvoices        == AfterServer \cup {"server"}
AfterReissues        == AfterInvoices \cup {"invoices"}
AfterPayments        == AfterReissues \cup {"reissues"}
AfterClock           == AfterPayments \cup {"payments"}
AfterBinding         == AfterClock \cup {"clock"}
AfterQueue           == AfterBinding \cup {"binding"}
AfterGuestExchange   == AfterQueue \cup {"consumer", "queue"}
AfterPaymentExchange == AfterGuestExchange \cup {"guest producer", "guest exchange"}
AfterConnection      == AfterPaymentExchange \cup {"payment producer", "payment exchange"}
AfterMongo           == AfterConnection \cup {"connection"}
AfterTelemetry       == AfterMongo \cup {"mongo"}
AfterConfig          == AfterTelemetry \cup {"telemetry"}

(* The goroutines run only where the main goroutine has started them, and     *)
(* from its first dial on the connection is there, open or lost.              *)
Alive ==
    /\ loop # "off" => pc \in AfterInvoices
    /\ http # "off" => pc \in AfterServer
    /\ pc \in AfterConnection => conn # "none"

(* What is wrong has not been looked at yet.                                  *)
Examined ==
    /\ pc \in AfterConfig => "environment" \notin wrong
    /\ pc \in AfterTelemetry => "telemetry" \notin wrong
    /\ pc \in AfterMongo => "mongo" \notin wrong
    /\ pc \in AfterConnection => "rabbit" \notin wrong
    /\ pc \in AfterClock => "clock" \notin wrong
    /\ pc \in AfterPayments => "failChance" \notin wrong
    /\ pc \in AfterReissues => "paymentHost" \notin wrong
    /\ pc \in AfterServer => "server" \notin wrong
    /\ http = "listening" => "port" \notin wrong

(* The same of what the broker looks at, by one who waits for its answers.    *)
Agreed ==
    /\ pc \in AfterPaymentExchange /\ "payment" \notin NoWait => "payment" \notin wrong
    /\ pc \in AfterGuestExchange /\ "guest" \notin NoWait => "guest" \notin wrong
    /\ pc \in AfterQueue /\ "queue" \notin NoWait => "queue" \notin wrong
    /\ pc \in AfterBinding /\ "binding" \notin NoWait => "platform" \notin wrong

(* What a broker that was waited for has declared stays, if it is durable.    *)
Announced ==
    /\ pc \in AfterPaymentExchange /\ "payment" \in Kept \ NoWait => "payment" \in declared
    /\ pc \in AfterGuestExchange /\ "guest" \in Kept \ NoWait => "guest" \in declared
    /\ pc \in AfterQueue /\ "queue" \in Kept \ NoWait => "queue" \in declared
    /\ pc \in AfterBinding /\ "binding" \in Kept \ NoWait => "binding" \in declared

Inv == TypeOK /\ Alive /\ Examined /\ Agreed /\ Announced

USE DEF AfterServer, AfterInvoices, AfterReissues, AfterPayments, AfterClock, AfterBinding,
        AfterQueue, AfterGuestExchange, AfterPaymentExchange, AfterConnection, AfterMongo,
        AfterTelemetry, AfterConfig

(* A process that has not done anything yet satisfies the invariant.          *)
LEMMA InvInit == Init => Inv
<1> SUFFICES ASSUME Init PROVE Inv
  OBVIOUS
<1>1. TypeOK
  <2>1. faults \in 0..MaxFaults /\ restarts \in 0..MaxRestarts
    BY StartupAssumption DEF Init
  <2>2. chan \in [Client -> {"none", "open", "closed"}]
    BY DEF Init, NewProcess
  <2> QED
    BY <2>1, <2>2 DEF Init, NewProcess, TypeOK, Step
<1> QED
  BY <1>1 DEF Init, NewProcess, Inv, Alive, Examined, Agreed, Announced

(* os.Exit(1) and the end of the shutdown: nothing of the process is left.    *)
LEMMA ExitStep ==
    ASSUME Inv, NEW as \in Ended, Exit(as), UNCHANGED declared,
           UNCHANGED <<signalled, outsideVars, wrong, restarts>>
    PROVE  Inv'
<1>1. TypeOK'
  BY DEF Inv, Exit, TypeOK, Ended, Step, outsideVars
<1> QED
  BY <1>1 DEF Inv, Exit, Ended, Alive, Examined, Agreed, Announced

(* What a step of the main goroutine has to keep of the types.                *)
LEMMA MainTypes ==
    ASSUME TypeOK, pc' \in Step, UNCHANGED <<signalled, broker, mongo, faults, wrong, restarts>>,
           conn' \in {"none", "open", "lost"}, chan' \in [Client -> {"none", "open", "closed"}],
           declared' \subseteq Topology, loop' \in {"off", "starting", "consuming", "failed", "ended"},
           http' \in {"off", "starting", "listening", "failed"}
    PROVE  TypeOK'
BY DEF TypeOK

(* The steps that look at settings only.                                      *)
LEMMA SetupStep ==
    ASSUME Inv,
           \/ LoadConfigs \/ InitTelemetry \/ NewMongoDb
           \/ NewClock \/ NewPaymentMakingServer \/ NewPaymentReissueService
    PROVE  Inv'
<1> USE DEF Setup, LoadConfigs, InitTelemetry, NewMongoDb, NewClock, NewPaymentMakingServer,
            NewPaymentReissueService
<1>1. CASE Fail
  BY <1>1, ExitStep DEF Fail, Ended
<1>2. CASE ~Fail
  <2>1. UNCHANGED <<conn, chan, loop, http, declared, signalled, broker, mongo, faults, wrong, restarts>>
    BY <1>2 DEF GoOn, outsideVars
  <2>2. TypeOK'
    <3>1. pc' \in Step
      BY <1>2 DEF GoOn, Step
    <3>2. TypeOK
      BY DEF Inv
    <3> HIDE DEF Setup
    <3> QED
      BY <2>1, <3>1, <3>2, MainTypes DEF TypeOK
  <2>3. Alive'
    BY <1>2, <2>1 DEF GoOn, Inv, Alive
  <2>4. Examined'
    BY <1>2, <2>1 DEF GoOn, Inv, Alive, Examined
  <2>5. Agreed' /\ Announced'
    <3>1. \/ pc = "config" /\ pc' = "telemetry"
          \/ pc = "telemetry" /\ pc' = "mongo"
          \/ pc = "mongo" /\ pc' = "connection"
          \/ pc \in AfterBinding /\ pc' \in AfterBinding
      BY <1>2 DEF GoOn
    <3> HIDE DEF Setup
    <3>2. Agreed'
      BY <2>1, <3>1 DEF Inv, Agreed
    <3>3. Announced'
      BY <2>1, <3>1 DEF Inv, Announced
    <3> QED
      BY <3>2, <3>3
  <2> QED
    BY <2>2, <2>3, <2>4, <2>5 DEF Inv
<1> QED
  BY <1>1, <1>2

(* The steps that dial and open a channel.                                    *)
LEMMA ConnectStep ==
    ASSUME Inv, NewConnection \/ NewPaymentProducer \/ NewGuestProducer \/ NewConsumer
    PROVE  Inv'
<1> USE DEF NewClient, NewConnection, NewPaymentProducer, NewGuestProducer, NewConsumer, OpenChannel
<1>1. CASE Fail
  BY <1>1, ExitStep DEF Fail, Ended
<1>2. CASE ~Fail
  <2>1. UNCHANGED <<loop, http, declared, signalled, broker, mongo, faults, wrong, restarts>>
    BY <1>2 DEF outsideVars
  <2>2. conn' = "open" /\ chan' \in [Client -> {"none", "open", "closed"}]
    BY <1>2 DEF Inv, TypeOK
  <2>3. TypeOK'
    <3>1. pc' \in Step /\ declared' = declared
      BY <1>2 DEF Step
    <3>2. TypeOK
      BY DEF Inv
    <3> HIDE DEF NewClient, NewConnection, NewPaymentProducer, NewGuestProducer, NewConsumer
    <3> QED
      BY <2>1, <2>2, <3>1, <3>2, MainTypes DEF TypeOK
  <2>4. Alive' /\ Examined'
    BY <1>2, <2>1, <2>2 DEF Inv, Alive, Examined
  <2>5. Agreed' /\ Announced'
    BY <1>2, <2>1 DEF Inv, Agreed, Announced
  <2> QED
    BY <2>3, <2>4, <2>5 DEF Inv
<1> QED
  BY <1>1, <1>2

(* A declaration: who waits goes on only with what the broker has accepted.   *)
LEMMA DeclareStep ==
    ASSUME Inv, DeclarePaymentExchange \/ DeclareGuestExchange \/ DeclareQueue \/ BindQueue
    PROVE  Inv'
<1> USE DEF Declare, DeclarePaymentExchange, DeclareGuestExchange, DeclareQueue, BindQueue, OpenChannel
<1>1. CASE Fail
  BY <1>1, ExitStep DEF Fail, Ended
<1>2. CASE ~Fail
  <2>1. UNCHANGED <<loop, http, signalled, broker, mongo, faults, wrong, restarts>>
    BY <1>2 DEF outsideVars
  <2>2. conn' = "open" /\ chan' \in [Client -> {"none", "open", "closed"}]
    BY <1>2 DEF Inv, TypeOK
  <2>3. declared \subseteq declared' /\ declared' \subseteq Topology
    BY <1>2 DEF Inv, TypeOK, Topology
  <2>4. TypeOK'
    <3>1. pc' \in Step
      BY <1>2 DEF Step
    <3>2. TypeOK
      BY DEF Inv
    <3> HIDE DEF Declare, DeclarePaymentExchange, DeclareGuestExchange, DeclareQueue, BindQueue
    <3> QED
      BY <2>1, <2>2, <2>3, <3>1, <3>2, MainTypes DEF TypeOK
  <2>5. Alive' /\ Examined'
    BY <1>2, <2>1, <2>2 DEF Inv, Alive, Examined
  <2>6. Agreed'
    BY <1>2, <2>1 DEF Inv, Agreed, Accepted
  <2>7. Announced'
    BY <1>2, <2>3 DEF Inv, Announced
  <2> QED
    BY <2>4, <2>5, <2>6, <2>7 DEF Inv
<1> QED
  BY <1>1, <1>2

(* main.go:45-61: the goroutines are started, and the process is stopped.     *)
LEMMA StartStep == ASSUME Inv, StartServices \/ StartServer \/ Stop PROVE Inv'
<1>1. CASE Fail /\ ~Stop
  BY <1>1, ExitStep DEF Fail, Ended, StartServices, StartServer
<1>2. CASE Stop
  BY <1>2, ExitStep DEF Stop, Ended
<1>3. CASE ~Fail /\ ~Stop
  <2> USE DEF StartServices, StartServer
  <2>1. UNCHANGED <<conn, chan, declared, signalled, broker, mongo, faults, wrong, restarts>>
    BY <1>3 DEF outsideVars
  <2>2. TypeOK'
    BY <1>3, <2>1 DEF Inv, TypeOK, Step
  <2>3. Alive'
    BY <1>3, <2>1 DEF Inv, Alive
  <2>4. Examined'
    BY <1>3, <2>1 DEF Inv, Alive, Examined, ServerAccepted
  <2>5. Agreed' /\ Announced'
    BY <1>3, <2>1 DEF Inv, Agreed, Announced
  <2> QED
    BY <2>2, <2>3, <2>4, <2>5 DEF Inv
<1> QED
  BY <1>1, <1>2, <1>3

(* What the goroutines do: they move only once they were started.             *)
LEMMA GoroutineStep ==
    ASSUME Inv, Consume \/ Listen \/ \E c \in Client : Publish(c)
    PROVE  Inv'
<1>1. UNCHANGED <<pc, declared, signalled, broker, mongo, faults, wrong, restarts>>
  BY DEF Consume, Listen, Publish, outsideVars
<1>2. TypeOK'
  <2>1. chan' \in [Client -> {"none", "open", "closed"}] /\ conn' \in {"none", "open", "lost"}
    BY DEF Inv, TypeOK, Consume, Listen, Publish, OpenChannel, linkVars
  <2> QED
    BY <1>1, <2>1 DEF Inv, TypeOK, Consume, Listen, Publish
<1>3. Alive'
  BY <1>1 DEF Inv, Alive, Consume, Listen, Publish, OpenChannel, linkVars
<1>4. Examined'
  BY <1>1 DEF Inv, Examined, Consume, Listen, Publish
<1>5. Agreed' /\ Announced'
  BY <1>1 DEF Inv, Agreed, Announced
<1> QED
  BY <1>2, <1>3, <1>4, <1>5 DEF Inv

(* What happens around the process takes nothing back that is durable.        *)
LEMMA OutsideStep ==
    ASSUME Inv,
           \/ Terminate \/ LoseConnection \/ BrokerDown \/ BrokerUp \/ MongoDown \/ MongoUp
    PROVE  Inv'
<1> USE DEF Terminate, LoseConnection, BrokerDown, BrokerUp, MongoDown, MongoUp, processVars, linkVars
<1>1. UNCHANGED <<pc, http, wrong, restarts>>
  OBVIOUS
<1>2. /\ conn' = "none" <=> conn = "none"
      /\ loop' = "off" <=> loop = "off"
  BY DEF LinkLost, Inv, TypeOK
<1>3. TypeOK'
  <2>1. chan' \in [Client -> {"none", "open", "closed"}]
    BY DEF LinkLost, Inv, TypeOK
  <2>2. conn' \in {"none", "open", "lost"}
    BY DEF LinkLost, Inv, TypeOK
  <2>7. loop' \in {"off", "starting", "consuming", "failed", "ended"}
    BY DEF LinkLost, Inv, TypeOK
  <2>3. faults' \in 0..MaxFaults
    BY StartupAssumption DEF Fault, Inv, TypeOK, outsideVars
  <2>4. signalled' \in BOOLEAN
    <3>1. signalled' = signalled \/ signalled' = TRUE
      OBVIOUS
    <3> QED
      BY <3>1 DEF Inv, TypeOK
  <2>5. broker' \in BOOLEAN /\ mongo' \in BOOLEAN
    <3>1. /\ broker' = broker \/ broker' = TRUE \/ broker' = FALSE
          /\ mongo' = mongo \/ mongo' = TRUE \/ mongo' = FALSE
      BY DEF outsideVars
    <3> QED
      BY <3>1 DEF Inv, TypeOK
  <2>6. declared' \subseteq Topology
    BY DEF Inv, TypeOK
  <2> QED
    BY <1>1, <2>1, <2>2, <2>3, <2>4, <2>5, <2>6, <2>7 DEF Inv, TypeOK
<1>4. Alive' /\ Examined' /\ Agreed'
  <2> HIDE DEF Terminate, LoseConnection, BrokerDown, BrokerUp, MongoDown, MongoUp
  <2>1. Alive'
    BY <1>1, <1>2 DEF Inv, Alive
  <2>2. Examined'
    BY <1>1 DEF Inv, Examined
  <2>3. Agreed'
    BY <1>1 DEF Inv, Agreed
  <2> QED
    BY <2>1, <2>2, <2>3
<1>6. Announced'
  <2>1. declared' = declared \/ declared' = declared \cap Kept
    OBVIOUS
  <2> QED
    BY <1>1, <2>1 DEF Inv, Announced
<1> QED
  BY <1>3, <1>4, <1>6 DEF Inv

(* The next process begins with nothing done.                                 *)
LEMMA StartAgainStep == ASSUME Inv, StartAgain PROVE Inv'
<1>1. TypeOK'
  <2>1. restarts' \in 0..MaxRestarts
    BY StartupAssumption DEF Inv, TypeOK, StartAgain
  <2>2. UNCHANGED <<conn, chan, loop, http, broker, mongo, faults, declared>>
    BY DEF StartAgain, linkVars, outsideVars
  <2>3. pc' \in Step /\ wrong' \subseteq Settings /\ signalled' \in BOOLEAN
    BY DEF Inv, TypeOK, StartAgain, Step
  <2> QED
    BY <2>1, <2>2, <2>3 DEF Inv, TypeOK
<1>2. loop = "off" /\ http = "off"
  BY DEF Inv, Alive, StartAgain, Ended
<1>3. pc' = "config" /\ UNCHANGED <<loop, http>>
  BY DEF StartAgain
<1> QED
  BY <1>1, <1>2, <1>3 DEF Inv, Alive, Examined, Agreed, Announced

(* Every step of the process and around it keeps the invariant.               *)
LEMMA InvStep == Inv /\ [Next]_vars => Inv'
<1> SUFFICES ASSUME Inv, [Next]_vars PROVE Inv'
  OBVIOUS
<1>1. CASE UNCHANGED vars
  <2>1. UNCHANGED <<pc, wrong, conn, chan, declared, broker, mongo, signalled, loop, http, faults, restarts>>
    BY <1>1 DEF vars, processVars, linkVars, outsideVars
  <2>2. TypeOK'
    BY <2>1 DEF Inv, TypeOK
  <2>3. Alive' /\ Examined'
    BY <2>1 DEF Inv, Alive, Examined
  <2>4. Agreed' /\ Announced'
    BY <2>1 DEF Inv, Agreed, Announced
  <2> QED
    BY <2>2, <2>3, <2>4 DEF Inv
<1> QED
  BY <1>1, SetupStep, ConnectStep, DeclareStep, StartStep, GoroutineStep, OutsideStep, StartAgainStep
  DEF Next, MainStep

(* The inductive invariant holds in every reachable state.                    *)
THEOREM Invariance == Spec => []Inv
BY InvInit, InvStep, PTL DEF Spec

(* Type correctness of the start-up.                                          *)
THEOREM TypeCorrect == Spec => []TypeOK
<1>1. Inv => TypeOK
  BY DEF Inv
<1> QED
  BY <1>1, Invariance, PTL

(* infra/init.go: nothing is served before what it publishes to is declared,  *)
(* whatever is lost and redialled on the way.                                 *)
THEOREM OnlySetUpIsServed == Spec => []ServesOnlySetUp
<1>1. Inv => ServesOnlySetUp
  <2> SUFFICES ASSUME Inv, loop = "consuming" \/ http = "listening"
               PROVE  Kept \ NoWait \subseteq declared /\ conn # "none"
    BY DEF ServesOnlySetUp
  <2>1. pc \in AfterInvoices
    BY DEF Inv, Alive
  <2>2. Kept \subseteq Topology
    BY StartupAssumption DEF Kept, Topology
  <2>3. Kept \ NoWait \subseteq declared
    BY <2>1, <2>2 DEF Inv, Announced, Topology
  <2> QED
    BY <2>1, <2>3 DEF Inv, Alive
<1> QED
  BY <1>1, Invariance, PTL

(* Every constructor refuses what is wrong before the server listens.         *)
THEOREM NoWrongSettingListens == Spec => []WrongSettingsNeverListen
<1>1. Inv => WrongSettingsNeverListen
  <2> SUFFICES ASSUME Inv, http = "listening", NEW s \in wrong
               PROVE  s \in Untold
    BY DEF WrongSettingsNeverListen
  <2>1. pc = "serving" /\ s \in Setting
    BY StartupAssumption DEF Inv, TypeOK, Alive
  <2>2. s \in {"payment", "guest", "queue", "platform"}
    BY <2>1 DEF Inv, Examined, Setting
  <2> QED
    BY <2>1, <2>2 DEF Inv, Agreed, Untold
<1> QED
  BY <1>1, Invariance, PTL

(* main.go:45-51: after the consumer has started only NewHttpServer can fail. *)
THEOREM LateFailureIsTheServers == Spec => OnlyServerFailsLate
<1>1. Inv /\ [Next]_vars => [pc' = "failed" /\ pc # "failed" /\ loop # "off" => "server" \in wrong]_vars
  <2> SUFFICES ASSUME Inv, Next, pc' = "failed", pc # "failed", loop # "off"
               PROVE  "server" \in wrong
    OBVIOUS
  <2>1. pc \in {"server", "serving"}
    BY DEF Inv, Alive
  <2>2. CASE MainStep
    <3>1. StartServer \/ Stop
      BY <2>1, <2>2 DEF MainStep, LoadConfigs, InitTelemetry, NewMongoDb, NewConnection, Setup,
         NewPaymentProducer, NewGuestProducer, NewConsumer, NewClient, DeclarePaymentExchange,
         DeclareGuestExchange, DeclareQueue, BindQueue, Declare, NewClock, NewPaymentMakingServer,
         NewPaymentReissueService, StartServices
    <3> QED
      BY <3>1 DEF StartServer, Stop, Exit, ServerAccepted
  <2>3. CASE ~MainStep
    BY <2>3 DEF Next, Consume, Listen, Publish, Terminate, LoseConnection, BrokerDown, BrokerUp,
                MongoDown, MongoUp, StartAgain, processVars
  <2> QED
    BY <2>2, <2>3
<1> QED
  BY <1>1, Invariance, PTL DEF Spec, OnlyServerFailsLate
==============================================================================
