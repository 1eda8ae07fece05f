-------------------------------- MODULE Startup --------------------------------
(***************************************************************************)
(* How the process comes up: main/run, infra.Init, app.Init and             *)
(* transport.Init, one action per thing that can fail, with what it         *)
(* declares at the broker, the goroutines it starts and the signal that may *)
(* come at any moment.  A failing step ends the process with code 1, and    *)
(* whoever runs it starts it again.                                         *)
(***************************************************************************)
EXTENDS Naturals

CONSTANTS Settings,    \* the groups of settings that may be wrong
          Durable,     \* the exchanges and the queue that are declared durable
          NoWait,      \* the declarations made without waiting for an answer
          MaxFaults,   \* bound: connections lost, brokers and databases going down
          MaxRestarts  \* bound: starts after the first

Client   == {"payment", "guest", "consumer"}   \* two producers and the consumer
Topology == {"payment", "guest", "queue", "binding"}

(* environment: a required variable is missing or no number; telemetry,      *)
(* mongo, rabbit, clock, failChance, paymentHost, server: what the           *)
(* constructor that is given it refuses;                                     *)
(* payment, guest, queue: the broker has one of that name with other         *)
(* arguments; platform: the exchange the queue is bound to does not exist;   *)
(* port: the address to listen on is taken.                                  *)
Setting == {"environment", "telemetry", "mongo", "rabbit", "clock", "failChance",
            "paymentHost", "server", "payment", "guest", "queue", "platform", "port"}

ASSUME StartupAssumption ==
    /\ Settings \subseteq Setting
    /\ Durable \subseteq Topology \ {"binding"} /\ NoWait \subseteq Topology
    /\ MaxFaults \in Nat /\ MaxRestarts \in Nat

VARIABLES
    pc,         \* the next step of the main goroutine
    wrong,      \* the settings that are wrong
    conn,       \* the connection in RabbitMqConnection
    chan,       \* the channel each client holds
    declared,   \* what exists at the broker
    broker,     \* can RabbitMQ be reached?
    mongo,      \* can MongoDB be reached?
    signalled,  \* is the context of NotifyContext done?
    loop,       \* the goroutine of StartInvoiceProcessing
    http,       \* the goroutine of httpServer.Run
    faults, restarts

linkVars    == <<conn, chan>>
processVars == <<pc, linkVars, signalled, loop, http>>
outsideVars == <<broker, mongo, faults>>
vars        == <<processVars, outsideVars, wrong, declared, restarts>>

Step == {"config", "telemetry", "mongo", "connection", "payment producer", "payment exchange",
         "guest producer", "guest exchange", "consumer", "queue", "binding", "clock",
         "payments", "reissues", "invoices", "server", "serving", "stopped", "failed"}
Ended == {"stopped", "failed"}

TypeOK ==
    /\ pc \in Step
    /\ wrong \subseteq Settings
    /\ conn \in {"none", "open", "lost"}
    /\ chan \in [Client -> {"none", "open", "closed"}]
    /\ declared \subseteq Topology
    /\ broker \in BOOLEAN /\ mongo \in BOOLEAN /\ signalled \in BOOLEAN
    /\ loop \in {"off", "starting", "consuming", "failed", "ended"}
    /\ http \in {"off", "starting", "listening", "failed"}
    /\ faults \in 0..MaxFaults /\ restarts \in 0..MaxRestarts

NewProcess == /\ conn = "none" /\ chan = [c \in Client |-> "none"]
              /\ signalled = FALSE /\ loop = "off" /\ http = "off"

Init == /\ pc = "config" /\ wrong \in SUBSET Settings /\ NewProcess
        /\ declared = {} /\ broker = TRUE /\ mongo = TRUE
        /\ faults = 0 /\ restarts = 0

----------------------------------------------------------------------------
(* os.Exit(1): whatever goroutines there are end with the process.           *)
Exit(as) == /\ pc' = as
            /\ conn' = "none" /\ chan' = [c \in Client |-> "none"]
            /\ loop' = "off" /\ http' = "off"

Fail == Exit("failed") /\ UNCHANGED declared

GoOn(next) == pc' = next /\ UNCHANGED <<conn, chan, loop, http, declared>>

Setup(at, next, works) ==
    /\ pc = at
    /\ \/ works /\ GoOn(next)
       \/ ~works /\ Fail
    /\ UNCHANGED <<signalled, outsideVars, wrong, restarts>>

LoadConfigs == Setup("config", "telemetry", "environment" \notin wrong)

(* The exporters connect in the background: a collector is not needed.       *)
InitTelemetry == Setup("telemetry", "mongo", "telemetry" \notin wrong)

(* The ping is made under the context of the signal.                         *)
NewMongoDb == Setup("mongo", "connection", "mongo" \notin wrong /\ mongo /\ ~signalled)

(* Slip: it is dialled until it works.                                       *)
NewConnectionWaiting ==
    /\ pc = "connection" /\ broker
    /\ \/ /\ "rabbit" \notin wrong
          /\ pc' = "payment producer" /\ conn' = "open"
          /\ UNCHANGED <<chan, loop, http, declared>>
       \/ "rabbit" \in wrong /\ Fail
    /\ UNCHANGED <<signalled, outsideVars, wrong, restarts>>

(* Five dials that the signal does not interrupt.                            *)
NewConnection ==
    /\ pc = "connection"
    /\ \/ /\ "rabbit" \notin wrong /\ broker
          /\ pc' = "payment producer" /\ conn' = "open"
          /\ UNCHANGED <<chan, loop, http, declared>>
       \/ ("rabbit" \in wrong \/ ~broker) /\ Fail
    /\ UNCHANGED <<signalled, outsideVars, wrong, restarts>>

(* openChannel: openConnection redials a connection that is lost.            *)
CanOpen == conn = "open" \/ broker

OpenChannel(c) == conn' = "open" /\ chan' = [chan EXCEPT ![c] = "open"]

NewClient(at, next, c) ==
    /\ pc = at
    /\ \/ CanOpen /\ OpenChannel(c) /\ pc' = next /\ UNCHANGED <<loop, http, declared>>
       \/ ~CanOpen /\ Fail
    /\ UNCHANGED <<signalled, outsideVars, wrong, restarts>>

(* At the broker is what was declared, and what it has with other arguments. *)
QueueExists == "queue" \in declared \cup wrong

Accepted(x) == IF x = "binding" THEN QueueExists /\ "platform" \notin wrong
                                ELSE x \notin wrong

(* Slip: the error of a declaration is logged.                               *)
DeclareLogged(at, next, c, x) ==
    /\ pc = at
    /\ \/ ~CanOpen /\ Fail
       \/ /\ CanOpen /\ OpenChannel(c)
          /\ declared' = IF Accepted(x) THEN declared \cup {x} ELSE declared
          /\ pc' = next /\ UNCHANGED <<loop, http>>
    /\ UNCHANGED <<signalled, outsideVars, wrong, restarts>>

(* DeclareExchange, DeclareQueue, BindQueue: a channel that is closed is     *)
(* opened again; a declaration that the broker refuses closes it, and only   *)
(* one that waits is told.                                                   *)
Declare(at, next, c, x) ==
    /\ pc = at
    /\ \/ ~CanOpen /\ Fail
       \/ /\ CanOpen /\ Accepted(x)
          /\ OpenChannel(c) /\ declared' = declared \cup {x}
          /\ pc' = next /\ UNCHANGED <<loop, http>>
       \/ CanOpen /\ ~Accepted(x) /\ x \notin NoWait /\ Fail
       \/ /\ CanOpen /\ ~Accepted(x) /\ x \in NoWait
          /\ conn' = "open" /\ chan' = [chan EXCEPT ![c] = "closed"]
          /\ pc' = next /\ UNCHANGED <<declared, loop, http>>
    /\ UNCHANGED <<signalled, outsideVars, wrong, restarts>>

NewPaymentProducer     == NewClient("payment producer", "payment exchange", "payment")
DeclarePaymentExchange == Declare("payment exchange", "guest producer", "payment", "payment")
NewGuestProducer       == NewClient("guest producer", "guest exchange", "guest")
DeclareGuestExchange   == Declare("guest exchange", "consumer", "guest", "guest")
NewConsumer            == NewClient("consumer", "queue", "consumer")
DeclareQueue           == Declare("queue", "binding", "consumer", "queue")

(* Slip: the consumer is started as soon as its queue is bound.              *)
BindQueueAndConsume ==
    /\ pc = "binding" /\ CanOpen /\ Accepted("binding") /\ OpenChannel("consumer")
    /\ declared' = declared \cup {"binding"}
    /\ pc' = "clock" /\ loop' = "starting" /\ UNCHANGED http
    /\ UNCHANGED <<signalled, outsideVars, wrong, restarts>>

BindQueue              == Declare("binding", "clock", "consumer", "binding")

(* The clock's connection is made when it is first used.                     *)
NewClock == Setup("clock", "payments", "clock" \notin wrong)

(* Slip: a negative fail chance is taken for zero.                           *)
NewPaymentMakingServerLax == Setup("payments", "reissues", TRUE)

NewPaymentMakingServer == Setup("payments", "reissues", "failChance" \notin wrong)

NewPaymentReissueService == Setup("reissues", "invoices", "paymentHost" \notin wrong)

(* NewInvoiceService, then services.Start.                                   *)
StartServices ==
    /\ pc = "invoices"
    /\ \/ /\ "paymentHost" \notin wrong
          /\ pc' = "server" /\ loop' = "starting"
          /\ UNCHANGED <<conn, chan, http, declared>>
       \/ "paymentHost" \in wrong /\ Fail
    /\ UNCHANGED <<signalled, outsideVars, wrong, restarts>>

(* NewHttpServer                                                             *)
ServerAccepted == "server" \notin wrong

(* transport.Init, then go httpServer.Run: the consumer is running already.  *)
StartServer ==
    /\ pc = "server"
    /\ \/ /\ ServerAccepted
          /\ pc' = "serving" /\ http' = "starting"
          /\ UNCHANGED <<conn, chan, loop, declared>>
       \/ ~ServerAccepted /\ Fail
    /\ UNCHANGED <<signalled, outsideVars, wrong, restarts>>

(* <-ctx.Done() and the shutdown, whose steps are in Serving.                *)
Stop ==
    /\ pc = "serving" /\ signalled
    /\ Exit("stopped")
    /\ UNCHANGED <<declared, signalled, outsideVars, wrong, restarts>>

MainStep ==
    \/ LoadConfigs \/ InitTelemetry \/ NewMongoDb \/ NewConnection
    \/ NewPaymentProducer \/ DeclarePaymentExchange \/ NewGuestProducer
    \/ DeclareGuestExchange \/ NewConsumer \/ DeclareQueue \/ BindQueue
    \/ NewClock \/ NewPaymentMakingServer \/ NewPaymentReissueService \/ StartServices
    \/ StartServer \/ Stop

(* Consume looks only whether there is a channel at all.                     *)
Consume ==
    /\ loop = "starting"
    /\ loop' = IF chan["consumer"] # "open" \/ ~QueueExists THEN "failed"
               ELSE IF signalled THEN "ended" ELSE "consuming"
    /\ UNCHANGED <<pc, linkVars, signalled, http, outsideVars, wrong, declared, restarts>>

(* A failing ListenAndServe is logged.                                       *)
Listen ==
    /\ http = "starting"
    /\ http' = IF "port" \in wrong THEN "failed" ELSE "listening"
    /\ UNCHANGED <<pc, linkVars, signalled, loop, outsideVars, wrong, declared, restarts>>

(* A payment or the loop publishes: a closed channel, or connection, is      *)
(* opened again, but nothing is declared again.                              *)
Publish(c) ==
    /\ \/ c = "payment" /\ http = "listening"
       \/ c = "guest" /\ loop = "consuming"
    /\ CanOpen /\ OpenChannel(c)
    /\ UNCHANGED <<pc, signalled, loop, http, outsideVars, wrong, declared, restarts>>

----------------------------------------------------------------------------
(* Around the process                                                        *)

Terminate ==
    /\ pc \notin Ended /\ ~signalled
    /\ signalled' = TRUE
    /\ UNCHANGED <<pc, linkVars, loop, http, outsideVars, wrong, declared, restarts>>

Fault == faults < MaxFaults /\ faults' = faults + 1

(* The connection and its channels are gone, and with them the deliveries.   *)
LinkLost == /\ conn' = IF conn = "open" THEN "lost" ELSE conn
            /\ chan' = [c \in Client |-> IF chan[c] = "open" THEN "closed" ELSE chan[c]]
            /\ loop' = IF loop = "consuming" THEN "ended" ELSE loop

LoseConnection ==
    /\ Fault /\ conn = "open" /\ LinkLost
    /\ UNCHANGED <<pc, signalled, http, broker, mongo, wrong, declared, restarts>>

(* A broker that restarts keeps what is durable, and the binding of a queue  *)
(* that is.                                                                  *)
Kept == Durable \cup {x \in {"binding"} : "queue" \in Durable}

BrokerDown ==
    /\ Fault /\ broker /\ broker' = FALSE /\ LinkLost
    /\ declared' = declared \cap Kept
    /\ UNCHANGED <<pc, signalled, http, mongo, wrong, restarts>>

BrokerUp ==
    /\ ~broker /\ broker' = TRUE
    /\ UNCHANGED <<processVars, mongo, faults, wrong, declared, restarts>>

MongoDown ==
    /\ Fault /\ mongo /\ mongo' = FALSE
    /\ UNCHANGED <<processVars, broker, wrong, declared, restarts>>

MongoUp ==
    /\ ~mongo /\ mongo' = TRUE
    /\ UNCHANGED <<processVars, broker, faults, wrong, declared, restarts>>

(* The process is started again; the settings may have been put right.       *)
StartAgain ==
    /\ pc \in Ended /\ restarts < MaxRestarts
    /\ pc' = "config" /\ signalled' = FALSE /\ restarts' = restarts + 1
    /\ wrong' \in SUBSET wrong
    /\ UNCHANGED <<linkVars, loop, http, outsideVars, declared>>

Next ==
    \/ MainStep \/ Consume \/ Listen
    \/ \E c \in Client : Publish(c)
    \/ Terminate \/ LoseConnection \/ BrokerDown \/ BrokerUp \/ MongoDown \/ MongoUp
    \/ StartAgain

Spec == Init /\ [][Next]_vars

(* Every call of the start-up has a timeout or a bounded number of attempts, *)
(* and Go schedules its goroutines.                                          *)
FairSpec == Spec /\ WF_vars(MainStep) /\ WF_vars(Consume) /\ WF_vars(Listen)

----------------------------------------------------------------------------
(* Properties                                                                *)

(* No message is taken and no payment accepted before everything that their  *)
(* handling publishes to has been declared, although the consumer is started *)
(* before the server is made, whatever was lost and redialled on the way:    *)
(* what is durable, and was declared by one who waits for the broker's       *)
(* answer, is there.                                                         *)
ServesOnlySetUp ==
    loop = "consuming" \/ http = "listening" =>
        Kept \ NoWait \subseteq declared /\ conn # "none"

(* run starts the consumer (main.go:46) before it makes the server           *)
(* (main.go:48): a process that fails may have taken messages already, but   *)
(* only when what NewHttpServer refuses is wrong.                            *)
OnlyServerFailsLate ==
    [][pc' = "failed" /\ pc # "failed" /\ loop # "off" => "server" \in wrong]_vars

(* Wrong settings end the process before it listens, whatever happens around *)
(* it; of what the broker refuses this holds only where its answer is        *)
(* waited for.                                                               *)
Untold == (NoWait \ {"binding"}) \cup {x \in {"platform"} : "binding" \in NoWait}

WrongSettingsNeverListen == http = "listening" => wrong \subseteq Untold

(* A start-up ends: with a server that listens (or has said why not), or     *)
(* with the process.  And a process that is told to stop stops, wherever in  *)
(* its start-up it is.                                                       *)
StartEnds ==
    /\ pc = "config" ~> pc \in Ended \/ http \in {"listening", "failed"}
    /\ signalled ~> pc \in Ended

(* README.md:11, "consumes invoice-generation requests from RabbitMQ": the   *)
(* service that has come up takes up its consuming, unless its connection is *)
(* lost or it is told to stop.                                               *)
StartedConsumes ==
    pc = "serving" /\ conn = "open" ~>
        loop \in {"consuming", "ended"} \/ conn # "open" \/ signalled

(* README.md:14, "accepts card payments over the HTTP gateway": a process    *)
(* that has come up, and asks guests to pay it, comes to listen.             *)
StartedListens == pc = "serving" ~> http = "listening" \/ pc # "serving"
==============================================================================
