-------------------------------- MODULE Serving --------------------------------
(***************************************************************************)
(* The process that has started, and how it stops: the HTTP server's        *)
(* goroutine, the handlers of payments with the background work they leave, *)
(* and main.go's shutdown, one action per call, under the ten seconds that  *)
(* all of it shares.  What a payment does to MongoDB is in PaymentMaking;   *)
(* here a payment is what it needs of the process: the server, the clock    *)
(* client, the connection to RabbitMQ and the time to end.                  *)
(***************************************************************************)
EXTENDS Naturals

CONSTANT Request    \* HTTP calls that pay an invoice

VARIABLES
    pc,         \* the next step of the main goroutine
    signalled,  \* is the context of NotifyContext done?
    http,       \* the goroutine of httpServer.Run
    shutting,   \* has server.Shutdown been called?
    rabbit,     \* is the connection to RabbitMQ open?
    clock,      \* is the connection of the clock client open?
    late,       \* is the shutdown's context done?
    call,       \* where the handler of each request is
    work,       \* where its background goroutine is
    starved     \* history: the requests that found the clock client closed

serverVars == <<http, shutting>>
clientVars == <<rabbit, clock>>
callVars   == <<call, work, starved>>
vars       == <<pc, signalled, serverVars, clientVars, late, callVars>>

Handling == {"clock", "charge", "answer"}
Working  == {"save", "publish"}

TypeOK ==
    /\ pc \in {"serving", "telemetry", "rabbit", "channels", "http", "clock", "exited"}
    /\ signalled \in BOOLEAN
    /\ http \in {"starting", "listening", "failed", "closed"} /\ shutting \in BOOLEAN
    /\ rabbit \in BOOLEAN /\ clock \in BOOLEAN /\ late \in BOOLEAN
    /\ call \in [Request -> Handling \cup {"none", "refused", "answered", "dropped", "cut"}]
    /\ work \in [Request -> Working \cup {"none", "confirmed", "failed", "unrecorded", "unconfirmed"}]
    /\ starved \subseteq Request

Init ==
    /\ pc = "serving" /\ signalled = FALSE
    /\ http = "starting" /\ shutting = FALSE
    /\ rabbit = TRUE /\ clock = TRUE /\ late = FALSE
    /\ call = [r \in Request |-> "none"] /\ work = [r \in Request |-> "none"]
    /\ starved = {}

----------------------------------------------------------------------------
(* The server and the handlers                                               *)

(* Slip: the server listens whatever was called before.                      *)
RunAnyhow ==
    /\ http = "starting" /\ pc # "exited"
    /\ http' \in {"listening", "failed"}
    /\ UNCHANGED <<pc, signalled, shutting, clientVars, late, callVars>>

(* The goroutine may run late: ListenAndServe looks whether Shutdown has been *)
(* called.  Its other errors are logged, and the process goes on without it. *)
Run ==
    /\ http = "starting" /\ pc # "exited"
    /\ http' \in IF shutting THEN {"closed"} ELSE {"listening", "failed"}
    /\ UNCHANGED <<pc, signalled, shutting, clientVars, late, callVars>>

Accept(r) ==
    /\ http = "listening" /\ call[r] = "none"
    /\ call' = [call EXCEPT ![r] = "clock"]
    /\ UNCHANGED <<pc, signalled, serverVars, clientVars, late, work, starved>>

(* A call on a clock client that is closed fails; others may, too.           *)
AskClock(r) ==
    /\ call[r] = "clock"
    /\ \/ clock /\ call' = [call EXCEPT ![r] = "charge"] /\ UNCHANGED starved
       \/ call' = [call EXCEPT ![r] = "refused"]
          /\ starved' = IF clock THEN starved ELSE starved \cup {r}
    /\ UNCHANGED <<pc, signalled, serverVars, clientVars, late, work>>

(* Up to the answer: MongoDB's client is never closed.  A panic is recovered *)
(* by net/http; the background work is started before the answer is sent.    *)
Charge(r) ==
    /\ call[r] = "charge"
    /\ \/ call' = [call EXCEPT ![r] = "refused"] /\ UNCHANGED work
       \/ call' = [call EXCEPT ![r] = "dropped"] /\ UNCHANGED work
       \/ call' = [call EXCEPT ![r] = "answer"] /\ work' = [work EXCEPT ![r] = "save"]
    /\ UNCHANGED <<pc, signalled, serverVars, clientVars, late, starved>>

SendAnswer(r) ==
    /\ call[r] = "answer"
    /\ call' = [call EXCEPT ![r] = "answered"]
    /\ UNCHANGED <<pc, signalled, serverVars, clientVars, late, work, starved>>

SaveReceipt(r) ==
    /\ work[r] = "save"
    /\ \E w \in {"publish", "failed"} : work' = [work EXCEPT ![r] = w]
    /\ UNCHANGED <<pc, signalled, serverVars, clientVars, late, call, starved>>

PublishConfirmation(r) ==
    /\ work[r] = "publish"
    /\ \/ rabbit /\ work' = [work EXCEPT ![r] = "confirmed"]
       \/ work' = [work EXCEPT ![r] = "failed"]
    /\ UNCHANGED <<pc, signalled, serverVars, clientVars, late, call, starved>>

CallStep(r) == AskClock(r) \/ Charge(r) \/ SendAnswer(r)
WorkStep(r) == SaveReceipt(r) \/ PublishConfirmation(r)

----------------------------------------------------------------------------
(* main.go: run from line 55, shutdown                                       *)

Terminate ==
    /\ pc = "serving" /\ ~signalled /\ signalled' = TRUE
    /\ UNCHANGED <<pc, serverVars, clientVars, late, callVars>>

BeginShutdown ==
    /\ pc = "serving" /\ signalled /\ pc' = "telemetry"
    /\ UNCHANGED <<signalled, serverVars, clientVars, late, callVars>>

(* The ten seconds are over.                                                 *)
RunLate ==
    /\ pc \in {"telemetry", "rabbit", "channels", "http"} /\ ~late
    /\ late' = TRUE
    /\ UNCHANGED <<pc, signalled, serverVars, clientVars, callVars>>

(* The exporters send what they still hold, to a collector that may take all *)
(* the time there is: the fifteen seconds of                                 *)
(* OTEL_SHUTDOWN_TIMEOUT_IN_SECONDS are cut to the ten that all share.       *)
ShutdownTelemetry ==
    /\ pc = "telemetry" /\ pc' = "rabbit"
    /\ UNCHANGED <<signalled, serverVars, clientVars, late, callVars>>

CloseRabbit ==
    /\ pc = "rabbit" /\ pc' = "channels" /\ rabbit' = FALSE
    /\ UNCHANGED <<signalled, serverVars, clock, late, callVars>>

(* CloseChannel, three times, on channels that died with their connection.   *)
CloseChannels ==
    /\ pc = "channels" /\ pc' = "http"
    /\ UNCHANGED <<signalled, serverVars, clientVars, late, callVars>>

CloseListener == shutting' = TRUE /\ http' = IF http = "listening" THEN "closed" ELSE http

Idle == \A r \in Request : call[r] \notin Handling

(* Slip: server.Close, which does not wait.                                  *)
CloseHttp ==
    /\ pc = "http" /\ CloseListener /\ pc' = "clock"
    /\ UNCHANGED <<signalled, clientVars, late, callVars>>

(* Slip: a context of its own, without an end.                               *)
ShutdownHttpWaiting ==
    /\ pc = "http" /\ CloseListener
    /\ pc' = IF Idle THEN "clock" ELSE "http"
    /\ UNCHANGED <<signalled, clientVars, late, callVars>>

(* server.Shutdown closes the listener and waits for the handlers, but no    *)
(* longer than the context lasts.                                            *)
ShutdownHttp ==
    /\ pc = "http" /\ CloseListener
    /\ pc' = IF Idle \/ late THEN "clock" ELSE "http"
    /\ UNCHANGED <<signalled, clientVars, late, callVars>>

CloseClock ==
    /\ pc = "clock" /\ clock /\ clock' = FALSE
    /\ UNCHANGED <<pc, signalled, serverVars, rabbit, late, callVars>>

(* main returns: handlers and background work that still run end with it.    *)
Exit ==
    /\ pc = "clock" /\ ~clock /\ pc' = "exited"
    /\ call' = [r \in Request |-> IF call[r] \in Handling THEN "cut" ELSE call[r]]
    /\ work' = [r \in Request |-> CASE work[r] = "save"    -> "unrecorded"
                                   [] work[r] = "publish" -> "unconfirmed"
                                   [] OTHER               -> work[r]]
    /\ UNCHANGED <<signalled, serverVars, clientVars, late, starved>>

MainStep ==
    \/ BeginShutdown \/ ShutdownTelemetry \/ CloseRabbit \/ CloseChannels
    \/ ShutdownHttp \/ CloseClock \/ Exit

Next ==
    \/ Run \/ Terminate \/ RunLate \/ MainStep
    \/ \E r \in Request : Accept(r) \/ CallStep(r) \/ WorkStep(r)

Spec == Init /\ [][Next]_vars

(* Time passes and the main goroutine is scheduled.  A collector need not     *)
(* answer before the time is over, and a handler may never end: its calls to *)
(* MongoDB have no timeout of their own.                                     *)
FairSpec == /\ Spec
            /\ WF_vars(MainStep /\ (pc = "telemetry" => late))
            /\ WF_vars(RunLate)

----------------------------------------------------------------------------
(* Properties                                                                *)

(* A request that the server has accepted, also one that comes while the     *)
(* shutdown is about to close the listener, is answered before the process   *)
(* exits and never finds the clock client closed, unless the ten seconds are *)
(* over (a collector that does not answer uses them up alone).               *)
NoRequestIsCut == \A r \in Request : call[r] = "cut" \/ r \in starved => late

(* The goroutine of httpServer.Run may come to listen at any moment of the   *)
(* shutdown: after server.Shutdown nobody is accepted.                       *)
ShutForGood ==
    [][\A r \in Request : shutting /\ call[r] = "none" => call'[r] = "none"]_vars

(* SIGTERM ends the process, whether or not collector and handlers end.      *)
StopsWhenAsked == signalled ~> pc = "exited"

(* README.md:12, "persists invoices and receipts in MongoDB": no shutdown    *)
(* that waits for the handlers kills a payment's background work before its  *)
(* receipt is stored.                                                        *)
ReceiptOutlivesShutdown == \A r \in Request : work[r] = "unrecorded" => late
==============================================================================
