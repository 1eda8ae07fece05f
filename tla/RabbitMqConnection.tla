-------------------------- MODULE RabbitMqConnection --------------------------
(***************************************************************************)
(* infra/mq: the one AMQP connection of the process, behind a mutex, and    *)
(* the channel of each producer, which no lock protects although the        *)
(* background goroutines of several payments publish through one producer.  *)
(* A publisher that finds its channel closed opens another one, redialling  *)
(* if need be while it holds the mutex; shutdown closes the connection for   *)
(* good; the readiness probe takes the read lock.                           *)
(***************************************************************************)
EXTENDS Naturals

CONSTANTS Caller,            \* goroutines that publish
          Producer,
          ProducerOf,        \* the producer each of them uses
          rabbitDialAttempts,
          MaxFaults,         \* bound: what the broker and the network may break
          None

ASSUME ConnectionAssumption ==
    /\ ProducerOf \in [Caller -> Producer]
    /\ rabbitDialAttempts \in Nat \ {0}
    /\ MaxFaults \in Nat
    /\ None \notin Caller

VARIABLES
    mu,         \* who holds the mutex over a redial
    conn,       \* the connection in the struct, by its number
    dialled,    \* connections made so far
    open,       \* those that are open
    closed,     \* Close was called
    channel,    \* the channel in each producer
    made,       \* channels made since the start
    openChs,    \* channels that are open
    pc,         \* where each call of Publish is
    local,      \* the local variables of each call of openChannel
    attempt,    \* dials of the redial that is going on
    result,     \* of the last call of each caller
    trouble,    \* history: did anything go wrong that the call may suffer from?
    broker,     \* can the broker be dialled?
    faults,     \* how often something broke
    closer,     \* main's shutdown
    probe       \* the readiness probe

connVars   == <<mu, conn, dialled, open, closed, attempt>>
chanVars   == <<channel, made, openChs>>
callVars   == <<pc, local, result, trouble>>
brokerVars == <<broker, faults>>
vars       == <<connVars, chanVars, callVars, brokerVars, closer, probe>>

Channel == [conn : Nat, of : Producer, no : Nat]
Locals  == [conn : Nat, ch : Channel \cup {None}, retried : BOOLEAN]
NoLocals == [conn |-> 0, ch |-> None, retried |-> FALSE]
CallAt  == {"idle", "check", "lock", "dial", "channel", "store", "send"}

TypeOK ==
    /\ mu \in Caller \cup {None}
    /\ conn \in Nat /\ dialled \in Nat /\ open \subseteq Nat
    /\ closed \in BOOLEAN
    /\ channel \in [Producer -> Channel]
    /\ made \in Nat /\ openChs \subseteq Channel
    /\ pc \in [Caller -> CallAt]
    /\ local \in [Caller -> Locals]
    /\ attempt \in 1..rabbitDialAttempts
    /\ result \in [Caller -> {"none", "ok", "error"}]
    /\ trouble \in [Caller -> BOOLEAN]
    /\ broker \in BOOLEAN
    /\ faults \in 0..MaxFaults
    /\ closer \in {"running", "closing", "closed"}
    /\ probe \in {"idle", "waiting"}

(* After infra.Init: connected, and every producer has a channel.            *)
Init ==
    /\ mu = None /\ conn = 1 /\ dialled = 1 /\ open = {1} /\ closed = FALSE
    /\ attempt = 1
    /\ channel = [p \in Producer |-> [conn |-> 1, of |-> p, no |-> 0]]
    /\ made = 0
    /\ openChs = {[conn |-> 1, of |-> p, no |-> 0] : p \in Producer}
    /\ pc = [c \in Caller |-> "idle"]
    /\ local = [c \in Caller |-> NoLocals]
    /\ result = [c \in Caller |-> "none"]
    /\ trouble = [c \in Caller |-> FALSE]
    /\ broker = TRUE /\ faults = 0
    /\ closer = "running" /\ probe = "idle"

----------------------------------------------------------------------------
(* Publish                                                                   *)

Break == faults < MaxFaults /\ faults' = faults + 1

InFlight(c) == pc[c] # "idle"

GoTo(c, at) == pc' = [pc EXCEPT ![c] = at] /\ UNCHANGED result

Return(c, res) == /\ pc' = [pc EXCEPT ![c] = "idle"]
                  /\ result' = [result EXCEPT ![c] = res]
                  /\ local' = [local EXCEPT ![c] = NoLocals]

Trouble(C) == trouble' = [c \in Caller |-> trouble[c] \/ (c \in C /\ InFlight(c))]

MyChannel(c) == channel[ProducerOf[c]]

(* A call inherits the trouble of the calls it shares its producer with.     *)
StartPublish(c) ==
    /\ pc[c] = "idle"
    /\ pc' = [pc EXCEPT ![c] = "check"]
    /\ result' = [result EXCEPT ![c] = "none"]
    /\ trouble' = [trouble EXCEPT ![c] = closed \/
          \E d \in Caller : InFlight(d) /\ ProducerOf[d] = ProducerOf[c] /\ trouble[d]]
    /\ UNCHANGED <<connVars, chanVars, local, brokerVars, closer, probe>>

(* Slips: only nil is looked for; the test is left out.                      *)
CheckChannelNil(c) ==
    /\ pc[c] = "check" /\ GoTo(c, "send")
    /\ UNCHANGED <<connVars, chanVars, local, trouble, brokerVars, closer, probe>>
CheckChannelNever(c) ==
    /\ pc[c] = "check" /\ GoTo(c, "lock")
    /\ UNCHANGED <<connVars, chanVars, local, trouble, brokerVars, closer, probe>>

(* Producer, lines 74-78.                                                    *)
CheckChannel(c) ==
    /\ pc[c] = "check"
    /\ GoTo(c, IF MyChannel(c) \in openChs THEN "send" ELSE "lock")
    /\ UNCHANGED <<connVars, chanVars, local, trouble, brokerVars, closer, probe>>

StartDialling(c) ==
    /\ GoTo(c, "dial")
    /\ mu' = c /\ attempt' = 1
    /\ UNCHANGED local

UseOpenConnection(c) ==
    /\ GoTo(c, "channel")
    /\ local' = [local EXCEPT ![c].conn = conn]
    /\ UNCHANGED <<mu, attempt>>

(* Slips: the closed flag, or the state of the connection, is not looked at. *)
OpenConnectionAgain(c) ==
    /\ pc[c] = "lock" /\ mu = None
    /\ \/ conn \in open /\ UseOpenConnection(c)
       \/ conn \notin open /\ StartDialling(c)
    /\ UNCHANGED <<conn, dialled, open, closed, chanVars, trouble, brokerVars,
                   closer, probe>>
OpenConnectionAnew(c) ==
    /\ pc[c] = "lock" /\ mu = None
    /\ \/ closed /\ Return(c, "error") /\ UNCHANGED <<mu, attempt>>
       \/ ~closed /\ StartDialling(c)
    /\ UNCHANGED <<conn, dialled, open, closed, chanVars, trouble, brokerVars,
                   closer, probe>>

(* openConnection, lines 71-83: under the mutex, which a redial keeps.       *)
OpenConnection(c) ==
    /\ pc[c] = "lock" /\ mu = None
    /\ \/ closed /\ Return(c, "error") /\ UNCHANGED <<mu, attempt>>
       \/ ~closed /\ conn \in open /\ UseOpenConnection(c)
       \/ ~closed /\ conn \notin open /\ StartDialling(c)
    /\ UNCHANGED <<conn, dialled, open, closed, chanVars, trouble, brokerVars,
                   closer, probe>>

Connected(c) ==
    /\ broker
    /\ dialled' = dialled + 1
    /\ conn' = dialled + 1
    /\ open' = open \cup {dialled + 1}
    /\ local' = [local EXCEPT ![c].conn = dialled + 1]
    /\ GoTo(c, "channel")
    /\ mu' = None
    /\ UNCHANGED <<attempt, trouble>>

(* Slip: it dials until it succeeds.                                         *)
DialForever(c) ==
    /\ pc[c] = "dial"
    /\ Connected(c)
    /\ UNCHANGED <<closed, chanVars, brokerVars, closer, probe>>

(* reconnectLocked, lines 104-118; the mutex is kept while it sleeps.        *)
Dial(c) ==
    /\ pc[c] = "dial"
    /\ \/ Connected(c)
       \/ /\ ~broker
          /\ Trouble({c})
          /\ \/ /\ attempt < rabbitDialAttempts
                /\ attempt' = attempt + 1
                /\ UNCHANGED <<pc, result, local, mu>>
             \/ /\ attempt = rabbitDialAttempts
                /\ mu' = None
                /\ Return(c, "error")
                /\ UNCHANGED attempt
          /\ UNCHANGED <<conn, dialled, open>>
    /\ UNCHANGED <<closed, chanVars, brokerVars, closer, probe>>

(* openChannel, lines 33-49: conn.Channel() on the connection the call got;  *)
(* if that has died meanwhile, once more with the one openConnection gives.  *)
OpenChannel(c) ==
    /\ pc[c] = "channel"
    /\ \/ /\ local[c].conn \in open
          /\ LET ch == [conn |-> local[c].conn, of |-> ProducerOf[c], no |-> made + 1]
             IN /\ openChs' = openChs \cup {ch}
                /\ local' = [local EXCEPT ![c].ch = ch]
          /\ made' = made + 1
          /\ GoTo(c, "store")
          /\ UNCHANGED <<trouble, faults>>
       \/ /\ local[c].conn \in open /\ Break           \* the broker refuses
          /\ Trouble({c})
          /\ Return(c, "error")
          /\ UNCHANGED <<made, openChs>>
       \/ /\ local[c].conn \notin open
          /\ \/ local[c].retried /\ Return(c, "error")
             \/ /\ ~local[c].retried
                /\ GoTo(c, "lock")
                /\ local' = [local EXCEPT ![c].retried = TRUE]
          /\ UNCHANGED <<made, openChs, trouble, faults>>
    /\ UNCHANGED <<connVars, channel, broker, closer, probe>>

(* Slip: a := in an inner block, the struct keeps the old channel.           *)
StoreShadowed(c) ==
    /\ pc[c] = "store" /\ GoTo(c, "send")
    /\ UNCHANGED <<connVars, chanVars, local, trouble, brokerVars, closer, probe>>

(* Line 51: whatever another caller has stored since.                        *)
StoreChannel(c) ==
    /\ pc[c] = "store"
    /\ channel' = [channel EXCEPT ![ProducerOf[c]] = local[c].ch]
    /\ GoTo(c, "send")
    /\ UNCHANGED <<connVars, made, openChs, local, trouble, brokerVars, closer, probe>>

(* Producer, lines 97-113: PublishWithContext on the channel the struct      *)
(* holds now.                                                                *)
SendMessage(c) ==
    /\ pc[c] = "send"
    /\ Return(c, IF MyChannel(c) \in openChs THEN "ok" ELSE "error")
    /\ UNCHANGED <<connVars, chanVars, trouble, brokerVars, closer, probe>>

----------------------------------------------------------------------------
(* The broker and the network                                                *)

OnOpen(C) == {ch \in openChs : ch.conn \in C}

LoseConnection ==
    /\ Break
    /\ \E k \in open : open' = open \ {k} /\ openChs' = OnOpen(open \ {k})
    /\ Trouble(Caller)
    /\ broker' \in {broker, FALSE}
    /\ UNCHANGED <<mu, conn, dialled, closed, attempt, channel, made, pc, local, result,
                   closer, probe>>

BrokerBack ==
    /\ ~broker /\ broker' = TRUE
    /\ UNCHANGED <<connVars, chanVars, callVars, faults, closer, probe>>

(* A channel exception: the exchange is gone, say.                           *)
LoseChannel ==
    /\ Break
    /\ \E ch \in openChs : /\ openChs' = openChs \ {ch}
                           /\ Trouble({c \in Caller : ProducerOf[c] = ch.of})
    /\ UNCHANGED <<connVars, channel, made, pc, local, result, broker, closer, probe>>

(* main.go, lines 53 and 70; Close, lines 59-69.                             *)
RequestClose ==
    /\ closer = "running" /\ closer' = "closing"
    /\ UNCHANGED <<connVars, chanVars, callVars, brokerVars, probe>>

Close ==
    /\ closer = "closing" /\ closer' = "closed"
    /\ mu = None
    /\ closed' = TRUE
    /\ open' = open \ {conn}
    /\ openChs' = OnOpen(open \ {conn})
    /\ Trouble(Caller)
    /\ UNCHANGED <<mu, conn, dialled, attempt, channel, made, pc, local, result,
                   brokerVars, probe>>

(* ReadinessHandler and IsConnectionOpen, lines 48-57.                       *)
AskReady ==
    /\ probe = "idle" /\ probe' = "waiting"
    /\ UNCHANGED <<connVars, chanVars, callVars, brokerVars, closer>>

IsConnectionOpen ==
    /\ probe = "waiting" /\ probe' = "idle"
    /\ mu = None
    /\ UNCHANGED <<connVars, chanVars, callVars, brokerVars, closer>>

PublishStep(c) ==
    \/ CheckChannel(c)
    \/ OpenConnection(c)
    \/ Dial(c)
    \/ OpenChannel(c)
    \/ StoreChannel(c)
    \/ SendMessage(c)

Next ==
    \/ \E c \in Caller : StartPublish(c) \/ PublishStep(c)
    \/ LoseConnection \/ BrokerBack \/ LoseChannel
    \/ RequestClose \/ Close
    \/ AskReady \/ IsConnectionOpen

Spec == Init /\ [][Next]_vars

(* The scheduler runs every goroutine, dials and sleeps end, and a           *)
(* sync.RWMutex starves neither readers nor writers.                         *)
FairSpec ==
    /\ Spec
    /\ \A c \in Caller : WF_vars(PublishStep(c)) /\ SF_vars(OpenConnection(c))
    /\ SF_vars(Close) /\ SF_vars(IsConnectionOpen)

----------------------------------------------------------------------------
(* Properties                                                                *)

(* However many goroutines find the connection dead at once, the process     *)
(* never holds two open connections: the one in the struct is the only one   *)
(* that can be open (lines 79-83 look again under the mutex).                *)
OnlyOneConnection == open \subseteq {conn}

(* Once Close has returned no connection and no channel is open, and none    *)
(* is ever opened again, also by a publisher that was waiting for the mutex  *)
(* (line 75) or was about to retry.                                          *)
NothingOutlivesClose == closer = "closed" => open = {} /\ openChs = {}

(* A publish that fails has met with something: a fault while it ran, or     *)
(* while a call on the same producer ran that was under way when it began.   *)
(* The second half is the price of line 51: a slow goroutine can put a dead  *)
(* channel back under another one's feet.                                    *)
FailureHasCause == \A c \in Caller : result[c] = "error" => trouble[c]

(* A producer with one user (guest communication: the consumer's loop) never *)
(* leaks a channel: what is open for it is in the struct or about to be.     *)
SoleUserKeepsItsChannel ==
    \A c \in Caller :
        (\A d \in Caller : ProducerOf[d] = ProducerOf[c] => d = c) =>
            \A ch \in openChs : ch.of = ProducerOf[c] =>
                ch = MyChannel(c) \/ (pc[c] = "store" /\ ch = local[c].ch)

(* Whoever needs the mutex gets it, although a redial keeps it while it      *)
(* sleeps: every publish returns, the probe is answered, shutdown goes on.   *)
NobodyWaitsForever ==
    /\ \A c \in Caller : pc[c] = "check" ~> pc[c] = "idle"
    /\ probe = "waiting" ~> probe = "idle"
    /\ closer = "closing" ~> closer = "closed"

(* After the last fault, and once the broker is back, publishing works again *)
(* for callers that keep trying (as the requeued messages make the consumer  *)
(* do), whatever channels they have put into the struct meanwhile.           *)
PublishingRecovers ==
    (\A c \in Caller : []<>InFlight(c)) /\ <>[]broker =>
        \A c \in Caller : []<>(result[c] = "ok" \/ closer # "running")
==============================================================================
