----------------------- MODULE RabbitMqConnectionProofs -----------------------
(***************************************************************************)
(* Theorems about RabbitMqConnection for every set of callers and           *)
(* producers, every number of dial attempts and every number of faults.     *)
(***************************************************************************)
EXTENDS RabbitMqConnection, TLAPS

(***************************************************************************)
(* The inductive invariant: who redials holds the mutex, has seen that the  *)
(* process is not closed and that its connection is not open; and while     *)
(* someone holds the mutex Close waits, so both stay true.                  *)
(***************************************************************************)
MutexInv == \A c \in Caller : pc[c] = "dial" => mu = c /\ ~closed /\ open = {}

ConnectionInv == open \subseteq {conn} /\ open \subseteq 1..dialled

ChannelInv == \A ch \in openChs : ch.conn \in open

(* A call that is about to store a channel has one.                          *)
LocalInv == \A c \in Caller : pc[c] = "store" => local[c].ch \in Channel

CloseInv == /\ closer = "closed" <=> closed
            /\ closed => open = {}

IInv == TypeOK /\ MutexInv /\ ConnectionInv /\ ChannelInv /\ LocalInv /\ CloseInv

(* The type invariant, part by part.                                         *)
ConnTyped == /\ mu \in Caller \cup {None} /\ conn \in Nat /\ dialled \in Nat
             /\ open \subseteq Nat /\ closed \in BOOLEAN /\ attempt \in 1..rabbitDialAttempts
ChanTyped == /\ channel \in [Producer -> Channel] /\ made \in Nat /\ openChs \subseteq Channel
CallTyped == /\ pc \in [Caller -> CallAt] /\ local \in [Caller -> Locals]
             /\ result \in [Caller -> {"none", "ok", "error"}]
             /\ trouble \in [Caller -> BOOLEAN]
EnvTyped  == /\ broker \in BOOLEAN /\ faults \in 0..MaxFaults
             /\ closer \in {"running", "closing", "closed"} /\ probe \in {"idle", "waiting"}

----------------------------------------------------------------------------
(* The type invariant is the conjunction of its parts.                       *)
LEMMA TypeParts == /\ TypeOK <=> ConnTyped /\ ChanTyped /\ CallTyped /\ EnvTyped
                   /\ TypeOK' <=> ConnTyped' /\ ChanTyped' /\ CallTyped' /\ EnvTyped'
<1>1. TypeOK <=> ConnTyped /\ ChanTyped /\ CallTyped /\ EnvTyped
    BY DEF TypeOK, ConnTyped, ChanTyped, CallTyped, EnvTyped
<1>2. TypeOK' <=> ConnTyped' /\ ChanTyped' /\ CallTyped' /\ EnvTyped'
    BY DEF TypeOK, ConnTyped, ChanTyped, CallTyped, EnvTyped
<1> QED
    BY <1>1, <1>2

(* Fresh local variables are of their type.                                  *)
LEMMA FreshLocals == NoLocals \in Locals
    BY DEF NoLocals, Locals

(* A freshly connected process satisfies the invariant.                      *)
LEMMA InvInit == ConnectionAssumption /\ Init => IInv
<1> SUFFICES ASSUME ConnectionAssumption, Init PROVE IInv
    OBVIOUS
<1>1. ConnTyped
  <2>1. attempt \in 1..rabbitDialAttempts
      BY DEF ConnectionAssumption, Init
  <2>2. mu \in Caller \cup {None} /\ conn \in Nat /\ dialled \in Nat /\ closed \in BOOLEAN
      BY DEF Init
  <2>3. open \subseteq Nat
      BY DEF Init
  <2> QED
      BY <2>1, <2>2, <2>3 DEF ConnTyped
<1>2. EnvTyped
    BY DEF ConnectionAssumption, Init, EnvTyped
<1>3. ChanTyped
    BY DEF Init, ChanTyped, Channel
<1>4. CallTyped
    BY FreshLocals DEF Init, CallTyped, CallAt
<1>5. MutexInv /\ LocalInv
    BY DEF Init, MutexInv, LocalInv
<1>6. ConnectionInv /\ ChannelInv /\ CloseInv
    BY DEF Init, ConnectionInv, ChannelInv, CloseInv
<1> QED
    BY <1>1, <1>2, <1>3, <1>4, <1>5, <1>6, TypeParts DEF IInv

(* A step of call c that neither begins a redial nor has a channel to store  *)
(* keeps what is known of the others.                                        *)
LEMMA OtherCalls ==
    ASSUME IInv, NEW c \in Caller, UNCHANGED <<mu, closed, open>>,
           pc'[c] \notin {"dial", "store"},
           \A d \in Caller : d # c => pc'[d] = pc[d] /\ local'[d] = local[d]
    PROVE  MutexInv' /\ LocalInv'
    BY DEF IInv, MutexInv, LocalInv

(* Steps of a call that leave the connection, the channels and the mutex     *)
(* alone.                                                                    *)
LEMMA LocalStep ==
    ASSUME IInv, NEW c \in Caller, StartPublish(c) \/ CheckChannel(c) \/ SendMessage(c)
    PROVE  IInv'
<1> USE DEF IInv
<1>1. UNCHANGED <<connVars, chanVars, brokerVars, closer, probe>>
    BY DEF StartPublish, CheckChannel, SendMessage
<1>2. CallTyped
    BY TypeParts
<1>3. /\ pc' \in [Caller -> CallAt] /\ result' \in [Caller -> {"none", "ok", "error"}]
      /\ pc'[c] \notin {"dial", "store"}
      /\ \A d \in Caller : d # c => pc'[d] = pc[d]
    BY <1>2 DEF CallTyped, CallAt, StartPublish, CheckChannel, SendMessage, GoTo, Return
<1>4. local' \in [Caller -> Locals] /\ \A d \in Caller : d # c => local'[d] = local[d]
    BY <1>2, FreshLocals DEF CallTyped, StartPublish, CheckChannel, SendMessage, Return
<1>5. trouble' \in [Caller -> BOOLEAN]
  <2>1. CASE StartPublish(c)
    <3> DEFINE t == closed \/ \E d \in Caller :
                       InFlight(d) /\ ProducerOf[d] = ProducerOf[c] /\ trouble[d]
    <3>1. t \in BOOLEAN
        OBVIOUS
    <3>2. trouble' = [trouble EXCEPT ![c] = t]
        BY <2>1 DEF StartPublish
    <3> HIDE DEF t
    <3> QED
        BY <1>2, <3>1, <3>2 DEF CallTyped
  <2> QED
      BY <1>2, <2>1 DEF CallTyped, CheckChannel, SendMessage
<1>6. TypeOK'
  <2>1. ConnTyped' /\ ChanTyped' /\ EnvTyped'
      BY <1>1, TypeParts DEF ConnTyped, ChanTyped, EnvTyped, connVars, chanVars, brokerVars
  <2> QED
      BY <1>3, <1>4, <1>5, <2>1, TypeParts DEF CallTyped
<1>7. MutexInv' /\ LocalInv'
    BY <1>1, <1>3, <1>4, OtherCalls DEF connVars
<1>8. ConnectionInv' /\ ChannelInv' /\ CloseInv'
    BY <1>1 DEF ConnectionInv, ChannelInv, CloseInv, connVars, chanVars
<1> QED
    BY <1>6, <1>7, <1>8

(* openConnection: a redial begins with the mutex taken, the flag not set    *)
(* and the connection dead.                                                  *)
LEMMA OpenConnectionStep ==
    ASSUME ConnectionAssumption, IInv, NEW c \in Caller, OpenConnection(c)
    PROVE  IInv'
<1> USE DEF IInv
<1>1. UNCHANGED <<conn, dialled, open, closed, chanVars, trouble, brokerVars, closer, probe>>
    BY DEF OpenConnection
<1>2. ConnTyped /\ CallTyped /\ mu = None
    BY TypeParts DEF OpenConnection
<1>3. /\ pc' \in [Caller -> CallAt] /\ result' \in [Caller -> {"none", "ok", "error"}]
      /\ pc'[c] # "store"
      /\ pc'[c] = "dial" => mu' = c /\ ~closed /\ conn \notin open
      /\ mu' \in {mu, c} /\ attempt' \in {attempt, 1}
      /\ \A d \in Caller : d # c => pc'[d] = pc[d]
    BY <1>2 DEF CallTyped, CallAt, OpenConnection, UseOpenConnection, StartDialling, GoTo, Return
<1>4. local' \in [Caller -> Locals] /\ \A d \in Caller : d # c => local'[d] = local[d]
  <2>1. PICK l \in Locals : local' = [local EXCEPT ![c] = l]
    <3>1. local[c] \in Locals /\ conn \in Nat
        BY <1>2 DEF ConnTyped, CallTyped
    <3>2. local' \in {local, [local EXCEPT ![c] = NoLocals], [local EXCEPT ![c].conn = conn]}
        BY DEF OpenConnection, UseOpenConnection, StartDialling, Return
    <3>3. [local[c] EXCEPT !.conn = conn] \in Locals
        BY <3>1 DEF Locals
    <3>4. local = [local EXCEPT ![c] = local[c]]
        BY <1>2 DEF CallTyped
    <3> QED
        BY <3>1, <3>2, <3>3, <3>4, FreshLocals
  <2> QED
      BY <1>2, <2>1 DEF CallTyped
<1>5. TypeOK'
  <2>1. ConnTyped'
      BY <1>1, <1>2, <1>3 DEF ConnectionAssumption, ConnTyped
  <2>2. ChanTyped' /\ EnvTyped'
      BY <1>1, TypeParts DEF ChanTyped, EnvTyped, chanVars, brokerVars
  <2>3. CallTyped'
      BY <1>1, <1>2, <1>3, <1>4 DEF CallTyped
  <2> QED
      BY <2>1, <2>2, <2>3, TypeParts
<1>6. MutexInv'
  <2>1. \A d \in Caller : pc[d] # "dial"
      BY <1>2 DEF MutexInv, ConnectionAssumption
  <2> QED
      BY <1>1, <1>3, <2>1 DEF MutexInv, ConnectionInv
<1>7. LocalInv'
    BY <1>3, <1>4 DEF LocalInv
<1>8. ConnectionInv' /\ ChannelInv' /\ CloseInv'
    BY <1>1 DEF ConnectionInv, ChannelInv, CloseInv, chanVars
<1> QED
    BY <1>5, <1>6, <1>7, <1>8

(* A dial that succeeds makes the one open connection.                       *)
LEMMA DialStep ==
    ASSUME ConnectionAssumption, IInv, NEW c \in Caller, Dial(c)
    PROVE  IInv'
<1> USE DEF IInv
<1>1. UNCHANGED <<closed, chanVars, brokerVars, closer, probe>>
    BY DEF Dial
<1>2. ConnTyped /\ CallTyped /\ mu = c /\ ~closed /\ open = {} /\ pc[c] = "dial"
    BY TypeParts DEF MutexInv, Dial
<1>3. /\ pc' \in [Caller -> CallAt] /\ result' \in [Caller -> {"none", "ok", "error"}]
      /\ pc'[c] # "store"
      /\ pc'[c] = "dial" => mu' = mu
      /\ \A d \in Caller : d # c => pc'[d] = pc[d]
    BY <1>2 DEF CallTyped, CallAt, Dial, Connected, GoTo, Return
<1>4. local' \in [Caller -> Locals] /\ \A d \in Caller : d # c => local'[d] = local[d]
    BY <1>2, FreshLocals DEF ConnTyped, CallTyped, Dial, Connected, Return, Locals
<1>5. trouble' \in [Caller -> BOOLEAN]
    BY <1>2 DEF CallTyped, Dial, Connected, Trouble
<1>6. /\ mu' \in {c, None} /\ attempt' \in 1..rabbitDialAttempts
      /\ \/ UNCHANGED <<conn, dialled, open>>
         \/ /\ dialled' = dialled + 1 /\ conn' = dialled + 1
            /\ open' = open \cup {dialled + 1} /\ pc'[c] = "channel"
    BY <1>2 DEF ConnectionAssumption, ConnTyped, CallTyped, Dial, Connected, GoTo
<1>7. TypeOK'
  <2>1. ConnTyped'
      BY <1>1, <1>2, <1>6 DEF ConnTyped
  <2>2. ChanTyped' /\ EnvTyped'
      BY <1>1, TypeParts DEF ChanTyped, EnvTyped, chanVars, brokerVars
  <2>3. CallTyped'
      BY <1>3, <1>4, <1>5 DEF CallTyped
  <2> QED
      BY <2>1, <2>2, <2>3, TypeParts
<1>8. MutexInv'
  <2>1. \A d \in Caller : d # c => pc[d] # "dial"
      BY <1>2 DEF MutexInv
  <2> QED
      BY <1>1, <1>2, <1>3, <1>6, <2>1 DEF MutexInv
<1>9. LocalInv'
    BY <1>3, <1>4 DEF LocalInv
<1>10. ConnectionInv'
    BY <1>2, <1>6 DEF ConnectionInv, ConnTyped
<1>11. ChannelInv' /\ CloseInv'
    BY <1>1, <1>2, <1>6 DEF ChannelInv, CloseInv, chanVars
<1> QED
    BY <1>7, <1>8, <1>9, <1>10, <1>11

(* A channel is opened on an open connection only.                           *)
LEMMA OpenChannelStep ==
    ASSUME ConnectionAssumption, IInv, NEW c \in Caller, OpenChannel(c)
    PROVE  IInv'
<1> USE DEF IInv
<1> DEFINE ch == [conn |-> local[c].conn, of |-> ProducerOf[c], no |-> made + 1]
<1>1. UNCHANGED <<connVars, channel, broker, closer, probe>>
    BY DEF OpenChannel
<1>2. ChanTyped /\ CallTyped /\ EnvTyped
    BY TypeParts
<1>3. ch \in Channel
    BY <1>2 DEF ConnectionAssumption, ChanTyped, CallTyped, Channel, Locals
<1>4. \/ UNCHANGED <<made, openChs>> /\ pc'[c] # "store"
      \/ /\ openChs' = openChs \cup {ch} /\ made' = made + 1
         /\ local[c].conn \in open /\ local' = [local EXCEPT ![c].ch = ch]
    BY <1>2 DEF OpenChannel, Return, GoTo, CallTyped
<1>5. /\ pc' \in [Caller -> CallAt] /\ result' \in [Caller -> {"none", "ok", "error"}]
      /\ pc'[c] # "dial"
      /\ \A d \in Caller : d # c => pc'[d] = pc[d]
    BY <1>2 DEF CallTyped, CallAt, OpenChannel, GoTo, Return
<1>6. local' \in [Caller -> Locals] /\ \A d \in Caller : d # c => local'[d] = local[d]
  <2>1. \/ local' = [local EXCEPT ![c].ch = ch]
        \/ local' = [local EXCEPT ![c] = NoLocals]
        \/ local' = [local EXCEPT ![c].retried = TRUE]
      BY DEF OpenChannel, Return
  <2>2. local \in [Caller -> Locals]
      BY <1>2 DEF CallTyped
  <2>3. CASE local' = [local EXCEPT ![c].ch = ch]
    <3> HIDE DEF ch
    <3>1. [local[c] EXCEPT !.ch = ch] \in Locals
        BY <1>3, <2>2 DEF Locals
    <3> QED
        BY <2>2, <2>3, <3>1
  <2>4. CASE local' = [local EXCEPT ![c] = NoLocals]
      BY <2>2, <2>4, FreshLocals
  <2>5. CASE local' = [local EXCEPT ![c].retried = TRUE]
    <3>1. [local[c] EXCEPT !.retried = TRUE] \in Locals
        BY <2>2 DEF Locals
    <3> QED
        BY <2>2, <2>5, <3>1
  <2> QED
      BY <2>1, <2>3, <2>4, <2>5
<1>7. trouble' \in [Caller -> BOOLEAN] /\ faults' \in 0..MaxFaults
  <2>1. trouble' = trouble \/ Trouble({c})
      BY DEF OpenChannel
  <2>2. faults' = faults \/ Break
      BY DEF OpenChannel
  <2>3. trouble' \in [Caller -> BOOLEAN]
      BY <1>2, <2>1 DEF CallTyped, Trouble
  <2>4. faults' \in 0..MaxFaults
      BY <1>2, <2>2 DEF ConnectionAssumption, EnvTyped, Break
  <2> QED
      BY <2>3, <2>4
<1>8. TypeOK'
  <2>1. ConnTyped' /\ EnvTyped'
      BY <1>1, <1>2, <1>7, TypeParts DEF ConnTyped, EnvTyped, connVars
  <2>2. ChanTyped'
      BY <1>1, <1>2, <1>3, <1>4 DEF ChanTyped
  <2>3. CallTyped'
      BY <1>5, <1>6, <1>7 DEF CallTyped
  <2> QED
      BY <2>1, <2>2, <2>3, TypeParts
<1>9. MutexInv'
    BY <1>1, <1>5 DEF MutexInv, connVars
<1>10. LocalInv'
  <2>1. pc'[c] = "store" => local'[c].ch \in Channel
      BY <1>2, <1>3, <1>4 DEF CallTyped, Locals
  <2> QED
      BY <1>5, <1>6, <2>1 DEF LocalInv
<1>11. ConnectionInv' /\ CloseInv'
    BY <1>1 DEF ConnectionInv, CloseInv, connVars
<1>12. ChannelInv'
    BY <1>1, <1>4 DEF ChannelInv, connVars
<1> QED
    BY <1>8, <1>9, <1>10, <1>11, <1>12

(* Line 51: the struct always gets a channel, never nil.                     *)
LEMMA StoreChannelStep ==
    ASSUME ConnectionAssumption, IInv, NEW c \in Caller, StoreChannel(c)
    PROVE  IInv'
<1> USE DEF IInv
<1>1. UNCHANGED <<connVars, made, openChs, local, result, trouble, brokerVars, closer, probe>>
    BY DEF StoreChannel, GoTo
<1>2. ChanTyped /\ CallTyped
    BY TypeParts
<1>3. channel' \in [Producer -> Channel]
    BY <1>2 DEF ConnectionAssumption, ChanTyped, StoreChannel, LocalInv
<1>4. /\ pc' \in [Caller -> CallAt] /\ pc'[c] \notin {"dial", "store"}
      /\ \A d \in Caller : d # c => pc'[d] = pc[d]
    BY <1>2 DEF CallTyped, CallAt, StoreChannel, GoTo
<1>5. TypeOK'
  <2>1. ConnTyped' /\ EnvTyped'
      BY <1>1, TypeParts DEF ConnTyped, EnvTyped, connVars, brokerVars
  <2>2. ChanTyped' /\ CallTyped'
      BY <1>1, <1>2, <1>3, <1>4 DEF ChanTyped, CallTyped
  <2> QED
      BY <2>1, <2>2, TypeParts
<1>6. MutexInv' /\ LocalInv'
    BY <1>1, <1>4, OtherCalls DEF connVars
<1>7. ConnectionInv' /\ ChannelInv' /\ CloseInv'
    BY <1>1 DEF ConnectionInv, ChannelInv, CloseInv, connVars
<1> QED
    BY <1>5, <1>6, <1>7

(* The broker and the network only take connections and channels away; Close *)
(* takes the mutex, so no one is redialling, and closes the only connection  *)
(* that can be open.                                                         *)
LEMMA SurroundingStep ==
    ASSUME ConnectionAssumption, IInv,
           \/ LoseConnection \/ LoseChannel \/ BrokerBack
           \/ RequestClose \/ Close \/ AskReady \/ IsConnectionOpen
    PROVE  IInv'
<1> USE DEF IInv
<1>1. UNCHANGED <<mu, conn, dialled, attempt, channel, made, pc, local, result>>
    BY DEF LoseConnection, LoseChannel, BrokerBack, RequestClose, Close, AskReady,
       IsConnectionOpen, connVars, chanVars, callVars
<1>2. /\ open' \subseteq open /\ openChs' \subseteq openChs
      /\ \A ch \in openChs' : ch.conn \in open'
    BY DEF LoseConnection, LoseChannel, BrokerBack, RequestClose, Close, AskReady,
       IsConnectionOpen, OnOpen, connVars, chanVars, ChannelInv
<1>3. \/ UNCHANGED closed /\ (closer' = "closed" <=> closer = "closed")
      \/ /\ closed' = TRUE /\ closer' = "closed" /\ mu = None
         /\ open' = open \ {conn}
    BY DEF LoseConnection, LoseChannel, BrokerBack, RequestClose, Close, AskReady,
       IsConnectionOpen, connVars
<1>4. TypeOK'
  <2>1. trouble' \in [Caller -> BOOLEAN]
      BY TypeParts DEF CallTyped, LoseConnection, LoseChannel, BrokerBack, RequestClose, Close,
         AskReady, IsConnectionOpen, callVars, Trouble
  <2>2. EnvTyped'
    <3>1. EnvTyped
        BY TypeParts
    <3>2. faults' = faults \/ Break
        BY DEF LoseConnection, LoseChannel, BrokerBack, RequestClose, Close, AskReady,
           IsConnectionOpen, brokerVars
    <3>3. faults' \in 0..MaxFaults
        BY <3>1, <3>2 DEF ConnectionAssumption, EnvTyped, Break
    <3>4. broker' \in BOOLEAN
        BY <3>1 DEF EnvTyped, LoseConnection, LoseChannel, BrokerBack, RequestClose, Close,
           AskReady, IsConnectionOpen, brokerVars
    <3>5. /\ closer' \in {"running", "closing", "closed"}
          /\ probe' \in {"idle", "waiting"}
        BY <3>1 DEF EnvTyped, LoseConnection, LoseChannel, BrokerBack, RequestClose, Close,
           AskReady, IsConnectionOpen
    <3> QED
        BY <3>3, <3>4, <3>5 DEF EnvTyped
  <2>3. ConnTyped'
      BY <1>1, <1>2, <1>3, TypeParts DEF ConnTyped
  <2>4. ChanTyped' /\ CallTyped'
      BY <1>1, <1>2, <2>1, TypeParts DEF ChanTyped, CallTyped
  <2> QED
      BY <2>2, <2>3, <2>4, TypeParts
<1>5. MutexInv'
    BY <1>1, <1>2, <1>3 DEF MutexInv, ConnectionAssumption
<1>6. LocalInv'
    BY <1>1 DEF LocalInv
<1>7. ConnectionInv' /\ ChannelInv'
    BY <1>1, <1>2 DEF ConnectionInv, ChannelInv
<1>8. CloseInv'
    BY <1>2, <1>3 DEF CloseInv, ConnectionInv
<1> QED
    BY <1>4, <1>5, <1>6, <1>7, <1>8

(* Every step of the callers, of the broker and of shutdown keeps the        *)
(* invariant.                                                                *)
LEMMA InvStep == ConnectionAssumption /\ IInv /\ [Next]_vars => IInv'
<1> SUFFICES ASSUME ConnectionAssumption, IInv, [Next]_vars PROVE IInv'
    OBVIOUS
<1>1. ASSUME NEW c \in Caller, StartPublish(c) \/ PublishStep(c) PROVE IInv'
    BY <1>1, LocalStep, OpenConnectionStep, DialStep, OpenChannelStep, StoreChannelStep
    DEF PublishStep
<1>2. CASE UNCHANGED vars
    BY <1>2 DEF vars, connVars, chanVars, callVars, brokerVars, IInv, TypeOK, MutexInv,
       ConnectionInv, ChannelInv, LocalInv, CloseInv
<1> QED
    BY <1>1, <1>2, SurroundingStep DEF Next

(* The invariant holds whatever callers, faults and shutdown do.             *)
THEOREM Invariance == Spec => []IInv
    BY ConnectionAssumption, InvInit, InvStep, PTL DEF Spec

(* Every variable keeps its type; in particular no producer ever holds a nil *)
(* channel once infra.Init is through, and the dials of a redial are counted *)
(* right.                                                                    *)
THEOREM TypeCorrect == Spec => []TypeOK
<1>1. IInv => TypeOK
    BY DEF IInv
<1> QED
    BY <1>1, Invariance, PTL

(* The process never holds two open connections.                             *)
THEOREM OneConnection == Spec => []OnlyOneConnection
<1>1. IInv => OnlyOneConnection
    BY DEF IInv, ConnectionInv, OnlyOneConnection
<1> QED
    BY <1>1, Invariance, PTL

(* After Close no connection and no channel is open.                         *)
THEOREM ClosedForGood == Spec => []NothingOutlivesClose
<1>1. IInv => NothingOutlivesClose
    BY DEF IInv, CloseInv, ChannelInv, NothingOutlivesClose
<1> QED
    BY <1>1, Invariance, PTL
----------------------------------------------------------------------------
(***************************************************************************)
(* No leak for a sole user. A call that is about to open a channel has seen *)
(* that the one in the struct is dead, and nobody else can replace it; the   *)
(* numbers say that a new channel is none of the old ones.                   *)
(***************************************************************************)
NumberInv == /\ \A p \in Producer : channel[p].no <= made /\ channel[p].of = p
             /\ \A c \in Caller : pc[c] = "store" =>
                    local[c].ch.no <= made /\ local[c].ch.of = ProducerOf[c]

Sole(c) == \A d \in Caller : ProducerOf[d] = ProducerOf[c] => d = c
Opening == {"lock", "dial", "channel", "store"}

SoleInv ==
    /\ \A c \in Caller : Sole(c) /\ pc[c] \in Opening => MyChannel(c) \notin openChs
    /\ SoleUserKeepsItsChannel

(* A step that makes and stores no channel keeps both.                       *)
LEMMA QuietStep ==
    ASSUME NumberInv, SoleInv, UNCHANGED <<channel, made>>, openChs' \subseteq openChs,
           \A c \in Caller : /\ pc'[c] = "store" <=> pc[c] = "store"
                             /\ pc[c] = "store" => local'[c].ch = local[c].ch
                             /\ pc'[c] \in Opening =>
                                    pc[c] \in Opening \/ MyChannel(c) \notin openChs
    PROVE  NumberInv' /\ SoleInv'
<1>1. NumberInv'
    BY DEF NumberInv
<1>2. \A c \in Caller : MyChannel(c)' = MyChannel(c) /\ (Sole(c)' <=> Sole(c))
    BY DEF MyChannel, Sole
<1>3. \A c \in Caller : Sole(c) /\ pc'[c] \in Opening => MyChannel(c) \notin openChs
    BY DEF SoleInv
<1>4. SoleUserKeepsItsChannel'
  <2> SUFFICES ASSUME NEW c \in Caller, Sole(c), NEW ch \in openChs', ch.of = ProducerOf[c]
               PROVE  ch = MyChannel(c) \/ (pc'[c] = "store" /\ ch = local'[c].ch)
      BY <1>2 DEF SoleUserKeepsItsChannel, Sole
  <2>1. ch = MyChannel(c) \/ (pc[c] = "store" /\ ch = local[c].ch)
      BY DEF SoleInv, SoleUserKeepsItsChannel, Sole
  <2> QED
      BY <2>1
<1> QED
    BY <1>1, <1>2, <1>3, <1>4 DEF SoleInv

(* All steps of a call but the two that make and store its channel.          *)
LEMMA QuietCallStep ==
    ASSUME IInv, NumberInv, SoleInv, NEW c \in Caller,
           \/ StartPublish(c) \/ CheckChannel(c) \/ OpenConnection(c) \/ Dial(c) \/ SendMessage(c)
    PROVE  NumberInv' /\ SoleInv'
<1>1. UNCHANGED <<channel, made, openChs>>
    BY DEF StartPublish, CheckChannel, OpenConnection, Dial, SendMessage, chanVars
<1>2. CallTyped
    BY TypeParts DEF IInv
<1>3. \A d \in Caller : d # c => pc'[d] = pc[d] /\ local'[d] = local[d]
    BY <1>2 DEF CallTyped, StartPublish, CheckChannel, OpenConnection, UseOpenConnection,
       StartDialling, Dial, Connected, SendMessage, GoTo, Return
<1>4. pc[c] # "store" /\ pc'[c] # "store"
    BY <1>2 DEF CallTyped, StartPublish, CheckChannel, OpenConnection, UseOpenConnection,
       StartDialling, Dial, Connected, SendMessage, GoTo, Return
<1>5. pc'[c] \in Opening => pc[c] \in Opening \/ MyChannel(c) \notin openChs
  <2>1. CASE StartPublish(c)
      BY <1>2, <2>1 DEF CallTyped, StartPublish, Opening
  <2>2. CASE CheckChannel(c)
      BY <1>2, <2>2 DEF CallTyped, CheckChannel, GoTo, Opening
  <2>3. CASE OpenConnection(c) \/ Dial(c)
      BY <2>3 DEF OpenConnection, Dial, Opening
  <2>4. CASE SendMessage(c)
      BY <1>2, <2>4 DEF CallTyped, SendMessage, Return, Opening
  <2> QED
      BY <2>1, <2>2, <2>3, <2>4
<1> QED
    BY <1>1, <1>3, <1>4, <1>5, QuietStep

(* A new channel has a new number: it is not the dead one of a sole user.    *)
LEMMA NewChannelStep ==
    ASSUME ConnectionAssumption, IInv, NumberInv, SoleInv, NEW c \in Caller, OpenChannel(c)
    PROVE  NumberInv' /\ SoleInv'
<1> DEFINE ch == [conn |-> local[c].conn, of |-> ProducerOf[c], no |-> made + 1]
<1>1. ChanTyped /\ CallTyped /\ pc[c] = "channel" /\ channel' = channel
    BY TypeParts DEF IInv, OpenChannel
<1>2. \A d \in Caller : d # c => pc'[d] = pc[d] /\ local'[d] = local[d]
    BY <1>1 DEF CallTyped, OpenChannel, GoTo, Return
<1>3. CASE UNCHANGED <<made, openChs>>
  <2>1. pc'[c] # "store"
      BY <1>1, <1>3 DEF ChanTyped, CallTyped, OpenChannel, GoTo, Return
  <2> QED
      BY <1>1, <1>2, <1>3, <2>1, QuietStep DEF Opening
<1>4. CASE /\ openChs' = openChs \cup {ch} /\ made' = made + 1
           /\ local' = [local EXCEPT ![c].ch = ch] /\ GoTo(c, "store")
  <2>1. pc'[c] = "store" /\ local'[c].ch = ch
      BY <1>1, <1>4 DEF CallTyped, GoTo, Locals
  <2>2. \A p \in Producer : channel[p] # ch /\ channel[p].no <= made + 1
      BY <1>1 DEF NumberInv, ChanTyped, Channel
  <2>3. \A d \in Caller : pc[d] = "store" => local[d].ch.no <= made + 1
      BY <1>1 DEF NumberInv, ChanTyped, IInv, LocalInv, Channel
  <2>4. NumberInv'
    <3>1. \A p \in Producer : channel'[p].no <= made' /\ channel'[p].of = p
        BY <1>1, <1>4, <2>2 DEF NumberInv
    <3>2. \A d \in Caller : pc'[d] = "store" =>
              local'[d].ch.no <= made' /\ local'[d].ch.of = ProducerOf[d]
      <4>1. ch.no <= made' /\ ch.of = ProducerOf[c]
          BY <1>1, <1>4 DEF ChanTyped
      <4> HIDE DEF ch
      <4> QED
          BY <1>2, <1>4, <2>1, <2>3, <4>1 DEF NumberInv
    <3> QED
        BY <3>1, <3>2 DEF NumberInv
  <2>5. \A d \in Caller : MyChannel(d)' = MyChannel(d) /\ MyChannel(d) # ch
      BY <1>1, <2>2 DEF MyChannel, ConnectionAssumption
  <2>6. ch.of = ProducerOf[c]
      OBVIOUS
  <2> HIDE DEF ch
  <2>7. \A d \in Caller : Sole(d) /\ pc'[d] \in Opening => MyChannel(d)' \notin openChs'
      BY <1>1, <1>2, <1>4, <2>1, <2>5 DEF SoleInv, Opening
  <2>8. SoleUserKeepsItsChannel'
    <3> SUFFICES ASSUME NEW d \in Caller, Sole(d), NEW k \in openChs', k.of = ProducerOf[d]
                 PROVE  k = MyChannel(d) \/ (pc'[d] = "store" /\ k = local'[d].ch)
        BY <2>5 DEF SoleUserKeepsItsChannel, Sole
    <3>1. CASE k = ch
        BY <2>1, <2>6, <3>1 DEF Sole
    <3>2. CASE k \in openChs
      <4>1. k = MyChannel(d) \/ (pc[d] = "store" /\ k = local[d].ch)
          BY <3>2 DEF SoleInv, SoleUserKeepsItsChannel, Sole
      <4> QED
          BY <1>1, <1>2, <4>1
    <3> QED
        BY <1>4, <3>1, <3>2
  <2> QED
      BY <2>4, <2>7, <2>8 DEF SoleInv, Sole
<1> QED
    BY <1>3, <1>4 DEF OpenChannel

(* Line 51: what it overwrites is dead, when nobody else uses the producer.  *)
LEMMA StoredChannelStep ==
    ASSUME ConnectionAssumption, IInv, NumberInv, SoleInv, NEW c \in Caller, StoreChannel(c)
    PROVE  NumberInv' /\ SoleInv'
<1>1. /\ ChanTyped /\ CallTyped /\ pc[c] = "store"
      /\ UNCHANGED <<made, openChs, local>>
    BY TypeParts DEF IInv, StoreChannel, chanVars
<1>2. /\ pc'[c] = "send"
      /\ \A d \in Caller : d # c => pc'[d] = pc[d]
    BY <1>1 DEF CallTyped, StoreChannel, GoTo
<1>3. /\ channel'[ProducerOf[c]] = local[c].ch
      /\ \A p \in Producer : p # ProducerOf[c] => channel'[p] = channel[p]
    BY <1>1 DEF ChanTyped, ConnectionAssumption, StoreChannel
<1>4. NumberInv'
    BY <1>1, <1>2, <1>3 DEF NumberInv, ConnectionAssumption
<1>5. \A d \in Caller : Sole(d) /\ d # c => MyChannel(d)' = MyChannel(d)
    BY <1>3 DEF MyChannel, Sole, ConnectionAssumption
<1>6. \A d \in Caller : Sole(d) /\ pc'[d] \in Opening => MyChannel(d)' \notin openChs'
    BY <1>1, <1>2, <1>5 DEF SoleInv, Opening
<1>7. SoleUserKeepsItsChannel'
  <2> SUFFICES ASSUME NEW d \in Caller, Sole(d), NEW k \in openChs, k.of = ProducerOf[d]
               PROVE  k = MyChannel(d)' \/ (pc'[d] = "store" /\ k = local'[d].ch)
      BY <1>1 DEF SoleUserKeepsItsChannel, Sole
  <2>1. k = MyChannel(d) \/ (pc[d] = "store" /\ k = local[d].ch)
      BY DEF SoleInv, SoleUserKeepsItsChannel, Sole
  <2>2. CASE d = c
      BY <1>1, <1>3, <2>1, <2>2 DEF SoleInv, Opening, MyChannel
  <2>3. CASE d # c
      BY <1>1, <1>2, <1>5, <2>1, <2>3
  <2> QED
      BY <2>2, <2>3
<1> QED
    BY <1>4, <1>6, <1>7 DEF SoleInv, Sole

(* The inductive step of the two.                                            *)
LEMMA SoleStep ==
    ConnectionAssumption /\ IInv /\ NumberInv /\ SoleInv /\ [Next]_vars => NumberInv' /\ SoleInv'
<1> SUFFICES ASSUME ConnectionAssumption, IInv, NumberInv, SoleInv, [Next]_vars
             PROVE  NumberInv' /\ SoleInv'
    OBVIOUS
<1>1. ASSUME NEW c \in Caller, StartPublish(c) \/ PublishStep(c) PROVE NumberInv' /\ SoleInv'
    BY <1>1, QuietCallStep, NewChannelStep, StoredChannelStep DEF PublishStep
<1>2. CASE \/ LoseConnection \/ LoseChannel \/ BrokerBack
           \/ RequestClose \/ Close \/ AskReady \/ IsConnectionOpen
  <2>1. UNCHANGED <<channel, made, pc, local>>
      BY <1>2 DEF LoseConnection, LoseChannel, BrokerBack, RequestClose, Close, AskReady,
         IsConnectionOpen, chanVars, callVars
  <2>2. openChs' \subseteq openChs
      BY <1>2 DEF LoseConnection, LoseChannel, BrokerBack, RequestClose, Close, AskReady,
         IsConnectionOpen, OnOpen, chanVars
  <2> QED
      BY <2>1, <2>2, QuietStep
<1>3. CASE UNCHANGED vars
    BY <1>3, QuietStep DEF vars, chanVars, callVars
<1> QED
    BY <1>1, <1>2, <1>3 DEF Next

(* Both hold in every reachable state.                                       *)
LEMMA NumbersKept == Spec => [](NumberInv /\ SoleInv)
<1>1. Init => NumberInv /\ SoleInv
  <2> SUFFICES ASSUME Init PROVE NumberInv /\ SoleInv
      OBVIOUS
  <2>1. NumberInv
      BY DEF Init, NumberInv
  <2>2. \A c \in Caller : pc[c] \notin Opening
      BY DEF Init, Opening
  <2>3. SoleUserKeepsItsChannel
      BY ConnectionAssumption DEF Init, SoleUserKeepsItsChannel, MyChannel, ConnectionAssumption
  <2> QED
      BY <2>1, <2>2, <2>3 DEF SoleInv
<1> QED
    BY <1>1, SoleStep, Invariance, ConnectionAssumption, PTL DEF Spec

(* A producer with one user keeps track of every channel that is open for it. *)
THEOREM SoleUsersKeepTheirChannels == Spec => []SoleUserKeepsItsChannel
<1>1. NumberInv /\ SoleInv => SoleUserKeepsItsChannel
    BY DEF SoleInv
<1> QED
    BY <1>1, NumbersKept, PTL

----------------------------------------------------------------------------
(***************************************************************************)
(* Failures have causes. Wherever a call may meet with something dead, it   *)
(* has trouble already; and whoever is about to put a dead channel into the *)
(* struct has passed its trouble on to all calls that share the producer.   *)
(***************************************************************************)
ClosedCause  == closed => \A c \in Caller : InFlight(c) => trouble[c]
ChannelCause == \A c \in Caller : pc[c] = "channel" /\ local[c].conn \notin open => trouble[c]
SendCause    == \A c \in Caller : pc[c] = "send" /\ MyChannel(c) \notin openChs => trouble[c]
StoreCause   == \A c, d \in Caller :
                    /\ pc[d] = "store" /\ local[d].ch \notin openChs
                    /\ InFlight(c) /\ ProducerOf[c] = ProducerOf[d]
                    => trouble[c]

CauseInv == ClosedCause /\ ChannelCause /\ SendCause /\ StoreCause /\ FailureHasCause

(* A call begins with the trouble of those it shares its producer with.      *)
LEMMA StartCause ==
    ASSUME IInv, CauseInv, NEW c \in Caller, StartPublish(c) PROVE CauseInv'
<1> DEFINE t == closed \/ \E d \in Caller :
                    InFlight(d) /\ ProducerOf[d] = ProducerOf[c] /\ trouble[d]
<1>1. /\ CallTyped /\ UNCHANGED <<closed, open, channel, openChs, local>>
      /\ trouble' = [trouble EXCEPT ![c] = t]
    BY TypeParts DEF IInv, StartPublish, connVars, chanVars
<1>2. /\ pc'[c] = "check" /\ pc[c] = "idle" /\ result'[c] = "none"
      /\ \A d \in Caller : d # c => pc'[d] = pc[d] /\ result'[d] = result[d]
    BY <1>1 DEF CallTyped, StartPublish
<1>3. trouble'[c] = t /\ \A d \in Caller : d # c => trouble'[d] = trouble[d]
  <2> HIDE DEF t
  <2> QED
      BY <1>1 DEF CallTyped
<1>4. ClosedCause'
    BY <1>1, <1>2, <1>3 DEF CauseInv, ClosedCause, InFlight
<1>5. ChannelCause' /\ FailureHasCause'
    BY <1>1, <1>2, <1>3 DEF CauseInv, ChannelCause, FailureHasCause
<1>6. SendCause'
    BY <1>1, <1>2, <1>3 DEF CauseInv, SendCause, MyChannel
<1>7. StoreCause'
  <2> SUFFICES ASSUME NEW a \in Caller, NEW d \in Caller,
                      pc'[d] = "store", local[d].ch \notin openChs,
                      InFlight(a)', ProducerOf[a] = ProducerOf[d]
               PROVE  trouble'[a]
      BY <1>1 DEF StoreCause
  <2>1. pc[d] = "store" /\ InFlight(d)
      BY <1>2 DEF InFlight
  <2>2. CASE a = c
    <3>1. trouble[d]
        BY <2>1 DEF CauseInv, StoreCause
    <3> QED
        BY <1>3, <2>1, <2>2, <3>1
  <2>3. CASE a # c
      BY <1>2, <1>3, <2>1, <2>3 DEF CauseInv, StoreCause, InFlight
  <2> QED
      BY <2>2, <2>3
<1> QED
    BY <1>4, <1>5, <1>6, <1>7 DEF CauseInv

(* Steps of one call that change neither channels nor what is open: it is     *)
(* enough to look at this call.                                              *)
LEMMA OwnCause ==
    ASSUME CauseInv, NEW c \in Caller,
           UNCHANGED <<closed, channel, openChs>>, open \subseteq open',
           \A d \in Caller : trouble[d] => trouble'[d],
           \A d \in Caller : d # c =>
               pc'[d] = pc[d] /\ local'[d] = local[d] /\ result'[d] = result[d],
           pc[c] # "idle", pc'[c] # "store",
           pc'[c] = "channel" /\ local'[c].conn \notin open' => trouble'[c],
           pc'[c] = "send" /\ MyChannel(c) \notin openChs => trouble'[c],
           result'[c] = "error" => trouble'[c]
    PROVE  CauseInv'
<1>1. ClosedCause'
    BY DEF CauseInv, ClosedCause, InFlight
<1>2. ChannelCause' /\ FailureHasCause'
    BY DEF CauseInv, ChannelCause, FailureHasCause
<1>3. SendCause'
    BY DEF CauseInv, SendCause, MyChannel
<1>4. StoreCause'
    BY DEF CauseInv, StoreCause, InFlight
<1> QED
    BY <1>1, <1>2, <1>3, <1>4 DEF CauseInv

(* The steps up to the connection, and the send.                             *)
LEMMA ConnectCause ==
    ASSUME IInv, CauseInv, NEW c \in Caller,
           CheckChannel(c) \/ OpenConnection(c) \/ Dial(c) \/ SendMessage(c)
    PROVE  CauseInv'
<1>1. CallTyped /\ ConnTyped
    BY TypeParts DEF IInv
<1>2. UNCHANGED <<closed, channel, openChs>> /\ open \subseteq open' /\ pc[c] # "idle"
    BY DEF CheckChannel, OpenConnection, Dial, Connected, SendMessage, connVars, chanVars
<1>3. \A d \in Caller : trouble[d] => trouble'[d]
    BY <1>1 DEF CallTyped, CheckChannel, OpenConnection, Dial, Connected, SendMessage, Trouble
<1>4. \A d \in Caller : d # c =>
          pc'[d] = pc[d] /\ local'[d] = local[d] /\ result'[d] = result[d]
    BY <1>1 DEF CallTyped, CheckChannel, OpenConnection, UseOpenConnection, StartDialling, Dial,
       Connected, SendMessage, GoTo, Return
<1>5. pc'[c] # "store"
    BY <1>1 DEF CallTyped, CheckChannel, OpenConnection, UseOpenConnection, StartDialling, Dial,
       Connected, SendMessage, GoTo, Return
<1>6. pc'[c] = "channel" => local'[c].conn \in open'
    BY <1>1 DEF CallTyped, ConnTyped, Locals, CheckChannel, OpenConnection, UseOpenConnection,
       StartDialling, Dial, Connected, SendMessage, GoTo, Return
<1>7. pc'[c] = "send" => MyChannel(c) \in openChs
    BY <1>1 DEF CallTyped, CheckChannel, OpenConnection, UseOpenConnection, StartDialling, Dial,
       Connected, SendMessage, GoTo, Return
<1>8. result'[c] = "error" => trouble'[c]
  <2>1. CASE CheckChannel(c)
      BY <2>1 DEF CheckChannel, GoTo, CauseInv, FailureHasCause
  <2>2. CASE OpenConnection(c)
    <3>1. result'[c] = "error" => result[c] = "error" \/ closed
        BY <1>1, <2>2 DEF CallTyped, OpenConnection, UseOpenConnection, StartDialling, GoTo
    <3> QED
        BY <1>2, <1>3, <3>1 DEF CauseInv, ClosedCause, FailureHasCause, InFlight
  <2>3. CASE Dial(c)
    <3>1. CASE ~broker
        BY <1>1, <1>2, <2>3, <3>1 DEF Dial, Connected, Trouble, InFlight
    <3>2. CASE broker
        BY <1>3, <2>3, <3>2 DEF Dial, Connected, GoTo, CauseInv, FailureHasCause
    <3> QED
        BY <3>1, <3>2
  <2>4. CASE SendMessage(c)
    <3>1. result'[c] = "error" => MyChannel(c) \notin openChs
        BY <1>1, <2>4 DEF CallTyped, SendMessage, Return
    <3>2. pc[c] = "send"
        BY <2>4 DEF SendMessage
    <3> QED
        BY <1>3, <3>1, <3>2 DEF CauseInv, SendCause
  <2> QED
      BY <2>1, <2>2, <2>3, <2>4
<1> QED
    BY <1>2, <1>3, <1>4, <1>5, <1>6, <1>7, <1>8, OwnCause

(* A call that fails to open a channel has trouble; one that succeeds holds   *)
(* an open channel.                                                          *)
LEMMA OpenChannelCause ==
    ASSUME IInv, CauseInv, NEW c \in Caller, OpenChannel(c) PROVE CauseInv'
<1> DEFINE ch == [conn |-> local[c].conn, of |-> ProducerOf[c], no |-> made + 1]
<1>1. /\ CallTyped /\ UNCHANGED <<closed, open, channel>> /\ pc[c] = "channel"
    BY TypeParts DEF IInv, OpenChannel, connVars
<1>2. \A d \in Caller : trouble[d] => trouble'[d]
    BY <1>1 DEF CallTyped, OpenChannel, Trouble
<1>3. \A d \in Caller : d # c =>
          pc'[d] = pc[d] /\ local'[d] = local[d] /\ result'[d] = result[d]
    BY <1>1 DEF CallTyped, OpenChannel, GoTo, Return
<1>4. CASE /\ openChs' = openChs \cup {ch} /\ GoTo(c, "store")
           /\ local' = [local EXCEPT ![c].ch = ch]
  <2>1. pc'[c] = "store" /\ local'[c].ch = ch /\ result' = result
      BY <1>1, <1>4 DEF CallTyped, GoTo, Locals
  <2>2. local'[c].ch \in openChs' /\ openChs \subseteq openChs'
      BY <1>4, <2>1
  <2>3. ClosedCause'
      BY <1>1, <1>2, <1>3 DEF CauseInv, ClosedCause, InFlight
  <2>4. ChannelCause' /\ FailureHasCause'
      BY <1>1, <1>2, <1>3, <2>1 DEF CauseInv, ChannelCause, FailureHasCause
  <2>5. SendCause'
      BY <1>1, <1>2, <1>3, <2>1, <2>2 DEF CauseInv, SendCause, MyChannel
  <2>6. StoreCause'
    <3> SUFFICES ASSUME NEW a \in Caller, NEW d \in Caller,
                        pc'[d] = "store", local'[d].ch \notin openChs',
                        InFlight(a)', ProducerOf[a] = ProducerOf[d]
                 PROVE  trouble'[a]
        BY DEF StoreCause
    <3>1. d # c
        BY <2>2
    <3>2. pc[d] = "store" /\ local[d].ch \notin openChs /\ InFlight(a)
        BY <1>1, <1>3, <2>2, <3>1 DEF InFlight
    <3> QED
        BY <1>2, <3>2 DEF CauseInv, StoreCause
  <2> QED
      BY <2>3, <2>4, <2>5, <2>6 DEF CauseInv
<1>5. CASE /\ UNCHANGED openChs
           /\ \/ Trouble({c}) /\ Return(c, "error")
              \/ local[c].conn \notin open /\ UNCHANGED trouble
                     /\ (Return(c, "error") \/ GoTo(c, "lock"))
  <2>1. pc'[c] \in {"idle", "lock"}
      BY <1>1, <1>5 DEF CallTyped, GoTo, Return
  <2>2. result'[c] = "error" => trouble'[c]
    <3>1. CASE Trouble({c})
        BY <1>1, <3>1 DEF Trouble, InFlight
    <3>2. CASE local[c].conn \notin open /\ UNCHANGED trouble
        BY <1>1, <3>2 DEF CauseInv, ChannelCause
    <3> QED
        BY <1>5, <3>1, <3>2
  <2> QED
      BY <1>1, <1>2, <1>3, <1>5, <2>1, <2>2, OwnCause
<1> QED
    BY <1>4, <1>5 DEF OpenChannel

(* Line 51: a dead channel in the struct is trouble for all who share it, and *)
(* they have it.                                                             *)
LEMMA StoreChannelCause ==
    ASSUME ConnectionAssumption, IInv, CauseInv, NEW c \in Caller, StoreChannel(c)
    PROVE  CauseInv'
<1>1. /\ ChanTyped /\ CallTyped /\ pc[c] = "store"
      /\ UNCHANGED <<closed, open, openChs, local, result, trouble>>
    BY TypeParts DEF IInv, StoreChannel, GoTo, connVars
<1>2. pc'[c] = "send" /\ \A d \in Caller : d # c => pc'[d] = pc[d]
    BY <1>1 DEF CallTyped, StoreChannel, GoTo
<1>3. \A a \in Caller : /\ ProducerOf[a] = ProducerOf[c] => MyChannel(a)' = local[c].ch
                        /\ ProducerOf[a] # ProducerOf[c] => MyChannel(a)' = MyChannel(a)
    BY <1>1 DEF ChanTyped, ConnectionAssumption, StoreChannel, MyChannel
<1>4. ClosedCause' /\ ChannelCause' /\ FailureHasCause' /\ StoreCause'
    BY <1>1, <1>2 DEF CauseInv, ClosedCause, ChannelCause, FailureHasCause, StoreCause, InFlight
<1>5. SendCause'
  <2> SUFFICES ASSUME NEW a \in Caller, pc'[a] = "send", MyChannel(a)' \notin openChs
               PROVE  trouble[a]
      BY <1>1 DEF SendCause
  <2>1. CASE ProducerOf[a] = ProducerOf[c]
    <3>1. local[c].ch \notin openChs /\ InFlight(a)
        BY <1>1, <1>2, <1>3, <2>1 DEF InFlight
    <3> QED
        BY <1>1, <2>1, <3>1 DEF CauseInv, StoreCause
  <2>2. CASE ProducerOf[a] # ProducerOf[c]
      BY <1>2, <1>3, <2>2 DEF CauseInv, SendCause
  <2> QED
      BY <2>1, <2>2
<1> QED
    BY <1>4, <1>5 DEF CauseInv

(* A lost connection and Close are trouble for all calls, a lost channel is   *)
(* trouble for those of its producer.                                        *)
LEMMA SurroundingCause ==
    ASSUME ConnectionAssumption, IInv, NumberInv, CauseInv,
           \/ LoseConnection \/ LoseChannel \/ BrokerBack
           \/ RequestClose \/ Close \/ AskReady \/ IsConnectionOpen
    PROVE  CauseInv'
<1>1. UNCHANGED <<channel, pc, local, result>>
    BY DEF LoseConnection, LoseChannel, BrokerBack, RequestClose, Close, AskReady,
       IsConnectionOpen, connVars, chanVars, callVars
<1>2. \A c \in Caller : (InFlight(c)' <=> InFlight(c)) /\ MyChannel(c)' = MyChannel(c)
    BY <1>1 DEF InFlight, MyChannel
<1>3. \A c \in Caller : trouble[c] => trouble'[c]
    BY TypeParts DEF IInv, CallTyped, LoseConnection, LoseChannel, BrokerBack, RequestClose,
       Close, AskReady, IsConnectionOpen, Trouble, callVars
<1>4. FailureHasCause'
    BY <1>1, <1>3 DEF CauseInv, FailureHasCause
<1>5. CASE LoseConnection \/ Close
  <2>1. \A c \in Caller : InFlight(c) => trouble'[c]
      BY <1>5 DEF LoseConnection, Close, Trouble
  <2>2. \A c \in Caller : pc[c] \in {"channel", "send"} => InFlight(c)
      BY DEF InFlight
  <2>3. ClosedCause' /\ ChannelCause'
      BY <1>1, <1>2, <2>1, <2>2 DEF ClosedCause, ChannelCause
  <2>4. SendCause' /\ StoreCause'
      BY <1>1, <1>2, <2>1, <2>2 DEF SendCause, StoreCause
  <2> QED
      BY <1>4, <2>3, <2>4 DEF CauseInv
<1>6. CASE LoseChannel
  <2>1. PICK k \in openChs : /\ openChs' = openChs \ {k}
                             /\ Trouble({c \in Caller : ProducerOf[c] = k.of})
      BY <1>6 DEF LoseChannel
  <2>2. \A c \in Caller : InFlight(c) /\ ProducerOf[c] = k.of => trouble'[c]
      BY <2>1 DEF Trouble
  <2>3. UNCHANGED <<closed, open>>
      BY <1>6 DEF LoseChannel, connVars
  <2>4. ClosedCause' /\ ChannelCause'
      BY <1>1, <1>2, <1>3, <2>3 DEF CauseInv, ClosedCause, ChannelCause
  <2>5. SendCause'
    <3> SUFFICES ASSUME NEW c \in Caller, pc[c] = "send", MyChannel(c) \notin openChs'
                 PROVE  trouble'[c]
        BY <1>1, <1>2 DEF SendCause
    <3>1. MyChannel(c) \notin openChs \/ MyChannel(c).of = k.of
        BY <2>1
    <3>2. MyChannel(c).of = ProducerOf[c] /\ InFlight(c)
        BY DEF NumberInv, MyChannel, ConnectionAssumption, InFlight
    <3> QED
        BY <1>3, <2>2, <3>1, <3>2 DEF CauseInv, SendCause
  <2>6. StoreCause'
    <3> SUFFICES ASSUME NEW c \in Caller, NEW d \in Caller,
                        pc[d] = "store", local[d].ch \notin openChs',
                        InFlight(c), ProducerOf[c] = ProducerOf[d]
                 PROVE  trouble'[c]
        BY <1>1, <1>2 DEF StoreCause
    <3>1. local[d].ch \notin openChs \/ local[d].ch.of = k.of
        BY <2>1
    <3>2. local[d].ch.of = ProducerOf[d]
        BY DEF NumberInv
    <3> QED
        BY <1>3, <2>2, <3>1, <3>2 DEF CauseInv, StoreCause
  <2> QED
      BY <1>4, <2>4, <2>5, <2>6 DEF CauseInv
<1>7. CASE BrokerBack \/ RequestClose \/ AskReady \/ IsConnectionOpen
  <2>1. UNCHANGED <<closed, open, openChs>>
      BY <1>7 DEF BrokerBack, RequestClose, AskReady, IsConnectionOpen, connVars, chanVars
  <2>2. ClosedCause' /\ ChannelCause'
      BY <1>1, <1>2, <1>3, <2>1 DEF CauseInv, ClosedCause, ChannelCause
  <2>3. SendCause' /\ StoreCause'
      BY <1>1, <1>2, <1>3, <2>1 DEF CauseInv, SendCause, StoreCause
  <2> QED
      BY <1>4, <2>2, <2>3 DEF CauseInv
<1> QED
    BY <1>5, <1>6, <1>7

(* The inductive step.                                                       *)
LEMMA CauseStep ==
    ConnectionAssumption /\ IInv /\ NumberInv /\ CauseInv /\ [Next]_vars => CauseInv'
<1> SUFFICES ASSUME ConnectionAssumption, IInv, NumberInv, CauseInv, [Next]_vars
             PROVE  CauseInv'
    OBVIOUS
<1>1. ASSUME NEW c \in Caller, StartPublish(c) \/ PublishStep(c) PROVE CauseInv'
    BY <1>1, StartCause, ConnectCause, OpenChannelCause, StoreChannelCause DEF PublishStep
<1>2. CASE UNCHANGED vars
    BY <1>2 DEF vars, connVars, chanVars, callVars, CauseInv, ClosedCause, ChannelCause, SendCause,
       StoreCause, FailureHasCause, InFlight, MyChannel
<1> QED
    BY <1>1, <1>2, SurroundingCause DEF Next

(* A publish fails only after a fault it, or a call it shared its producer    *)
(* with, lived through.                                                      *)
THEOREM FailuresHaveCauses == Spec => []FailureHasCause
<1>1. Init => CauseInv
  <2> SUFFICES ASSUME Init PROVE CauseInv
      OBVIOUS
  <2>1. \A c \in Caller : pc[c] = "idle" /\ result[c] = "none"
      BY DEF Init
  <2> QED
      BY <2>1 DEF CauseInv, ClosedCause, ChannelCause, SendCause, StoreCause, FailureHasCause,
                  InFlight
<1>2. CauseInv => FailureHasCause
    BY DEF CauseInv
<1> QED
    BY <1>1, <1>2, CauseStep, NumbersKept, Invariance, ConnectionAssumption, PTL DEF Spec
==============================================================================
