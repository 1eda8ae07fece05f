------------------------------ MODULE HttpProofs ------------------------------
(***************************************************************************)
(* Proofs about the HTTP side of the program: Serving, the server and its    *)
(* shutdown, for any set of requests and any collector, and HttpApi, one     *)
(* call on its way, for any path, method, body and values (the run varies    *)
(* two fields at a time).                                                   *)
(***************************************************************************)
EXTENDS Serving, HttpApi, TLAPS

(* What the shutdown has done when the process waits no longer: nobody is     *)
(* let in any more, and who was is done, or the time is over.  The clock      *)
(* client is closed later than that.                                          *)
Closing  == pc \in {"clock", "exited"}
Inv ==
    /\ TypeOK
    /\ shutting => http # "listening"
    /\ Closing => shutting /\ (Idle \/ late)
    /\ ~clock => Closing
    /\ NoRequestIsCut

(* A process that has just started satisfies the invariant.                   *)
LEMMA InvInit == Init => Inv
BY DEF Init, Inv, TypeOK, Handling, Working, Closing, NoRequestIsCut

(* server.go:91: the server's goroutine starts to listen, or is too late.     *)
LEMMA RunStep == Inv /\ Run => Inv'
BY DEF Run, Inv, TypeOK, Handling, Working, Closing, Idle, NoRequestIsCut, clientVars, callVars

(* A request is accepted only while the server listens, that is before        *)
(* Shutdown.                                                                  *)
LEMMA AcceptStep == ASSUME NEW r \in Request, Inv, Accept(r) PROVE Inv'
BY DEF Accept, Inv, TypeOK, Handling, Working, Closing, Idle, NoRequestIsCut, serverVars, clientVars

(* A handler that finds the clock client closed is one the shutdown has given *)
(* up waiting for.                                                            *)
LEMMA AskClockStep == ASSUME NEW r \in Request, Inv, AskClock(r) PROVE Inv'
<1> USE DEF Inv, AskClock, Handling
<1>1. ~clock => late
  BY DEF Idle
<1>2. TypeOK'
  BY DEF TypeOK, Working, serverVars, clientVars
<1>3. Idle => Idle'
  BY DEF Idle, TypeOK
<1>4. NoRequestIsCut'
  BY <1>1 DEF NoRequestIsCut, TypeOK, clientVars
<1> QED
  BY <1>2, <1>3, <1>4 DEF Closing, serverVars, clientVars

(* What a handler or a goroutine does on its way changes neither the process  *)
(* nor who is still handled, but for those it is done with.                   *)
LEMMA WorkingStep ==
    ASSUME NEW r \in Request, Inv, Charge(r) \/ SendAnswer(r) \/ WorkStep(r)
    PROVE  Inv'
<1> USE DEF Inv, Charge, SendAnswer, WorkStep, SaveReceipt, PublishConfirmation, Handling
<1>1. TypeOK'
  BY DEF TypeOK, Working, serverVars, clientVars
<1>2. UNCHANGED <<pc, serverVars, clientVars, late, starved>>
  BY DEF serverVars, clientVars
<1>3. Idle => Idle'
  BY DEF Idle, TypeOK
<1>4. NoRequestIsCut'
  BY <1>2 DEF NoRequestIsCut, TypeOK
<1> QED
  BY <1>1, <1>2, <1>3, <1>4 DEF Closing, serverVars, clientVars

(* main.go:53-93: the main goroutine leaves server.Shutdown only when the     *)
(* handlers are done or the time is over, and closes the clock client then.   *)
LEMMA ShutdownStep == Inv /\ MainStep => Inv'
<1> SUFFICES ASSUME Inv, MainStep PROVE Inv'
  OBVIOUS
<1> USE DEF Inv
<1>1. CASE BeginShutdown \/ ShutdownTelemetry \/ CloseRabbit \/ CloseChannels
  <2>1. /\ TypeOK'
        /\ ~Closing /\ ~Closing'
        /\ UNCHANGED <<serverVars, clock, late, callVars>>
    BY <1>1 DEF BeginShutdown, ShutdownTelemetry, CloseRabbit, CloseChannels, TypeOK, Closing,
                serverVars, clientVars, callVars
  <2> QED
    BY <2>1 DEF NoRequestIsCut, serverVars, callVars
<1>2. CASE ShutdownHttp
  BY <1>2 DEF ShutdownHttp, CloseListener, TypeOK, Closing, Idle, NoRequestIsCut, clientVars, callVars
<1>3. CASE CloseClock
  BY <1>3 DEF CloseClock, TypeOK, Closing, Idle, NoRequestIsCut,
              serverVars, callVars
<1>4. CASE Exit
  <2>1. TypeOK'
    <3>1. call' \in [Request -> Handling \cup {"none", "refused", "answered", "dropped", "cut"}]
      BY <1>4 DEF Exit, TypeOK
    <3>2. work' \in [Request -> Working \cup
                        {"none", "confirmed", "failed", "unrecorded", "unconfirmed"}]
      BY <1>4 DEF Exit, TypeOK, Working
    <3> QED
      BY <1>4, <3>1, <3>2 DEF Exit, TypeOK, serverVars, clientVars
  <2>2. Idle'
    BY <1>4 DEF Exit, Idle, Handling
  <2>3. NoRequestIsCut'
    BY <1>4 DEF Exit, NoRequestIsCut, Closing, Idle
  <2> QED
    BY <1>4, <2>1, <2>2, <2>3 DEF Exit, Closing, serverVars, clientVars
<1> QED
  BY <1>1, <1>2, <1>3, <1>4 DEF MainStep

(* Every step of the process, its requests and its clock keeps the invariant. *)
LEMMA InvStep == Inv /\ [Next]_vars => Inv'
<1> SUFFICES ASSUME Inv, [Next]_vars PROVE Inv'
  OBVIOUS
<1>1. CASE Terminate \/ RunLate
  <2>1. /\ TypeOK'
        /\ UNCHANGED <<pc, serverVars, clientVars, callVars>>
        /\ late => late'
    BY <1>1 DEF Terminate, RunLate, Inv, TypeOK, serverVars, clientVars, callVars
  <2> QED
    BY <2>1 DEF Inv, Closing, Idle, NoRequestIsCut, serverVars,
                clientVars, callVars
<1>2. CASE UNCHANGED vars
  BY <1>2 DEF vars, Inv, TypeOK, Closing, Idle, NoRequestIsCut,
              serverVars, clientVars, callVars
<1> QED
  BY <1>1, <1>2, RunStep, AcceptStep, AskClockStep, WorkingStep, ShutdownStep
  DEF Next, CallStep

(* The inductive invariant holds in every reachable state.                    *)
THEOREM Invariance == Spec => []Inv
BY InvInit, InvStep, PTL DEF Spec

(* Type correctness of the serving process.                                   *)
THEOREM TypeCorrect == Spec => []TypeOK
<1>1. Inv => TypeOK
  BY DEF Inv
<1> QED
  BY <1>1, Invariance, PTL

(* main.go:86: no accepted request is cut off, and none finds the clock client *)
(* closed, before the ten seconds are over, however many there are.           *)
THEOREM RequestsAreNotCut == Spec => []NoRequestIsCut
<1>1. Inv => NoRequestIsCut
  BY DEF Inv
<1> QED
  BY <1>1, Invariance, PTL

(* server.go:98: after Shutdown nobody is accepted, although the goroutine of *)
(* Run may come to listen at any time.                                        *)
THEOREM StaysShut == Spec => ShutForGood
<1>1. Inv /\ [Next]_vars => [\A r \in Request : shutting /\ call[r] = "none" => call'[r] = "none"]_vars
  <2> SUFFICES ASSUME Inv, Next, NEW r \in Request, shutting, call[r] = "none"
               PROVE  call'[r] = "none"
    OBVIOUS
  <2>1. http # "listening" /\ call \in [Request -> Handling \cup {"none", "refused", "answered", "dropped", "cut"}]
    BY DEF Inv, TypeOK
  <2>2. ASSUME NEW s \in Request, Accept(s) \/ CallStep(s) \/ WorkStep(s)
        PROVE  call'[r] = "none"
    BY <2>1, <2>2 DEF Accept, CallStep, AskClock, Charge, SendAnswer, WorkStep, SaveReceipt,
                      PublishConfirmation
  <2>3. CASE Exit
    BY <2>1, <2>3 DEF Exit, Handling
  <2>4. CASE Run \/ Terminate \/ RunLate \/ (MainStep /\ ~Exit)
    BY <2>4 DEF Run, Terminate, RunLate, MainStep, BeginShutdown, ShutdownTelemetry, CloseRabbit,
                CloseChannels, ShutdownHttp, CloseClock, callVars
  <2> QED
    BY <2>2, <2>3, <2>4 DEF Next, MainStep
<1> QED
  BY <1>1, Invariance, PTL DEF Spec, ShutForGood

----------------------------------------------------------------------------
(***************************************************************************)
(* One call (HttpApi)                                                        *)
(***************************************************************************)

(* A call that may be charged is one to pay, and has passed lines 69-75.      *)
Accepted == req.path = Pay /\ PayAccepted

(* Who has not come as far as UpdateStatus is not charged, who has was        *)
(* accepted; a receipt is recorded of a charged call that has been answered.  *)
OnItsWay ==
    /\ stage \notin {"record", "done"} => status = 0
    /\ stage \in {"route", "decode", "check", "load", "update", "buildFailed"} => ~charged
    /\ stage \in {"update", "build", "buildFailed"} => Accepted
    /\ stage = "load" /\ req.path = Pay => PayAccepted
    /\ stage = "record" =>
          charged /\ status = IF Given("number") = "cutsRune" THEN 500 ELSE 200
    /\ charged => Accepted

HttpInv == HttpTypeOK /\ OnItsWay /\ RefusedIsNotCharged /\ ChargedIsRecorded /\ ChargedIsTold

(* runtime.HTTPStatusFromCode of the codes that the services return.          *)
LEMMA Statuses ==
    /\ StatusOf("InvalidArgument") = 400 /\ StatusOf("FailedPrecondition") = 400
    /\ StatusOf("NotFound") = 404 /\ StatusOf("Unimplemented") = 501
    /\ StatusOf("Internal") = 500 /\ StatusOf("Unknown") = 500
BY DEF StatusOf

(* A call that was accepted lacks of what the receipt asks for only the brand *)
(* or a number that ends in something.                                        *)
LEMMA RefusedReceipt ==
    ASSUME PayAccepted, ~ReceiptAccepted
    PROVE  ~NotBlank(Given("brand")) \/ Given("number") = "endsBlank"
<1>1. NotBlank(Given("invoice_number"))
  BY DEF PayAccepted, Violations, GivenValues, Field
<1>2. CASE Given("number") = "endsBlank"
  BY <1>2
<1>3. CASE Violations(GivenValues, {"invoice_number", "brand"}, {}, {}) # {}
  <2>1. PICK f \in {"invoice_number", "brand"} : ~NotBlank(GivenValues[f])
    BY <1>3 DEF Violations
  <2>2. f \in Field
    BY DEF Field, CardField
  <2> QED
    BY <1>1, <2>1, <2>2 DEF GivenValues
<1> QED
  BY <1>2, <1>3 DEF ReceiptAccepted

(* What is said of a call depends on nothing that a step changes.             *)
LEMMA SameCall ==
    ASSUME UNCHANGED req
    PROVE  /\ Accepted' = Accepted /\ PayAccepted' = PayAccepted
           /\ \A f : Given(f)' = Given(f)
<1>1. \A f : Given(f)' = Given(f)
  BY DEF Given
<1>2. GivenValues' = GivenValues
  BY <1>1 DEF GivenValues
<1>3. PayAccepted' = PayAccepted
  BY <1>1, <1>2 DEF PayAccepted
<1> QED
  BY <1>1, <1>3 DEF Accepted

(* A call that has just come in satisfies the invariant.                      *)
LEMMA HttpInvInit == HttpInit => HttpInv
BY DEF HttpInit, HttpInv, HttpTypeOK, OnItsWay, RefusedIsNotCharged, ChargedIsRecorded, ChargedIsTold

(* A step before UpdateStatus: what it refuses is not charged.                *)
LEMMA BeforeChargeStep ==
    ASSUME HttpInv, UNCHANGED <<req, charged, receipt>>, ~charged,
           failed' \in BOOLEAN,
           \/ /\ stage' = "done" /\ status' \in {200, 400, 404, 500, 501}
           \/ /\ status' = status /\ status = 0
              /\ \/ stage' \in {"decode", "check", "forward"}
                 \/ stage' = "load" /\ (req.path = Pay => PayAccepted)
                 \/ stage' \in {"update", "buildFailed"} /\ Accepted
    PROVE  HttpInv'
<1>1. HttpTypeOK'
  BY DEF HttpInv, HttpTypeOK
<1>2. OnItsWay'
  BY SameCall DEF OnItsWay
<1>3. ~charged'
  OBVIOUS
<1> QED
  BY <1>1, <1>2, <1>3 DEF HttpInv, RefusedIsNotCharged, ChargedIsRecorded, ChargedIsTold

(* The mux, the gateway and the checks.                                       *)
LEMMA EnterStep == ASSUME HttpInv, Route \/ DecodePayWithCard \/ DecodeReissue \/ Check PROVE HttpInv'
<1>1. stage \in {"route", "decode", "check"} /\ ~charged /\ status = 0 /\ failed \in BOOLEAN
  BY DEF Route, DecodePayWithCard, DecodeReissue, Decode, Check, HttpInv, OnItsWay, HttpTypeOK
<1>2. UNCHANGED <<req, charged, receipt, failed>>
  BY DEF Route, DecodePayWithCard, DecodeReissue, Decode, Check
<1>3. \/ stage' = "done" /\ status' \in {200, 400, 404, 501}
      \/ status' = status /\ stage' \in {"decode", "check"}
      \/ status' = status /\ stage' = "load" /\ (req.path = Pay => PayAccepted)
  <2>1. CASE Route
    BY <2>1, Statuses DEF Route, Refuse, Proceed
  <2>2. CASE DecodePayWithCard \/ DecodeReissue
    BY <2>2, Statuses DEF DecodePayWithCard, DecodeReissue, Decode, Refuse, Proceed
  <2>3. CASE Check
    <3>1. Reissue # Pay
      BY DEF Reissue, Pay
    <3> QED
      BY <2>3, <3>1, Statuses DEF Check, Refuse, Proceed
  <2> QED
    BY <2>1, <2>2, <2>3
<1> QED
  BY <1>1, <1>2, <1>3, BeforeChargeStep

(* Lines 81-105 and the search of a reissue.                                  *)
LEMMA LoadStep == ASSUME HttpInv, Load PROVE HttpInv'
<1>1. ~charged /\ status = 0 /\ failed \in BOOLEAN /\ (req.path = Pay => PayAccepted)
  BY DEF Load, HttpInv, OnItsWay, HttpTypeOK
<1>2. UNCHANGED <<req, charged, receipt>> /\ failed' \in BOOLEAN
  <2>1. failed' = failed \/ failed' = TRUE
    BY DEF Load
  <2> QED
    BY <1>1, <2>1 DEF Load
<1>3. \/ stage' = "done" /\ status' \in {400, 404, 500}
      \/ status' = status /\ stage' = "forward"
      \/ status' = status /\ stage' \in {"update", "buildFailed"} /\ req.path = Pay
  BY Statuses DEF Load, Refuse, Proceed
<1> QED
  BY <1>1, <1>2, <1>3, BeforeChargeStep DEF Accepted

(* Lines 107-117: whoever is charged from here on was accepted, and an error  *)
(* that comes with the charge is one of MongoDB.                              *)
LEMMA UpdateStep == ASSUME HttpInv, Update PROVE HttpInv'
<1>1. Accepted /\ ~charged /\ status = 0 /\ UNCHANGED <<req, receipt>>
  BY DEF Update, HttpInv, OnItsWay
<1>2. CASE Proceed("build") /\ charged' = TRUE /\ UNCHANGED failed
  BY <1>1, <1>2, SameCall
  DEF Proceed, HttpInv, HttpTypeOK, OnItsWay, RefusedIsNotCharged, ChargedIsRecorded, ChargedIsTold
<1>3. CASE Refuse("NotFound") /\ UNCHANGED <<charged, failed>>
  BY <1>1, <1>3, Statuses, BeforeChargeStep DEF Refuse, HttpInv, HttpTypeOK
<1>4. CASE Refuse("Internal") /\ charged' \in BOOLEAN /\ failed' = TRUE
  BY <1>1, <1>4, Statuses, SameCall
  DEF Refuse, HttpInv, HttpTypeOK, OnItsWay, RefusedIsNotCharged, ChargedIsRecorded, ChargedIsTold
<1> QED
  BY <1>2, <1>3, <1>4 DEF Update

(* Line 173: the number that is too short drops the connection; the number of *)
(* the receipt can fail.                                                      *)
LEMMA BuildStep == ASSUME HttpInv, Build \/ BuildFailed PROVE HttpInv'
<1>1. Accepted /\ status = 0 /\ UNCHANGED <<req, charged, receipt>>
  BY DEF Build, BuildFailed, HttpInv, OnItsWay
<1>2. CASE Given("number") = "short" /\ Panic /\ UNCHANGED failed
  BY <1>1, <1>2, SameCall
  DEF Panic, HttpInv, HttpTypeOK, OnItsWay, RefusedIsNotCharged, ChargedIsRecorded, ChargedIsTold
<1>3. CASE Proceed("forward") /\ UNCHANGED failed
  BY <1>1, <1>3, SameCall
  DEF Proceed, HttpInv, HttpTypeOK, OnItsWay, RefusedIsNotCharged, ChargedIsRecorded, ChargedIsTold
<1>4. CASE (Refuse("Internal") \/ Refuse("Unknown")) /\ failed' = TRUE
  BY <1>1, <1>4, SameCall, Statuses
  DEF Refuse, HttpInv, HttpTypeOK, OnItsWay, RefusedIsNotCharged, ChargedIsRecorded, ChargedIsTold
<1> QED
  BY <1>2, <1>3, <1>4 DEF Build, BuildFailed

(* The answer leaves; whoever was charged is told 200 but for half a          *)
(* character.                                                                 *)
LEMMA ForwardStep == ASSUME HttpInv, Forward PROVE HttpInv'
<1>1. /\ UNCHANGED <<req, charged, receipt, failed>>
      /\ stage' = IF charged THEN "record" ELSE "done"
      /\ charged => req.path = Pay
  BY DEF Forward, HttpInv, OnItsWay, Accepted
<1>2. status' \in {200, 500}
  BY Statuses DEF Forward
<1>3. charged => status' = IF Given("number") = "cutsRune" THEN 500 ELSE 200
  BY <1>1, Statuses DEF Forward
<1> QED
  BY <1>1, <1>2, <1>3, SameCall
  DEF HttpInv, HttpTypeOK, OnItsWay, RefusedIsNotCharged, ChargedIsRecorded, ChargedIsTold

(* Lines 126-134: what was accepted is recorded, unless the brand is missing  *)
(* or the number does not end in four digits.                                 *)
LEMMA RecordStep == ASSUME HttpInv, Record PROVE HttpInv'
<1>1. /\ UNCHANGED <<req, charged, status>> /\ stage' = "done"
      /\ charged /\ Accepted
      /\ status = IF Given("number") = "cutsRune" THEN 500 ELSE 200
  BY DEF Record, Proceed, HttpInv, OnItsWay
<1>2. HttpTypeOK'
  <2>1. receipt' \in {"stored", "refused", "lost"} /\ (failed' = failed \/ failed' = TRUE)
    BY DEF Record
  <2>2. failed' \in BOOLEAN
    BY <2>1 DEF HttpInv, HttpTypeOK
  <2> QED
    BY <1>1, <2>1, <2>2 DEF HttpInv, HttpTypeOK
<1>3. OnItsWay'
  BY <1>1, SameCall DEF OnItsWay
<1>4. RefusedIsNotCharged' /\ ChargedIsTold'
  BY <1>1, SameCall DEF RefusedIsNotCharged, ChargedIsTold
<1>5. ChargedIsRecorded'
  <2>1. \/ receipt' = "stored"
        \/ ~ReceiptAccepted
        \/ Given("number") = "cutsRune"
        \/ failed' = TRUE
    BY DEF Record
  <2>2. ~ReceiptAccepted => ~NotBlank(Given("brand")) \/ Given("number") = "endsBlank"
    BY <1>1, RefusedReceipt DEF Accepted
  <2>3. \/ receipt' = "stored" \/ failed' = TRUE
        \/ ~NotBlank(Given("brand")') \/ Given("number")' \in {"short", "endsBlank", "cutsRune"}
    BY <1>1, <2>1, <2>2, SameCall
  <2> QED
    BY <2>3 DEF ChargedIsRecorded
<1> QED
  BY <1>2, <1>3, <1>4, <1>5 DEF HttpInv

(* Every step of a call keeps the invariant.                                  *)
LEMMA HttpInvStep == HttpInv /\ [HttpNext]_httpVars => HttpInv'
<1> SUFFICES ASSUME HttpInv, [HttpNext]_httpVars PROVE HttpInv'
  OBVIOUS
<1>1. CASE UNCHANGED httpVars
  BY <1>1, SameCall DEF httpVars, HttpInv, HttpTypeOK, OnItsWay, RefusedIsNotCharged,
                        ChargedIsRecorded, ChargedIsTold
<1> QED
  BY <1>1, EnterStep, LoadStep, UpdateStep, BuildStep, ForwardStep, RecordStep DEF HttpNext

(* The inductive invariant holds of every call.                               *)
THEOREM HttpInvariance == HttpSpec => []HttpInv
BY HttpInvInit, HttpInvStep, PTL DEF HttpSpec

(* Type correctness of a call: every error a service returns has a status.    *)
THEOREM HttpTypeCorrect == HttpSpec => []HttpTypeOK
<1>1. HttpInv => HttpTypeOK
  BY DEF HttpInv
<1> QED
  BY <1>1, HttpInvariance, PTL

(* payment_making_service.go:61-117: a call that is answered with a status of *)
(* the 400s has not paid.                                                     *)
THEOREM RefusedAreNotCharged == HttpSpec => []RefusedIsNotCharged
<1>1. HttpInv => RefusedIsNotCharged
  BY DEF HttpInv
<1> QED
  BY <1>1, HttpInvariance, PTL

(* Lines 126-134 and 196-228: a charge gets its receipt when nothing fails,   *)
(* but for the cards that lines 69-75 should not have let through.            *)
THEOREM ChargesAreRecorded == HttpSpec => []ChargedIsRecorded
<1>1. HttpInv => ChargedIsRecorded
  BY DEF HttpInv
<1> QED
  BY <1>1, HttpInvariance, PTL

(* Line 148: whoever is charged is told 200 when nothing fails, but for a     *)
(* number that line 173 cuts wrongly.                                         *)
THEOREM ChargesAreTold == HttpSpec => []ChargedIsTold
<1>1. HttpInv => ChargedIsTold
  BY DEF HttpInv
<1> QED
  BY <1>1, HttpInvariance, PTL
==============================================================================
