-------------------------------- MODULE Com1 --------------------------------
(***************************************************************************)
(* The line to the train controller: OutputServer, InputServer, the        *)
(* controller at the other end, and the tasks that use it: the sensor      *)
(* server's slave, which polls and reads the answer, and tasks that send   *)
(* commands of two bytes.                                                  *)
(*                                                                         *)
(* The controller is external.  It drops CTS once it has received a byte   *)
(* and raises it when it can take the next; it answers a poll with bytes.  *)
(***************************************************************************)
EXTENDS OutputServer, InputServer, FiniteSets

CONSTANTS
  Slave,      (* the SensorSlave                                    *)
  Poll,       (* the byte it sends                                  *)
  Command,    (* the two bytes of a command                         *)
  AnswerSize, (* bytes of an answer                                 *)
  MaxPolls, MaxCommands (* bounds on what is sent                   *)

ASSUME Com1Assumption ==
  /\ Slave \in Writers /\ Xmt \notin Writers
  /\ {Poll} \cup {Command[i] : i \in DOMAIN Command} \subseteq Bytes
  /\ Command \in Seq(Bytes \ {Poll})
  /\ {OutCapacity, InCapacity, AnswerSize, MaxPolls, MaxCommands} \subseteq Nat
  /\ 1 .. AnswerSize * MaxPolls \subseteq Answers

VARIABLES
  slow,       (* whether CTS always waits for the handler (see Cts)           *)
  controller, (* "ready", "received" a byte, or "busy" with it (CTS down)     *)
  overrun,    (* a byte came while it was not ready                           *)
  wire,       (* the bytes it has received                                    *)
  accepted,   (* history: the bytes of the Writes the server has handled      *)
  toAnswer,   (* bytes of answers not yet sent                                *)
  answered,   (* bytes of answers sent                                        *)
  polls, commands, (* how many were sent                                      *)
  missing     (* bytes the slave still has to read                            *)

lineVars == <<slow, controller, overrun, wire, toAnswer, answered>>
useVars  == <<polls, commands, missing>>
vars     == <<outVars, inVars, lineVars, useVars, accepted>>

TypeOK ==
  /\ OutTypeOK /\ InTypeOK
  /\ slow \in BOOLEAN /\ overrun \in BOOLEAN
  /\ controller \in {"ready", "received", "busy"}
  /\ wire \in Seq(Bytes) /\ accepted \in Seq(Bytes)
  /\ {toAnswer, answered} \subseteq 0 .. AnswerSize * MaxPolls
  /\ polls \in 0 .. MaxPolls /\ commands \in 0 .. MaxCommands
  /\ missing \in 0 .. AnswerSize

Init ==
  /\ OutInit /\ InInit
  /\ slow \in BOOLEAN
  /\ controller = "ready" /\ overrun = FALSE
  /\ wire = <<>> /\ accepted = <<>>
  /\ toAnswer = 0 /\ answered = 0
  /\ polls = 0 /\ commands = 0 /\ missing = 0
-----------------------------------------------------------------------------
(* The tasks. *)
PollSensors ==
  /\ ~panicked
  /\ polls < MaxPolls /\ missing = 0 /\ reader = "running"
  /\ Putcn(Slave, <<Poll>>)
  /\ polls' = polls + 1
  /\ missing' = AnswerSize
  /\ UNCHANGED <<inVars, lineVars, accepted, commands>>

ReadAnswer ==
  /\ ~panicked
  /\ missing > 0 /\ writer[Slave] = "running"
  /\ Getc
  /\ missing' = missing - 1
  /\ UNCHANGED <<outVars, lineVars, accepted, polls, commands>>

SendCommand ==
  /\ ~panicked
  /\ commands < MaxCommands
  /\ \E w \in Writers \ {Slave} : Putcn(w, Command)
  /\ commands' = commands + 1
  /\ UNCHANGED <<inVars, lineVars, accepted, polls, missing>>
-----------------------------------------------------------------------------
(* The controller and the line.  On a slow line CTS changes only after the handler
   has read the flag: the comment in Uart1XMTHandler relies on "beating the train
   controller in the race".  A byte of an answer comes at any time at which the
   register is empty. *)
Arrive ==
  /\ ~panicked
  /\ line # <<>>
  /\ wire' = wire \o line
  /\ line' = <<>>
  /\ overrun' = (overrun \/ controller # "ready")
  /\ controller' = IF controller = "ready" THEN "received" ELSE controller
  /\ toAnswer' = IF line = <<Poll>> /\ controller = "ready" THEN toAnswer + AnswerSize
                                                              ELSE toAnswer
  /\ UNCHANGED <<serverVars, tien, msien, holding, cts, changed, xmt, ch>>
  /\ UNCHANGED <<inVars, useVars, slow, answered, accepted>>

Cts(from, to, value, seen) ==
  /\ ~panicked
  /\ controller = from
  /\ controller' = to
  /\ slow => xmt \in seen
  /\ cts' = value /\ changed' = TRUE
  /\ UNCHANGED <<serverVars, tien, msien, holding, line, xmt, ch>>
  /\ UNCHANGED <<inVars, useVars, slow, overrun, wire, toAnswer, answered, accepted>>

DropCts  == Cts("received", "busy", FALSE, {"CTS high", "event CTS drop"})
RaiseCts == Cts("busy", "ready", TRUE, {"CTS low", "event CTS"})

Answer ==
  /\ ~panicked
  /\ toAnswer > 0 /\ data = <<>>
  /\ data' = <<answered + 1>>
  /\ toAnswer' = toAnswer - 1
  /\ answered' = answered + 1
  /\ UNCHANGED <<outVars, inRing, waiter, inbox, copying, reader, got, late, rcv, rcvBuf, rien>>
  /\ UNCHANGED <<slow, controller, overrun, wire, useVars, accepted>>
-----------------------------------------------------------------------------
(* A step of one direction leaves the other alone. *)
OutStep(step) == ~panicked /\ step /\ UNCHANGED <<inVars, lineVars, useVars>>

InStep(step) ==
  /\ ~panicked /\ step
  /\ UNCHANGED <<ring, reading, outbox, writer, xmt, ch, uartVars, lineVars, useVars, accepted>>

(* A Write that fits is accepted. *)
AcceptWrite ==
  /\ ServeWrite
  /\ accepted' = IF panicked' THEN accepted ELSE accepted \o Head(outbox).buf

Same(step) == step /\ UNCHANGED accepted

(* What goes on by itself, once a byte is to be sent or read.  Of the causes
   of an interrupt, RIS is looked at first. *)
Goes ==
  \/ OutStep(AcceptWrite)
  \/ OutStep(Same(ServeRead))
  \/ OutStep(Same(AwaitXmt))
  \/ OutStep(Same(CheckCts))
  \/ OutStep(Same(AwaitRaise))
  \/ OutStep(Same(Ask))
  \/ OutStep(Same(Put))
  \/ OutStep(Same(CheckDrop))
  \/ OutStep(Same(AwaitDrop))
  \/ OutStep(Same(Shift))
  \/ OutStep(Same(~RxPending /\ TxInterrupt))
  \/ OutStep(Same(~RxPending /\ ModInterrupt))
  \/ InStep(ServeGetc)
  \/ InStep(AnswerHandler)
  \/ InStep(Copy)
  \/ InStep(AwaitRcv)
  \/ InStep(Forward)
  \/ InStep(RxInterrupt)
  \/ ReadAnswer
  \/ Arrive
  \/ DropCts
  \/ RaiseCts
  \/ Answer

Next == Goes \/ PollSensors \/ SendCommand

Spec == Init /\ [][Next]_vars

(* The kernel runs a task that is ready, the devices raise what is pending,
   and the controller answers. *)
FairSpec == Spec /\ WF_vars(Goes)
-----------------------------------------------------------------------------
(* The OutputServer loses no byte, doubles none and keeps their order: what it
   has accepted is on its way, in one place each.  The ring, the handler's
   stack and the transmit register pass the bytes on in turn, and the server
   hands one over both when it is asked and when a Write finds the handler
   waiting. *)
NothingLost == accepted = wire \o line \o holding \o ch \o ring

(* On a slow line the handler's two waits for CTS never let a byte out before
   the controller is ready: docs/k4/k4.tex, "the race condition of two write
   requests in the space of a single CTS assert". *)
NoOverrun == slow => ~overrun

(* The bytes that the receive handler has and the InputServer lacks: what the server
   is about to copy and what the handler will bring are in the same place. *)
Pending ==
  (IF copying THEN rcvBuf ELSE <<>>) \o
  (IF rcv = "woken" \/ "WRITE" \in {inbox[i] : i \in DOMAIN inbox} THEN rcvBuf ELSE <<>>)

(* Getc returns the bytes in the order they came, each once, but for the race in the
   InputServer, which copies a byte after it has answered the handler: one that
   comes in between is read twice, in the place of the one before it too. *)
FirstUnreturned ==
  ~panicked => got \o inRing \o Pending \o data =
                 [i \in 1 .. answered |-> IF i + 1 \in late THEN i + 1 ELSE i]

(* The polls the controller has not received. *)
PollsOut ==
  LET out == ring \o ch \o holding \o line
  IN  Cardinality({i \in DOMAIN out : out[i] = Poll}) +
      Cardinality({i \in DOMAIN outbox : outbox[i].buf = <<Poll>>})

(* The slave and the controller never lose step: what the slave has still to
   read is what is still to come, so an answer is never taken for another. *)
AnswersInStep ==
  (slow /\ ~panicked) =>
    missing + (IF reader = "waiting" THEN 1 ELSE 0) =
      AnswerSize * PollsOut + toAnswer + Len(data) + Len(Pending) + Len(inRing)

(* Every byte accepted gets out: neither the masked interrupts nor a handler
   that waits for a change of CTS, on however fast a line, stop the output. *)
EveryByteSent == (accepted # wire) ~> (panicked \/ accepted = wire)

(* On a slow line every poll is answered and read to its end. *)
PollsAnswered ==
  (slow /\ missing > 0) ~> (panicked \/ (missing = 0 /\ reader = "running"))

=============================================================================
