--------------------------------- MODULE Ipc ---------------------------------
(***************************************************************************)
(* What the kernel's Send / Receive / Reply promise, without descriptors,  *)
(* envelopes or queues of pointers: a message waits in the inbox of the    *)
(* task it was sent to, in the order of the Sends, is received once, and   *)
(* its sender goes on when it is answered or when the receiver dies before *)
(* receiving it.  Kernel implements this (see MCKernel).                   *)
(***************************************************************************)
EXTENDS Sequences

CONSTANT Tasks

VARIABLES
  phase,  (* what a task is doing, as far as messages go *)
  inbox   (* the senders waiting to be received, in order *)

ipcVars == <<phase, inbox>>

(* A task blocked for a reason that has nothing to do with messages is "up". *)
Phases == {"none", "up", "receiving", "sending", "awaiting"}

IpcTypeOK ==
  /\ phase \in [Tasks -> Phases]
  /\ inbox \in [Tasks -> Seq(Tasks)]

IpcInit ==
  /\ \E S \in SUBSET Tasks : phase = [t \in Tasks |-> IF t \in S THEN "up" ELSE "none"]
  /\ inbox = [t \in Tasks |-> <<>>]

Spawn(t) ==
  /\ phase[t] = "none" /\ inbox[t] = <<>>
  /\ phase' = [phase EXCEPT ![t] = "up"]
  /\ UNCHANGED inbox

(* The receiver is waiting: it goes on with the message. *)
Deliver(s, r) ==
  /\ phase[s] = "up" /\ phase[r] = "receiving"
  /\ phase' = [phase EXCEPT ![s] = "awaiting", ![r] = "up"]
  /\ UNCHANGED inbox

(* The message waits.  A receiver whose Receive could not be given an envelope
   is released with an error and finds the message when it tries again. *)
Enqueue(s, r) ==
  /\ phase[s] = "up" /\ phase[r] # "none" /\ s # r
  /\ inbox' = [inbox EXCEPT ![r] = Append(@, s)]
  /\ phase' = [phase EXCEPT ![s] = "sending", ![r] = IF @ = "receiving" THEN "up" ELSE @]

AwaitMessage(r) ==
  /\ phase[r] = "up" /\ inbox[r] = <<>>
  /\ phase' = [phase EXCEPT ![r] = "receiving"]
  /\ UNCHANGED inbox

Take(r) ==
  /\ phase[r] = "up" /\ inbox[r] # <<>>
  /\ phase' = [phase EXCEPT ![Head(inbox[r])] = "awaiting"]
  /\ inbox' = [inbox EXCEPT ![r] = Tail(@)]

Answer(s) ==
  /\ phase[s] = "awaiting"
  /\ phase' = [phase EXCEPT ![s] = "up"]
  /\ UNCHANGED inbox

(* A task whose own message nobody has received yet does not die. *)
Die(t) ==
  /\ phase[t] \in {"up", "receiving", "awaiting"}
  /\ phase' = [phase EXCEPT ![t] = "none"]
  /\ UNCHANGED inbox

(* The senders a dead task left waiting are released, first come first. *)
Bounce(r) ==
  /\ phase[r] = "none" /\ inbox[r] # <<>>
  /\ phase' = [phase EXCEPT ![Head(inbox[r])] = "up"]
  /\ inbox' = [inbox EXCEPT ![r] = Tail(@)]

IpcNext ==
  \E t \in Tasks :
    \/ Spawn(t) \/ AwaitMessage(t) \/ Take(t) \/ Answer(t) \/ Die(t) \/ Bounce(t)
    \/ \E r \in Tasks : Deliver(t, r) \/ Enqueue(t, r)

IpcSpec == IpcInit /\ [][IpcNext]_ipcVars

=============================================================================
