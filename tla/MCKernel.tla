------------------------------ MODULE MCKernel ------------------------------
(* Small instances of Kernel for TLC. *)
EXTENDS TidHistory, Links

(* Everything but WaitTid and Destroy of a tid nobody has. *)
MessageCalls ==
  {"Create", "Pass", "SigTerm", "Send", "Receive", "Reply", "Exit", "Destroy", "Await"}

(* Task creation, exit and waiting. *)
WaitCalls == {"Create", "Pass", "Exit", "Destroy", "WaitTid"}

(* The same, Destroy of tids nobody has (test_create_destroy.c), and messages. *)
AllWaitCalls == WaitCalls \cup {"DestroyDead", "Send", "Receive", "Reply"}

(* A child may be destroyed while it can run, waits for a message or waits for
   a reply. *)
CleanDestroy == {"READY", "SEND_BL", "REPL_BL"}

AnyState == TaskState

(* The promise of Ipc, read off the kernel's descriptors and envelopes. *)
PhaseOf(t) ==
  CASE State(t) = "FREE"    -> "none"
    [] State(t) = "SEND_BL" -> "receiving"
    [] State(t) = "RECV_BL" -> "sending"
    [] State(t) = "REPL_BL" -> "awaiting"
    [] OTHER                -> "up"

(* Who sent the envelopes in r's inbox, first come first. *)
InboxIn(m, r) ==
  LET box == Followed(Envelopes, NumEnvelopes, m.next, NULL, m.inHead[r])
  IN  [i \in 1 .. Len(box) |-> m.sender[box[i]]]

InboxOf(r) == InboxIn(mail, r)

Promise == INSTANCE Ipc WITH Tasks <- Slots,
                             phase <- [t \in Slots |-> PhaseOf(t)],
                             inbox <- [t \in Slots |-> InboxOf(t)]

(* Messages are received once, in the order of the Sends, and every sender is
   answered or told that its receiver died: the kernel implements Ipc. *)
ImplementsIpc == Promise!IpcSpec

(* A READY task of the highest priority is not passed over for ever. *)
TopPriorityRuns ==
  \A t \in Slots :
    State(t) = "READY" /\ sched.prio[t] = NumPriorities - 1
      ~> State(t) # "READY" \/ pc \in {"halted", "corrupt"}
=============================================================================
