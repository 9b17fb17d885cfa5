------------------------------- MODULE Kernel -------------------------------
(***************************************************************************)
(* The microkernel: task descriptors, scheduling, message passing, events  *)
(* and task destruction (src/src/task.c, k_syscall.c, kernel.c,            *)
(* interrupt.c, mem.c).                                                    *)
(*                                                                         *)
(* The kernel is not preemptible: kernel_main schedules a task, runs it    *)
(* until it traps (a system call, or an interrupt), handles the request    *)
(* and schedules again.  User programs are the most general client: the    *)
(* running task issues any system call with any argument, within the       *)
(* habits given by Calls, DestroyStates, WaitOnce, Creators and MaxTasks.  *)
(***************************************************************************)
EXTENDS ReadyQueue, FiniteSets

CONSTANTS
  NumEnvelopes,  (* MESSAGE_QUEUE_SIZE                                       *)
  NumBlocks,     (* BLOCK_COUNT, the stacks initMem hands out                *)
  Generations,   (* how many times tid += TASK_BANK_SIZE before the bit-field
                    wraps: 2^13 / TASK_BANK_SIZE                             *)
  Events,        (* InterruptType_t                                          *)
  Clock,         (* CLOCK_INTERRUPT                                          *)
  FirstPriority, (* FIRST_PRIORITY                                           *)
  Calls,         (* the system calls the user programs make                  *)
  DestroyStates, (* the states in which a parent may Destroy a child         *)
  WaitOnce,      (* a task is waited for once and its descriptor not reused  *)
  Creators,      (* the descriptors whose tasks create tasks                 *)
  MaxTasks       (* how many descriptors the user programs keep in use       *)

ASSUME KernelAssumption ==
  /\ NumSlots >= 2
  /\ NumEnvelopes \in Nat \ {0}
  /\ NumBlocks \in Nat /\ NumBlocks >= 3
  /\ Generations \in Nat \ {0}
  /\ Clock \in Events
  /\ FirstPriority \in Priorities \ {0}
  /\ DestroyStates \subseteq TaskState
  /\ WaitOnce \in BOOLEAN
  /\ MaxTasks \in Nat

Envelopes == 0 .. NumEnvelopes - 1
EnvPtr    == Envelopes \cup {NULL}
TidRange  == NumSlots * Generations
Tids      == 0 .. TidRange - 1
NoParent  == -1

(* What setResult has left for a call that blocked: "ok" for any non-negative
   value, "none" before it completes and once its caller has resumed.  What a
   call that does not block returns affects no kernel state and is left out. *)
Results == {"none", "ok", "NO_MORE_ENVELOPES", "NO_AVAILABLE_MESSAGES", "TASK_DESTROYED"}

VARIABLES
  sched,     (* states, priorities, links and ready queues (ReadyQueue)       *)
  mail,      (* envelopes, inboxes, outboxes                                  *)
  tid,       (* Task_t.tid                                                    *)
  parent,    (* Task_t.parentTid                                              *)
  waitQueue, (* Task_t.waitQueue                                              *)
  result,    (* what a blocked call has been completed with                   *)
  waiter,    (* interruptTable[].blockedTask                                  *)
  blocks,    (* how many memory blocks are free                               *)
  bank,      (* taskBank, the first free descriptor                           *)
  current,   (* currentTask                                                   *)
  victim,    (* the argument of the destroyTaskD in progress                  *)
  pc         (* where kernel_main is                                          *)

vars == <<sched, mail, tid, parent, waitQueue, result, waiter, blocks, bank,
          current, victim, pc>>

Mail ==
  [sender : [Envelopes -> SlotPtr], next : [Envelopes -> EnvPtr], free : EnvPtr,
   inHead : [Slots -> EnvPtr], inTail : [Slots -> EnvPtr], outbox : [Slots -> EnvPtr]]

(* "user": a task is running.  "schedule", "drain": inside the kernel.
   "halted": kernel_main has left its loop.  "corrupt": the kernel has used a
   null pointer or subtracted a bit that was not set; what the machine does
   from there on is not modelled. *)
Places == {"schedule", "user", "drain", "halted", "corrupt"}

TypeOK ==
  /\ sched \in Scheduler
  /\ mail \in Mail
  /\ tid \in [Slots -> Tids]
  /\ parent \in [Slots -> Tids \cup {NoParent}]
  /\ waitQueue \in [Slots -> SlotPtr]
  /\ result \in [Slots -> Results]
  /\ waiter \in [Events -> SlotPtr]
  /\ blocks \in Nat
  /\ bank \in SlotPtr
  /\ current \in SlotPtr
  /\ victim \in SlotPtr
  /\ pc \in Places
-----------------------------------------------------------------------------
(* The state boot() and main() leave: initTasks, one block taken by the
   logger, the first user task in descriptor 0 and, from kernel_main, the
   NullTask in descriptor 1 at priority 0. *)
FirstTask == 0
NullTask  == 1

(* createTaskD caps the priority it is given. *)
Boot(q, t, p) ==
  AddTask([q EXCEPT !.prio[t] = IF p >= NumPriorities THEN NumPriorities - 1 ELSE p], t)

Init ==
  /\ sched = Boot(Boot(InitialScheduler, FirstTask, FirstPriority), NullTask, 0)
  /\ mail = [sender |-> [e \in Envelopes |-> NULL],
             next   |-> [e \in Envelopes |-> IF e = 0 THEN NULL ELSE e - 1],
             free   |-> NumEnvelopes - 1,
             inHead |-> [t \in Slots |-> NULL],
             inTail |-> [t \in Slots |-> NULL],
             outbox |-> [t \in Slots |-> NULL]]
  /\ tid = [t \in Slots |-> t]
  /\ parent = [t \in Slots |-> IF t \in {FirstTask, NullTask} THEN NoParent ELSE 0]
  /\ waitQueue = [t \in Slots |-> NULL]
  /\ result = [t \in Slots |-> "none"]
  /\ waiter = [e \in Events |-> NULL]
  /\ blocks = NumBlocks - 3
  /\ bank = IF NumSlots > 2 THEN 2 ELSE NULL
  /\ current = NULL
  /\ victim = NULL
  /\ pc = "schedule"
-----------------------------------------------------------------------------
State(t) == sched.state[t]

(* getTaskByTid: the descriptor is picked by the low bits of the tid. *)
TaskOf(x) ==
  LET t == x % NumSlots
  IN  IF State(t) # "FREE" /\ tid[t] = x THEN t ELSE NULL

(* getEnvelope, once it is known that there is one; releaseEnvelope. *)
GetEnvelope(m) == [m EXCEPT !.free = m.next[m.free], !.next[m.free] = NULL]

ReleaseEnvelope(m, e) == [m EXCEPT !.next[e] = m.free, !.free = e]

(* Task_t.tid is a bit-field: it wraps.  The mutants are a wider field, and a
   descriptor that keeps its tid. *)
NextTidWide(x) == x + NumSlots

NextTidSame(x) == x

NextTid(x) == (x + NumSlots) % TidRange

Live == {t \in Slots : State(t) # "FREE"}

(* The running task makes a system call.  The NullTask never makes one. *)
Calling(call) ==
  /\ pc = "user"
  /\ current # NullTask
  /\ call \in Calls

(* kernel_main after handleRequest: back to schedule().  A call that returns
   an error, or has nothing to change, leaves everything else as it was. *)
Complete(t, value) == result' = [result EXCEPT ![t] = value] /\ pc' = "schedule"

NoResult == pc' = "schedule" /\ UNCHANGED result

Block(q, state) == [q EXCEPT !.state[current] = state]

Corrupt == pc' = "corrupt" /\ UNCHANGED result

(* schedule() and the switch to the task it returns.  An ACTIVE task above
   every queue keeps running; otherwise it goes to the tail of its queue and
   the head of the highest queue runs. *)
Resume(t) ==
  /\ result' = [result EXCEPT ![t] = "none"]
  /\ current' = t
  /\ pc' = "user"

Schedule ==
  /\ pc = "schedule"
  /\ LET active == current # NULL /\ State(current) = "ACTIVE"
         keep   == active /\ sched.prio[current] > sched.highest
         q      == IF active THEN AddTask(sched, current) ELSE sched
     IN  \/ keep /\ Resume(current) /\ UNCHANGED sched
         \/ ~keep /\ q.highest = -1
            /\ pc' = "halted" /\ sched' = q /\ UNCHANGED <<current, result>>
         \/ ~keep /\ q.highest # -1 /\ CanDispatch(q)
            /\ Resume(First(q)) /\ sched' = Dispatch(q)
         \/ ~keep /\ q.highest # -1 /\ ~CanDispatch(q)
            /\ Corrupt /\ sched' = q /\ UNCHANGED current
  /\ UNCHANGED <<mail, tid, parent, waitQueue, waiter, blocks, bank, victim>>
-----------------------------------------------------------------------------
(* sys_create and createTaskD.  A fresh descriptor's waitQueue is not reset.
   With no descriptor the call fails; with no memory block left getMem returns
   NULL, which createTaskD uses. *)
Create(p) ==
  /\ Calling("Create") /\ current \in Creators
  /\ Cardinality(Live) < MaxTasks
  /\ WaitOnce /\ bank # NULL => waitQueue[bank] = NULL
  /\ \/ /\ bank = NULL
        /\ NoResult
        /\ UNCHANGED <<sched, mail, parent, blocks, bank>>
     \/ /\ bank # NULL /\ blocks = 0
        /\ Corrupt
        /\ UNCHANGED <<sched, mail, parent, blocks, bank>>
     \/ /\ bank # NULL /\ blocks > 0
        /\ sched' = Boot(sched, bank, p)
        /\ mail' = [mail EXCEPT !.inHead[bank] = NULL, !.inTail[bank] = NULL,
                                !.outbox[bank] = NULL]
        /\ parent' = [parent EXCEPT ![bank] = tid[current]]
        /\ bank' = sched.next[bank]
        /\ blocks' = blocks - 1
        /\ NoResult
  /\ UNCHANGED <<tid, waitQueue, waiter, current, victim>>

(* Calls that change no kernel state: Pass, MyTid, MyParentTid, Log, CpuIdle,
   and Create, Send, Reply, AwaitEvent, WaitTid and Destroy when they fail. *)
Pass ==
  /\ Calling("Pass")
  /\ NoResult
  /\ UNCHANGED <<sched, mail, tid, parent, waitQueue, waiter, blocks, bank, current, victim>>

(* SigTerm, Panic and Assert leave kernel_main's loop. *)
Terminate ==
  /\ Calling("SigTerm")
  /\ pc' = "halted"
  /\ UNCHANGED <<sched, mail, tid, parent, waitQueue, result, waiter, blocks, bank,
                 current, victim>>
-----------------------------------------------------------------------------
(* sys_send, case 1: r is blocked in Receive and its outbox holds the envelope
   it waits with; the sender takes that envelope over.  In the mutant the
   receiver keeps it too. *)
TakeOverSharing(m, r) ==
  [m EXCEPT !.sender[m.outbox[r]] = current, !.outbox[current] = m.outbox[r]]

TakeOver(m, r) ==
  [m EXCEPT !.sender[m.outbox[r]] = current,
            !.outbox = [@ EXCEPT ![r] = NULL, ![current] = m.outbox[r]]]

(* sys_send, case 2: a new envelope at the tail of r's inbox.  A mutant
   puts it at the head. *)
EnqueueFront(m, r) ==
  LET e == m.free
      g == GetEnvelope(m)
  IN  [g EXCEPT !.sender[e]       = current,
                !.outbox[current] = e,
                !.next[e]         = m.inHead[r],
                !.inHead[r]       = e,
                !.inTail[r]       = IF @ = NULL THEN e ELSE @]

Enqueue(m, r) ==
  LET e == m.free
      g == GetEnvelope(m)
  IN  [g EXCEPT !.sender[e]       = current,
                !.outbox[current] = e,
                !.inHead[r]       = IF @ = NULL THEN e ELSE @,
                !.next            = IF m.inHead[r] # NULL /\ m.inTail[r] # NULL
                                    THEN [@ EXCEPT ![m.inTail[r]] = e] ELSE @,
                !.inTail[r]       = e]

(* The end of sys_send: whoever is blocked in Receive is woken; in the mutant
   only a receiver that had been given an envelope. *)
WakeDirect(q, r) ==
  IF State(r) = "SEND_BL" /\ mail.outbox[r] # NULL THEN AddTask(q, r) ELSE q

WakeReceiver(q, r) == IF State(r) = "SEND_BL" THEN AddTask(q, r) ELSE q

(* Nothing happens if no such task exists, it is the caller itself, or there
   is no envelope for the message.  A receiver woken by case 2 is one whose
   Receive found no envelope: its result says so already. *)
Send(x) ==
  /\ Calling("Send")
  /\ LET r      == TaskOf(x)
         direct == r # NULL /\ State(r) = "SEND_BL" /\ mail.outbox[r] # NULL
     IN  \/ /\ r \in {NULL, current} \/ (~direct /\ mail.free = NULL)
            /\ NoResult
            /\ UNCHANGED <<sched, mail>>
         \/ /\ direct
            /\ mail' = TakeOver(mail, r)
            /\ sched' = WakeReceiver(Block(sched, "REPL_BL"), r)
            /\ Complete(r, "ok")
         \/ /\ r \notin {NULL, current} /\ ~direct /\ mail.free # NULL
            /\ mail' = Enqueue(mail, r)
            /\ sched' = WakeReceiver(Block(sched, "RECV_BL"), r)
            /\ NoResult
  /\ UNCHANGED <<tid, parent, waitQueue, waiter, blocks, bank, current, victim>>

(* sys_recv.  With an empty inbox the caller is blocked before an envelope is
   asked for, and stays blocked when there is none. *)
Receive ==
  /\ Calling("Receive")
  /\ LET e == mail.inHead[current]
     IN  \/ /\ e = NULL /\ mail.free = NULL
            /\ sched' = Block(sched, "SEND_BL")
            /\ Complete(current, "NO_MORE_ENVELOPES")
            /\ UNCHANGED mail
         \/ /\ e = NULL /\ mail.free # NULL
            /\ sched' = Block(sched, "SEND_BL")
            /\ mail' = [GetEnvelope(mail) EXCEPT !.sender[mail.free] = NULL,
                                                 !.outbox[current] = mail.free]
            /\ Complete(current, "NO_AVAILABLE_MESSAGES")
         \/ /\ e # NULL /\ mail.sender[e] # NULL
            /\ mail' = [mail EXCEPT !.inHead[current] = mail.next[e],
                                    !.next[e] = NULL,
                                    !.inTail[current] = IF mail.next[e] = NULL
                                                        THEN NULL ELSE @]
            /\ sched' = [sched EXCEPT !.state[mail.sender[e]] = "REPL_BL"]
            /\ NoResult
         \/ /\ e # NULL /\ mail.sender[e] = NULL
            /\ Corrupt
            /\ UNCHANGED <<sched, mail>>
  /\ UNCHANGED <<tid, parent, waitQueue, waiter, blocks, bank, current, victim>>

(* sys_reply, which any task may call: nothing says that the caller is the one
   that received.  It fails unless the target waits for a reply. *)
Reply(x) ==
  /\ Calling("Reply")
  /\ LET t      == TaskOf(x)
         awaits == t # NULL /\ State(t) = "REPL_BL" /\ mail.outbox[t] # NULL
     IN  \/ /\ ~awaits
            /\ NoResult
            /\ UNCHANGED <<sched, mail>>
         \/ /\ awaits
            /\ sched' = AddTask(sched, t)
            /\ mail' = [ReleaseEnvelope(mail, mail.outbox[t]) EXCEPT !.outbox[t] = NULL]
            /\ Complete(t, "ok")
  /\ UNCHANGED <<tid, parent, waitQueue, waiter, blocks, bank, current, victim>>
-----------------------------------------------------------------------------
(* sys_await and addInterruptListener: one task per event. *)
Await(e) ==
  /\ Calling("Await")
  /\ waiter[e] = NULL
  /\ waiter' = [waiter EXCEPT ![e] = current]
  /\ sched' = Block(sched, "EVENT_BL")
  /\ NoResult
  /\ UNCHANGED <<mail, tid, parent, waitQueue, blocks, bank, current, victim>>

(* clearEntry. *)
ClearEntry(e) == waiter' = [waiter EXCEPT ![e] = NULL]

(* handleInterrupt.  The interrupted task is not completed with anything.  A
   clock tick that finds nobody waiting is fatal; another such event is lost. *)
Interrupt(e) ==
  /\ pc = "user"
  /\ \/ /\ waiter[e] # NULL
        /\ sched' = AddTask(sched, waiter[e])
        /\ ClearEntry(e)
        /\ Complete(waiter[e], "ok")
     \/ /\ waiter[e] = NULL
        /\ pc' = IF e = Clock THEN "halted" ELSE "schedule"
        /\ UNCHANGED <<sched, result, waiter>>
  /\ UNCHANGED <<mail, tid, parent, waitQueue, blocks, bank, current, victim>>

(* sys_waittid: the caller is pushed on the front of the target's waitQueue,
   through its own `next' field. *)
WaitTid(x) ==
  /\ Calling("WaitTid")
  /\ TaskOf(x) # NULL
  /\ WaitOnce => waitQueue[TaskOf(x)] = NULL
  /\ sched' = [sched EXCEPT !.state[current] = "WAITTID_BL",
                            !.next[current] = waitQueue[TaskOf(x)]]
  /\ waitQueue' = [waitQueue EXCEPT ![TaskOf(x)] = current]
  /\ NoResult
  /\ UNCHANGED <<mail, tid, parent, waiter, blocks, bank, current, victim>>
-----------------------------------------------------------------------------
(* The loop over the wait queue in destroyTaskD: it advances with t = t->next
   after addTask(t) has cleared that link, so it wakes the first waiter only. *)
WakeWaiters(v) ==
  IF waitQueue[v] = NULL THEN sched ELSE AddTask(sched, waitQueue[v])

(* destroyTaskD up to its inbox loop.  waitQueue is not reset. *)
BeginDestroy(v) ==
  LET q     == WakeWaiters(v)
      ready == q.state[v] = "READY"
  IN  /\ \/ /\ ready => CanUnlink(q, v)
            /\ sched' = [(IF ready THEN Unlink(q, v) ELSE q)
                           EXCEPT !.state[v] = "FREE", !.prio[v] = 0]
            /\ tid' = [tid EXCEPT ![v] = NextTid(@)]
            /\ parent' = [parent EXCEPT ![v] = 0]
            /\ blocks' = blocks + 1
            /\ victim' = v
            /\ pc' = "drain"
         \/ /\ ready /\ ~CanUnlink(q, v)
            /\ sched' = q
            /\ pc' = "corrupt"
            /\ UNCHANGED <<tid, parent, blocks, victim>>
      /\ result' = [t \in Slots |-> IF t = v THEN "none"
                                    ELSE IF t = waitQueue[v] THEN "ok" ELSE result[t]]
      /\ UNCHANGED <<mail, waitQueue, waiter, bank, current>>

(* One turn of the loop over the victim's inbox: a task whose message was
   never received is told so. *)
DrainInbox ==
  /\ pc = "drain"
  /\ LET e == mail.inHead[victim]
         t == mail.sender[e]
     IN  /\ e # NULL
         /\ \/ /\ t # NULL
               /\ sched' = AddTask(sched, t)
               /\ mail' = [ReleaseEnvelope(mail, e) EXCEPT !.inHead[victim] = mail.next[e],
                                                           !.outbox[t] = NULL]
               /\ result' = [result EXCEPT ![t] = "TASK_DESTROYED"]
               /\ UNCHANGED pc
            \/ /\ t = NULL
               /\ Corrupt
               /\ UNCHANGED <<sched, mail>>
  /\ UNCHANGED <<tid, parent, waitQueue, waiter, blocks, bank, current, victim>>

(* The descriptor goes back to the bank. *)
ReturnToBank(v) ==
  /\ sched' = [sched EXCEPT !.next[v] = bank]
  /\ bank' = v

(* The end of destroyTaskD, and of the system call that called it. *)
FinishDestroy ==
  /\ pc = "drain"
  /\ mail.inHead[victim] = NULL
  /\ LET e == mail.outbox[victim]
         m == IF e = NULL THEN mail ELSE ReleaseEnvelope(mail, e)
     IN  mail' = [m EXCEPT !.inTail[victim] = NULL, !.outbox[victim] = NULL]
  /\ ReturnToBank(victim)
  /\ current' = IF current = victim THEN NULL ELSE current
  /\ victim' = NULL
  /\ NoResult
  /\ UNCHANGED <<tid, parent, waitQueue, waiter, blocks>>

Exit ==
  /\ Calling("Exit")
  /\ BeginDestroy(current)

(* sys_destroy: a task destroys its own children.  For a dead tid parentTid is
   read through a null pointer: the word found there decides, and if it
   matches the kernel destroys descriptor NULL. *)
Destroy(x) ==
  /\ Calling("Destroy")
  /\ LET t == TaskOf(x)
     IN  /\ t # NULL
         /\ parent[t] = tid[current]
         /\ State(t) \in DestroyStates
         /\ BeginDestroy(t)

DestroyDead(x) ==
  /\ Calling("DestroyDead")
  /\ TaskOf(x) = NULL
  /\ NoResult \/ Corrupt
  /\ UNCHANGED <<sched, mail, tid, parent, waitQueue, waiter, blocks, bank, current, victim>>

Next ==
  \/ Schedule
  \/ \E p \in 0 .. NumPriorities : Create(p)
  \/ Pass
  \/ Terminate
  \/ Receive
  \/ \E x \in Tids : Send(x) \/ Reply(x) \/ WaitTid(x) \/ Destroy(x) \/ DestroyDead(x)
  \/ \E e \in Events : Await(e) \/ Interrupt(e)
  \/ Exit
  \/ DrainInbox
  \/ FinishDestroy

Spec == Init /\ [][Next]_vars
-----------------------------------------------------------------------------
(* The envelopes a walk along `next' from a pointer meets, as in ListFrom. *)
EnvSet(m, from) ==
  LET closed == {S \in SUBSET Envelopes :
                   /\ from = NULL \/ from \in S
                   /\ \A e \in S : m.next[e] = NULL \/ m.next[e] \in S}
  IN  {e \in Envelopes : \A S \in closed : e \in S}

Acyclic(m, from) == from = NULL \/ \E e \in EnvSet(m, from) : m.next[e] = NULL

Outboxes == {mail.outbox[t] : t \in Slots} \ {NULL}

(* Every ready queue is a list from its head to its tail of exactly the READY
   tasks of its priority, and the bitmask and the cached highest priority say
   which queues have a task (addTask, destroyTaskD, schedule keep them by hand
   in three places each). *)
ReadyQueuesSound ==
  /\ \A p \in Priorities :
       LET q == sched IN
       /\ ListFrom(q, q.head[p]) = {t \in Slots : State(t) = "READY" /\ q.prio[t] = p}
       /\ Ends(q, q.head[p])
       /\ q.tail[p] = NULL <=> q.head[p] = NULL
       /\ q.tail[p] # NULL => State(q.tail[p]) = "READY" /\ q.next[q.tail[p]] = NULL
                              /\ q.prio[q.tail[p]] = p
       /\ p \in q.avail <=> q.head[p] # NULL
  /\ sched.highest = HighestOf(sched.avail)

(* Descriptors and memory: the bank lists the FREE descriptors, and every task
   that is not FREE, the NullTask and the logger each hold one memory block. *)
BankSound ==
  LET freed == {t \in Slots : State(t) = "FREE"} \ {victim}
  IN  /\ ListFrom(sched, bank) = freed
      /\ Ends(sched, bank)
      /\ blocks + Cardinality(Live) = NumBlocks - 1

(* An event wakes a task that is waiting for it: the table and the EVENT_BL
   tasks agree (addInterruptListener, handleInterrupt). *)
EventsSound ==
  /\ \A e \in Events : waiter[e] # NULL => State(waiter[e]) = "EVENT_BL"
  /\ \A t \in Slots : State(t) = "EVENT_BL" => \E e \in Events : waiter[e] = t

(* Each descriptor is where its state says: in one ready queue, in the bank, or in
   the interrupt table; destroyTaskD takes it from all of them by hand. *)
DescriptorsSound == ReadyQueuesSound /\ BankSound /\ EventsSound

(* An envelope is in one place: the free list, or the outbox of one task.  None
   is lost, none is handed out twice (getEnvelope, releaseEnvelope, sys_send's
   take-over, destroyTaskD). *)
EnvelopesSound ==
  /\ Acyclic(mail, mail.free)
  /\ EnvSet(mail, mail.free) = Envelopes \ Outboxes
  /\ \A t, u \in Slots : mail.outbox[t] = mail.outbox[u] /\ mail.outbox[t] # NULL => t = u

(* A task is RECV_BL exactly while its envelope is in one inbox, and the
   envelope names it: what sys_recv and destroyTaskD will find there. *)
InboxesSound ==
  LET inbox == [r \in Slots |-> EnvSet(mail, mail.inHead[r])]
  IN  /\ \A r \in Slots :
           /\ Acyclic(mail, mail.inHead[r])
           /\ \A e \in inbox[r] : /\ mail.sender[e] # NULL
                                  /\ State(mail.sender[e]) = "RECV_BL"
                                  /\ mail.outbox[mail.sender[e]] = e
           /\ inbox[r] # {} => mail.inTail[r] \in inbox[r] /\ mail.next[mail.inTail[r]] = NULL
           /\ \A s \in Slots \ {r} : inbox[r] \cap inbox[s] = {}
      /\ \A t \in Slots : State(t) = "RECV_BL" => \E r \in Slots : mail.outbox[t] \in inbox[r]

(* A task in a message's reply phase can be replied to: it still holds the
   envelope, which still names it.  A Receive that got no envelope is the
   one case of a blocked receiver without one. *)
BlockedTasksHoldTheirEnvelope ==
  \A t \in Slots :
    LET e == mail.outbox[t] IN
    /\ State(t) \in {"RECV_BL", "REPL_BL"} => e # NULL /\ mail.sender[e] = t
    /\ State(t) = "SEND_BL" => (e = NULL <=> result[t] = "NO_MORE_ENVELOPES")
    /\ State(t) \notin {"RECV_BL", "REPL_BL", "SEND_BL"} /\ t # victim => e = NULL

(* Each envelope is in one place, the one its task's state says, whichever of the
   tasks on its way is destroyed and however short envelopes are. *)
MailSound == EnvelopesSound /\ InboxesSound /\ BlockedTasksHoldTheirEnvelope

(* No receiver sleeps beside a message: a task blocked in Receive has an empty
   inbox, whether or not an envelope was found for it. *)
NoSleepingReceiver ==
  \A t \in Slots : State(t) = "SEND_BL" => mail.inHead[t] = NULL

(* While a user program runs it is the one ACTIVE task and no READY task has a
   higher priority. *)
RunsHighest ==
  pc = "user" =>
    /\ {t \in Slots : State(t) = "ACTIVE"} = {current}
    /\ \A t \in Slots : State(t) = "READY" => sched.prio[t] <= sched.prio[current]

(* "WaitTid blocks on the wait queue of the specified task and returns when
   that task exists": a task blocked in WaitTid is on the wait queue of a task
   that is still there to exit. *)
WaitersCanReturn ==
  \A t \in Slots : State(t) = "WAITTID_BL" =>
    \E u \in Live : t \in ListFrom(sched, waitQueue[u])

(* "task descriptors to be recycled cleanly and reused": what is in the bank is
   FREE, and no inbox holds a message of it. *)
RecycledCleanly ==
  \A t \in ListFrom(sched, bank) :
    /\ State(t) = "FREE"
    /\ \A r \in Live, e \in Envelopes :
         e \in EnvSet(mail, mail.inHead[r]) => mail.sender[e] # t

(* The comment of schedule(), "get queue with highest priority. this is
   guaranteed to not be empty", and the same for the other pointers the kernel
   follows unchecked. *)
NeverCorrupt == pc # "corrupt"

=============================================================================
