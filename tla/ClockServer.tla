----------------------------- MODULE ClockServer -----------------------------
(***************************************************************************)
(* The clock server, its notifier and their clients (src/servers/clock.c). *)
(*                                                                         *)
(* The kernel's part is its promise (Ipc): messages to the server wait in  *)
(* its inbox in the order of the Sends, and a client stays blocked until   *)
(* the server replies.  A step of the server is one message handled up to  *)
(* a Reply, the count that follows the Reply to the notifier, or one Reply *)
(* of the loop that wakes sleepers; clients, the notifier and the timer    *)
(* run between any two.                                                    *)
(***************************************************************************)
EXTENDS Integers, Sequences, FiniteSets

CONSTANTS
  Clients,   (* tasks that call Delay, DelayUntil and Time         *)
  Notifier,  (* the ClockNotifier                                  *)
  BankSize,  (* nodes of __bank                                    *)
  Word,      (* 2^32: `ticks' and `delay' are unsigned words       *)
  Amounts,   (* the words clients pass                             *)
  MaxTicks   (* bound: the timer stops after so many interrupts    *)

ASSUME ClockAssumption ==
  /\ Notifier \notin Clients
  /\ BankSize \in Nat
  /\ Word \in Nat \ {0}
  /\ Amounts \subseteq 0 .. Word - 1
  /\ MaxTicks \in Nat /\ MaxTicks < Word

Words    == 0 .. Word - 1
Tasks    == Clients \cup {Notifier}
Requests == [type : {"DELAY", "DELAY_UNTIL", "TIME", "TICK"}, ticks : Words, from : Tasks]
Nodes    == [tid : Clients, delay : Words]

VARIABLES
  ticks,   (* the server's count                                              *)
  queue,   (* the sleeping clients, by delay                                  *)
  spare,   (* how many nodes are on the free list                             *)
  woken,   (* nodes passed by the waking loop and not yet freed               *)
  inbox,   (* messages sent to the server and not yet received                *)
  phase,   (* what each client is doing                                       *)
  notifier,(* where the notifier's loop is                                    *)
  now,     (* clock interrupts so far                                         *)
  wish,    (* the interrupt before which a waiting client wants no answer: a
              history of the calls, which nothing reads                       *)
  pc       (* where the server is                                             *)

vars == <<ticks, queue, spare, woken, inbox, phase, notifier, now, wish, pc>>

(* "early": before the server has set clockserver_tid, when every call returns
   -1 at once.  "counting": the notifier is answered, its tick not yet counted.
   "waking": in the loop of TICK. *)
ClockTypeOK ==
  /\ ticks \in Words
  /\ queue \in Seq(Nodes)
  /\ spare \in 0 .. BankSize
  /\ woken \in 0 .. BankSize
  /\ inbox \in Seq(Requests)
  /\ phase \in [Clients -> {"running", "waiting", "destroyed"}]
  /\ notifier \in {"none", "awaiting", "sending", "waiting", "returning"}
  /\ now \in 0 .. MaxTicks
  /\ wish \in [Clients -> Nat]
  /\ pc \in {"early", "receiving", "counting", "waking"}

Init ==
  /\ ticks = 0 /\ queue = <<>> /\ spare = BankSize /\ woken = 0
  /\ inbox = <<>>
  /\ phase = [c \in Clients |-> "running"]
  /\ notifier = "none"
  /\ now = 0
  /\ wish = [c \in Clients |-> 0]
  /\ pc = "early"
-----------------------------------------------------------------------------
(* Client side: Delay, DelayUntil, Time. *)
Request(t, type, n) == inbox' = Append(inbox, [type |-> type, ticks |-> n, from |-> t])

Call(c, type, n, notBefore) ==
  /\ phase[c] = "running"
  /\ pc # "early"
  /\ Request(c, type, n)
  /\ phase' = [phase EXCEPT ![c] = "waiting"]
  /\ wish' = [wish EXCEPT ![c] = notBefore]
  /\ UNCHANGED <<ticks, queue, spare, woken, notifier, now, pc>>

(* Both parameters are ints: the upper half of the words is negative and asks
   for nothing.  Delay(n) may catch its first tick at any point on its way. *)
Natural(n) == n < Word \div 2

Delay(c, n)      == Call(c, "DELAY", n, IF Natural(n) /\ n > 0 THEN now + n - 1 ELSE 0)
DelayUntil(c, n) == Call(c, "DELAY_UNTIL", n, IF Natural(n) THEN n ELSE 0)
Time(c)          == Call(c, "TIME", 0, 0)

(* A client whose request has been received may be destroyed by its parent, as
   the train tasks do with their delay couriers.  Its tid is not seen again. *)
DestroyClient(c) ==
  /\ phase[c] = "waiting"
  /\ \A i \in DOMAIN inbox : inbox[i].from # c
  /\ phase' = [phase EXCEPT ![c] = "destroyed"]
  /\ wish' = [wish EXCEPT ![c] = 0]
  /\ UNCHANGED <<ticks, queue, spare, woken, inbox, notifier, now, pc>>
-----------------------------------------------------------------------------
(* The timer and the notifier's loop.  An interrupt that finds the notifier
   elsewhere than in AwaitEvent stops the kernel (Kernel, Interrupt); a mutant
   in which it is lost. *)
LostTick ==
  /\ now < MaxTicks
  /\ now' = now + 1
  /\ notifier' = IF notifier = "awaiting" THEN "sending" ELSE notifier
  /\ UNCHANGED <<ticks, queue, spare, woken, inbox, phase, wish, pc>>

TimerInterrupt ==
  /\ notifier = "awaiting"
  /\ now < MaxTicks
  /\ now' = now + 1
  /\ notifier' = "sending"
  /\ UNCHANGED <<ticks, queue, spare, woken, inbox, phase, wish, pc>>

NotifierSend ==
  /\ notifier = "sending"
  /\ Request(Notifier, "TICK", 0)
  /\ notifier' = "waiting"
  /\ UNCHANGED <<ticks, queue, spare, woken, phase, wish, now, pc>>

NotifierAwait ==
  /\ notifier = "returning"
  /\ notifier' = "awaiting"
  /\ UNCHANGED <<ticks, queue, spare, woken, inbox, phase, wish, now, pc>>
-----------------------------------------------------------------------------
(* The server creates its notifier, registers and starts the timer. *)
Start ==
  /\ pc = "early"
  /\ pc' = "receiving"
  /\ notifier' = "awaiting"
  /\ UNCHANGED <<ticks, queue, spare, woken, inbox, phase, wish, now>>

(* Reply fails, without effect, if the client is gone; a mutant that forgets
   it. *)
NoReply(c) == UNCHANGED <<phase, wish>>

ReplyTo(c) ==
  /\ phase' = [phase EXCEPT ![c] = IF @ = "waiting" THEN "running" ELSE @]
  /\ wish' = [wish EXCEPT ![c] = 0]

(* Insertion behind the nodes that are not later; a mutant that stops one node
   too early. *)
Before(s, node) ==
  CHOOSE k \in 0 .. Len(s) :
    /\ \A i \in 1 .. k : s[i].delay <= node.delay
    /\ k < Len(s) => s[k + 1].delay > node.delay

InsertAt(s, k, node) ==
  [i \in 1 .. Len(s) + 1 |-> IF i <= k THEN s[i] ELSE IF i = k + 1 THEN node ELSE s[i - 1]]

InsertFirst(s, node) == InsertAt(s, 0, node)

Insert(s, node) == InsertAt(s, Before(s, node), node)

(* The tick a request asks for: msg.ticks after DELAY has added the count;
   mutants in which DELAY falls through unchanged, or adds without the wrap. *)
AskedFor(m) == m.ticks

DeadlineWide(m) == IF m.type = "DELAY" THEN m.ticks + ticks ELSE m.ticks

Deadline(m) == IF m.type = "DELAY" THEN (m.ticks + ticks) % Word ELSE m.ticks

Received(m) ==
  /\ pc = "receiving"
  /\ inbox # <<>>
  /\ m = Head(inbox)
  /\ inbox' = Tail(inbox)

(* A Time request, a deadline that has passed, or no node left: answered at
   once (with the count, or OUT_OF_SPACE). *)
AnswerNow ==
  \E m \in {inbox[i] : i \in DOMAIN inbox} :
    /\ Received(m)
    /\ \/ m.type = "TIME"
       \/ m.type \in {"DELAY", "DELAY_UNTIL"} /\ (Deadline(m) <= ticks \/ spare = 0)
    /\ ReplyTo(m.from)
    /\ UNCHANGED <<ticks, queue, spare, woken, notifier, now, pc>>

KeepAsleep ==
  \E m \in {inbox[i] : i \in DOMAIN inbox} :
    /\ Received(m)
    /\ m.type \in {"DELAY", "DELAY_UNTIL"}
    /\ Deadline(m) > ticks /\ spare > 0
    /\ queue' = Insert(queue, [tid |-> m.from, delay |-> Deadline(m)])
    /\ spare' = spare - 1
    /\ UNCHANGED <<ticks, woken, phase, wish, notifier, now, pc>>

(* The notifier goes on before its tick is counted. *)
AnswerNotifier ==
  \E m \in {inbox[i] : i \in DOMAIN inbox} :
    /\ Received(m)
    /\ m.type = "TICK"
    /\ notifier' = "returning"
    /\ pc' = "counting"
    /\ UNCHANGED <<ticks, queue, spare, woken, phase, wish, now>>

CountTick ==
  /\ pc = "counting"
  /\ ticks' = (ticks + 1) % Word
  /\ pc' = "waking"
  /\ UNCHANGED <<queue, spare, woken, inbox, phase, wish, notifier, now>>

(* The loop over the sleepers: its condition, one Reply, and the end, where the
   nodes it has passed go back to the free list. *)
DueBefore(delay) == delay < ticks

Due(delay) == delay <= ticks

Wake ==
  /\ pc = "waking"
  /\ queue # <<>> /\ Due(Head(queue).delay)
  /\ ReplyTo(Head(queue).tid)
  /\ queue' = Tail(queue)
  /\ woken' = woken + 1
  /\ UNCHANGED <<ticks, spare, inbox, notifier, now, pc>>

FreeOne(n) == IF n = 0 THEN 0 ELSE 1

FreeAll(n) == n

EndOfTick ==
  /\ pc = "waking"
  /\ queue # <<>> => ~Due(Head(queue).delay)
  /\ spare' = spare + FreeAll(woken)
  /\ woken' = 0
  /\ pc' = "receiving"
  /\ UNCHANGED <<ticks, queue, inbox, phase, wish, notifier, now>>

Serve == Start \/ AnswerNow \/ KeepAsleep \/ AnswerNotifier \/ CountTick \/ Wake \/ EndOfTick

Tick == TimerInterrupt \/ NotifierSend \/ NotifierAwait

Next ==
  \/ Serve
  \/ Tick
  \/ \E c \in Clients : Time(c) \/ DestroyClient(c)
                        \/ \E n \in Amounts : Delay(c, n) \/ DelayUntil(c, n)

Spec == Init /\ [][Next]_vars

(* The timer keeps ticking, and the kernel runs the server and the notifier,
   which have the highest priority (Kernel, TopPriorityRuns). *)
FairSpec == Spec /\ WF_vars(Serve) /\ WF_vars(Tick)
-----------------------------------------------------------------------------
(* A blocked client is in one place, its message or its node, and only once:
   it will get one reply.  A destroyed client may still have a node. *)
OneAnswerEach ==
  \A c \in Clients :
    LET asked    == {i \in DOMAIN inbox : inbox[i].from = c}
        sleeping == {i \in DOMAIN queue : queue[i].tid = c}
    IN  CASE phase[c] = "running"   -> asked = {} /\ sleeping = {}
          [] phase[c] = "waiting"   -> Cardinality(asked) + Cardinality(sleeping) = 1
          [] phase[c] = "destroyed" -> asked = {} /\ Cardinality(sleeping) <= 1

(* No node of the bank is lost or used twice. *)
NodesConserved ==
  /\ Len(queue) + woken + spare = BankSize
  /\ pc # "waking" => woken = 0

(* The count is the number of interrupts, less the one whose message is on its way
   and the one whose message the server has answered and not counted: at most two
   are ever behind, and there is never a second message (Time does not drift). *)
Behind == (IF notifier \in {"sending", "waiting"} THEN 1 ELSE 0) + (IF pc = "counting" THEN 1 ELSE 0)

CountKeepsUp ==
  /\ now = ticks + Behind
  /\ Cardinality({i \in DOMAIN inbox : inbox[i].type = "TICK"}) = IF notifier = "waiting" THEN 1 ELSE 0

(* Nobody is answered early: Delay(n) not before n - 1 interrupts after the call
   (its first tick may be on its way), DelayUntil(n) not before the n-th, unless
   there was no node for them. *)
NobodyWokenEarly ==
  [][\A c \in Clients :
       phase[c] = "waiting" /\ phase'[c] = "running" => now >= wish[c] \/ spare = 0]_vars

(* Whoever asks is answered or put to sleep, and whoever sleeps is answered if
   its time comes before the bound. *)
SleepersWake ==
  \A c \in Clients :
    /\ (\E i \in DOMAIN inbox : inbox[i].from = c) ~> (\A i \in DOMAIN inbox : inbox[i].from # c)
    /\ (\E i \in DOMAIN queue : queue[i].tid = c /\ queue[i].delay <= MaxTicks) ~> phase[c] # "waiting"

=============================================================================
