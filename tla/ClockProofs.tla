----------------------------- MODULE ClockProofs -----------------------------
(* Theorems about ClockServer, for every number of clients, nodes and ticks,
   and every width of a word. *)
EXTENDS MCClock, Facts

USE ClockAssumption

(* The inductive invariant: the clients' messages and nodes told apart by index
   where the properties count them, and what the waking loop relies on. *)
Messages ==
  \A i \in DOMAIN inbox : inbox[i].type = "TICK" <=> inbox[i].from = Notifier

OncePerTask ==
  /\ \A i, j \in DOMAIN inbox : inbox[i].from = inbox[j].from => i = j
  /\ \A i, j \in DOMAIN queue : queue[i].tid = queue[j].tid => i = j
  /\ \A i \in DOMAIN inbox, j \in DOMAIN queue : inbox[i].from # queue[j].tid

Accounted ==
  \A c \in Clients :
    LET asks   == \E i \in DOMAIN inbox : inbox[i].from = c
        sleeps == \E i \in DOMAIN queue : queue[i].tid = c
    IN  /\ phase[c] = "running" => ~asks /\ ~sleeps
        /\ phase[c] = "waiting" => asks \/ sleeps
        /\ phase[c] = "destroyed" => ~asks

(* The count, with the tick the server is about to count. *)
Counted == IF pc = "counting" THEN ticks + 1 ELSE ticks

TicksInStep ==
  /\ now = IF notifier \in {"sending", "waiting"} THEN Counted + 1 ELSE Counted
  /\ notifier = "waiting" <=> \E i \in DOMAIN inbox : inbox[i].from = Notifier

Sorted == \A i, j \in DOMAIN queue : i < j => queue[i].delay <= queue[j].delay

EarlyNotifier == pc = "early" => notifier = "none"

NobodyOverdue == pc # "waking" => \A i \in DOMAIN queue : queue[i].delay > ticks

ClockInv ==
  /\ ClockTypeOK /\ NodesConserved
  /\ Messages /\ OncePerTask /\ Accounted /\ TicksInStep
  /\ Sorted /\ NobodyOverdue /\ EarlyNotifier
-----------------------------------------------------------------------------
(* Insert finds a place: behind the last of the nodes at the head of the list
   that are not later. *)
LEMMA BeforeWhere ==
  ASSUME NEW s \in Seq(Nodes), NEW node \in Nodes
  PROVE  /\ Before(s, node) \in 0 .. Len(s)
         /\ \A i \in 1 .. Before(s, node) : s[i].delay <= node.delay
         /\ Before(s, node) < Len(s) => s[Before(s, node) + 1].delay > node.delay
<1> DEFINE T == {k \in 0 .. Len(s) : k < Len(s) => s[k + 1].delay > node.delay}
<1>1. Len(s) \in Nat /\ \A i \in 1 .. Len(s) : s[i] \in Nodes
  BY LenProperties, ElementOfSeq
<1>2. T \in SUBSET Nat /\ Len(s) \in T
  BY <1>1
<1>3. PICK k \in T : \A j \in T : k <= j
  BY <1>2, LeastNatural
<1>4. \A i \in 1 .. k : s[i].delay <= node.delay
  <2> SUFFICES ASSUME NEW i \in 1 .. k PROVE s[i].delay <= node.delay
    OBVIOUS
  <2>1. k \in 0 .. Len(s) /\ i - 1 \in 0 .. Len(s) /\ i - 1 < k /\ (i - 1) + 1 = i
    BY <1>1
  <2>2. i - 1 \notin T
    <3> HIDE DEF T
    <3> QED BY <1>3, <2>1
  <2>3. s[i] \in Nodes
    BY <1>1, <2>1
  <2> QED BY <2>1, <2>2, <2>3 DEF Nodes, Words
<1> QED BY <1>3, <1>4 DEF Before

LEMMA Inserted ==
  ASSUME NEW s \in Seq(Nodes), NEW node \in Nodes
  PROVE  \E k \in 0 .. Len(s) :
           /\ Insert(s, node) \in Seq(Nodes)
           /\ Len(s) \in Nat /\ DOMAIN s = 1 .. Len(s)
           /\ Len(Insert(s, node)) = Len(s) + 1
           /\ DOMAIN Insert(s, node) = 1 .. Len(s) + 1
           /\ \A i \in 1 .. Len(s) + 1 :
                Insert(s, node)[i] = IF i <= k THEN s[i] ELSE IF i = k + 1 THEN node ELSE s[i - 1]
           /\ \A i \in 1 .. k : s[i].delay <= node.delay
           /\ k < Len(s) => s[k + 1].delay > node.delay
<1> DEFINE k == Before(s, node)
           t == InsertAt(s, k, node)
<1>1. Len(s) \in Nat /\ DOMAIN s = 1 .. Len(s) /\ \A i \in 1 .. Len(s) : s[i] \in Nodes
  BY LenProperties, ElementOfSeq
<1>2. k \in 0 .. Len(s)
  BY BeforeWhere
<1> HIDE DEF k
<1>3. t \in [1 .. Len(s) + 1 -> Nodes]
  BY <1>1, <1>2 DEF InsertAt
<1>4. t \in Seq(Nodes)
  BY <1>1, <1>3, SeqDef
<1>5. Len(t) = Len(s) + 1
  BY <1>1, <1>3, <1>4, LenProperties
<1>6. \A i \in 1 .. Len(s) + 1 : t[i] = IF i <= k THEN s[i] ELSE IF i = k + 1 THEN node ELSE s[i - 1]
  BY DEF InsertAt
<1> WITNESS k \in 0 .. Len(s)
<1> QED BY <1>1, <1>3, <1>4, <1>5, <1>6, BeforeWhere DEF Insert, k
-----------------------------------------------------------------------------
LEMMA InitClock == Init => ClockInv
<1> SUFFICES ASSUME Init PROVE ClockInv
  OBVIOUS
<1>1. queue = <<>> /\ inbox = <<>> /\ DOMAIN queue = {} /\ DOMAIN inbox = {} /\ Len(queue) = 0
  BY DEF Init
<1>2. queue \in Seq(Nodes) /\ inbox \in Seq(Requests)
  BY <1>1, EmptySeq
<1> QED BY <1>1, <1>2 DEF Init, ClockInv, ClockTypeOK, NodesConserved, Messages, OncePerTask,
            Accounted, TicksInStep, Counted, Sorted, NobodyOverdue, EarlyNotifier, Words

(* A message comes from a task that has none waiting. *)
LEMMA AskedOnce ==
  ASSUME ClockInv, NEW m \in Requests, m.type = "TICK" <=> m.from = Notifier,
         inbox' = Append(inbox, m), UNCHANGED queue,
         \A i \in DOMAIN inbox : inbox[i].from # m.from,
         \A j \in DOMAIN queue : queue[j].tid # m.from
  PROVE  /\ inbox' \in Seq(Requests) /\ Messages' /\ OncePerTask'
         /\ \A t : (\E i \in DOMAIN inbox' : inbox'[i].from = t)
                     <=> t = m.from \/ \E i \in DOMAIN inbox : inbox[i].from = t
<1>1. inbox \in Seq(Requests)
  BY DEF ClockInv, ClockTypeOK
<1>2. /\ inbox' \in Seq(Requests)
      /\ DOMAIN inbox' = 1 .. Len(inbox) + 1 /\ DOMAIN inbox = 1 .. Len(inbox) /\ Len(inbox) \in Nat
      /\ \A i \in 1 .. Len(inbox) : inbox'[i] = inbox[i]
      /\ inbox'[Len(inbox) + 1] = m
  BY <1>1, Appended
<1>3. \A i \in DOMAIN inbox' :
        \/ i \in DOMAIN inbox /\ inbox'[i] = inbox[i]
        \/ i = Len(inbox) + 1 /\ inbox'[i] = m
  BY <1>2
<1>4. Messages'
  BY <1>3 DEF ClockInv, Messages
<1>5. OncePerTask'
  BY <1>3 DEF ClockInv, OncePerTask
<1> QED BY <1>2, <1>3, <1>4, <1>5

LEMMA CallClock ==
  ASSUME ClockInv, NEW c \in Clients, NEW type \in {"DELAY", "DELAY_UNTIL", "TIME"},
         NEW n \in Words, NEW notBefore \in Nat, Call(c, type, n, notBefore)
  PROVE  ClockInv'
<1> DEFINE m == [type |-> type, ticks |-> n, from |-> c]
<1>1. m \in Requests /\ inbox' = Append(inbox, m) /\ (m.type = "TICK" <=> m.from = Notifier)
  BY DEF Call, Request, Requests, Tasks
<1>2. /\ \A i \in DOMAIN inbox : inbox[i].from # c
      /\ \A j \in DOMAIN queue : queue[j].tid # c
  BY DEF Call, ClockInv, Accounted
<1>3. /\ inbox' \in Seq(Requests) /\ Messages' /\ OncePerTask'
      /\ \A t : (\E i \in DOMAIN inbox' : inbox'[i].from = t)
                  <=> t = c \/ \E i \in DOMAIN inbox : inbox[i].from = t
  <2> HIDE DEF m
  <2>1. m.from = c /\ UNCHANGED queue
    BY DEF m, Call
  <2> QED BY <1>1, <1>2, <2>1, AskedOnce
<1>4. ClockTypeOK'
  BY <1>3 DEF Call, ClockInv, ClockTypeOK
<1>5. Accounted'
  <2> SUFFICES ASSUME NEW d \in Clients
      PROVE LET asks   == \E i \in DOMAIN inbox' : inbox'[i].from = d
                sleeps == \E i \in DOMAIN queue : queue[i].tid = d
            IN  /\ phase'[d] = "running" => ~asks /\ ~sleeps
                /\ phase'[d] = "waiting" => asks \/ sleeps
                /\ phase'[d] = "destroyed" => ~asks
    BY DEF Accounted, Call
  <2>1. phase'[d] = IF d = c THEN "waiting" ELSE phase[d]
    BY DEF Call, ClockInv, ClockTypeOK
  <2> QED BY <1>3, <2>1 DEF ClockInv, Accounted
<1>6. TicksInStep'
  BY <1>3 DEF Call, ClockInv, TicksInStep, Counted
<1>7. NodesConserved' /\ Sorted' /\ NobodyOverdue' /\ EarlyNotifier'
  BY DEF Call, ClockInv, NodesConserved, Sorted, NobodyOverdue, EarlyNotifier
<1> QED BY <1>3, <1>4, <1>5, <1>6, <1>7 DEF ClockInv

LEMMA ClientClock ==
  ASSUME ClockInv, NEW c \in Clients, NEW n \in Amounts, Delay(c, n) \/ DelayUntil(c, n) \/ Time(c)
  PROVE  ClockInv'
<1>1. n \in Words /\ 0 \in Words /\ now \in Nat
  BY DEF Words, ClockInv, ClockTypeOK
<1>2. CASE Delay(c, n)
  <2> DEFINE notBefore == IF Natural(n) /\ n > 0 THEN now + n - 1 ELSE 0
  <2>1. notBefore \in Nat
    BY <1>1 DEF Words
  <2> HIDE DEF notBefore
  <2>2. Call(c, "DELAY", n, notBefore)
    BY <1>2 DEF Delay, notBefore
  <2> QED BY <1>1, <2>1, <2>2, CallClock
<1>3. CASE DelayUntil(c, n)
  <2> DEFINE notBefore == IF Natural(n) THEN n ELSE 0
  <2>1. notBefore \in Nat
    BY <1>1 DEF Words
  <2> HIDE DEF notBefore
  <2>2. Call(c, "DELAY_UNTIL", n, notBefore)
    BY <1>3 DEF DelayUntil, notBefore
  <2> QED BY <1>1, <2>1, <2>2, CallClock
<1>4. CASE Time(c)
  BY <1>1, <1>4, CallClock DEF Time
<1> QED BY <1>2, <1>3, <1>4

LEMMA DestroyClock == ASSUME ClockInv, NEW c \in Clients, DestroyClient(c) PROVE ClockInv'
<1>1. ClockTypeOK'
  BY DEF DestroyClient, ClockInv, ClockTypeOK
<1>2. Accounted'
  BY DEF DestroyClient, ClockInv, ClockTypeOK, Accounted
<1>3. NodesConserved' /\ Messages' /\ OncePerTask' /\ TicksInStep' /\ Sorted' /\ NobodyOverdue'
        /\ EarlyNotifier'
  BY DEF DestroyClient, ClockInv, NodesConserved, Messages, OncePerTask, TicksInStep, Counted, Sorted,
         NobodyOverdue, EarlyNotifier
<1> QED BY <1>1, <1>2, <1>3 DEF ClockInv

LEMMA TickClock == ASSUME ClockInv, Tick PROVE ClockInv'
<1>1. CASE TimerInterrupt
  BY <1>1 DEF TimerInterrupt, ClockInv, ClockTypeOK, NodesConserved, Messages, OncePerTask,
         Accounted, TicksInStep, Counted, Sorted, NobodyOverdue, EarlyNotifier
<1>2. CASE NotifierSend
  <2> DEFINE m == [type |-> "TICK", ticks |-> 0, from |-> Notifier]
  <2>1. m \in Requests /\ inbox' = Append(inbox, m) /\ m.type = "TICK" /\ m.from = Notifier
    BY <1>2 DEF NotifierSend, Request, Requests, Tasks, Words
  <2>2. /\ \A i \in DOMAIN inbox : inbox[i].from # Notifier
        /\ \A j \in DOMAIN queue : queue[j].tid # Notifier
    <3>1. \A j \in DOMAIN queue : queue[j] \in Nodes
      BY LenProperties, ElementOfSeq DEF ClockInv, ClockTypeOK
    <3> QED BY <1>2, <3>1 DEF NotifierSend, ClockInv, TicksInStep, Nodes
  <2>3. /\ inbox' \in Seq(Requests) /\ Messages' /\ OncePerTask'
        /\ \A t : (\E i \in DOMAIN inbox' : inbox'[i].from = t)
                    <=> t = Notifier \/ \E i \in DOMAIN inbox : inbox[i].from = t
    <3> HIDE DEF m
    <3>1. UNCHANGED queue
      BY <1>2 DEF NotifierSend
    <3> QED BY <2>1, <2>2, <3>1, AskedOnce
  <2>4. ClockTypeOK'
    BY <1>2, <2>3 DEF NotifierSend, ClockInv, ClockTypeOK
  <2>5. Accounted' /\ TicksInStep'
    BY <1>2, <2>3 DEF NotifierSend, ClockInv, Accounted, TicksInStep, Counted
  <2>6. NodesConserved' /\ Sorted' /\ NobodyOverdue' /\ EarlyNotifier'
    BY <1>2 DEF NotifierSend, ClockInv, NodesConserved, Sorted, NobodyOverdue, EarlyNotifier
  <2> QED BY <2>3, <2>4, <2>5, <2>6 DEF ClockInv
<1>3. CASE NotifierAwait
  BY <1>3 DEF NotifierAwait, ClockInv, ClockTypeOK, NodesConserved, Messages, OncePerTask,
         Accounted, TicksInStep, Counted, Sorted, NobodyOverdue, EarlyNotifier
<1> QED BY <1>1, <1>2, <1>3 DEF Tick
-----------------------------------------------------------------------------
(* The message received, and what is left of the inbox. *)
LEMMA ReceivedHead ==
  ASSUME ClockInv, NEW m, Received(m)
  PROVE  /\ m \in Requests /\ m = inbox[1] /\ 1 \in DOMAIN inbox
         /\ (m.type = "TICK" <=> m.from = Notifier)
         /\ inbox' \in Seq(Requests)
         /\ \A i \in DOMAIN inbox' : i + 1 \in DOMAIN inbox /\ inbox'[i] = inbox[i + 1]
         /\ \A t : (\E i \in DOMAIN inbox' : inbox'[i].from = t)
                     <=> t # m.from /\ \E i \in DOMAIN inbox : inbox[i].from = t
         /\ \A i, j \in DOMAIN inbox' : inbox'[i].from = inbox'[j].from => i = j
         /\ Messages'
<1>1. inbox \in Seq(Requests) /\ inbox # <<>> /\ m = Head(inbox) /\ inbox' = Tail(inbox)
  BY DEF Received, ClockInv, ClockTypeOK
<1>2. /\ inbox' \in Seq(Requests)
      /\ DOMAIN inbox' = 1 .. Len(inbox) - 1 /\ DOMAIN inbox = 1 .. Len(inbox)
      /\ Len(inbox) \in Nat \ {0}
      /\ \A i \in 1 .. Len(inbox) - 1 : inbox'[i] = inbox[i + 1]
      /\ m = inbox[1] /\ inbox[1] \in Requests
  BY <1>1, Tailed
<1>3. 1 \in DOMAIN inbox
  BY <1>2
<1>4. m.type = "TICK" <=> m.from = Notifier
  BY <1>2, <1>3 DEF ClockInv, Messages
<1>5. \A i \in DOMAIN inbox' : i + 1 \in DOMAIN inbox /\ inbox'[i] = inbox[i + 1] /\ i \in Int
  BY <1>2
<1>6. \A i \in DOMAIN inbox : i = 1 \/ (i - 1 \in DOMAIN inbox' /\ inbox'[i - 1] = inbox[i])
  BY <1>2
<1>7. \A i \in DOMAIN inbox : inbox[i].from = m.from => i = 1
  BY <1>2, <1>3 DEF ClockInv, OncePerTask
<1>8. \A t : (\E i \in DOMAIN inbox' : inbox'[i].from = t)
              <=> t # m.from /\ \E i \in DOMAIN inbox : inbox[i].from = t
  <2> SUFFICES ASSUME NEW t
               PROVE (\E i \in DOMAIN inbox' : inbox'[i].from = t)
                     <=> t # m.from /\ \E i \in DOMAIN inbox : inbox[i].from = t
    OBVIOUS
  <2>1. ASSUME NEW i \in DOMAIN inbox', inbox'[i].from = t
        PROVE  t # m.from /\ \E j \in DOMAIN inbox : inbox[j].from = t
    <3>1. i + 1 # 1
      BY <1>2
    <3> QED BY <1>5, <1>7, <2>1, <3>1
  <2>2. ASSUME t # m.from, NEW i \in DOMAIN inbox, inbox[i].from = t
        PROVE  \E j \in DOMAIN inbox' : inbox'[j].from = t
    BY <1>2, <1>6, <2>2
  <2> QED BY <2>1, <2>2
<1>9. \A i, j \in DOMAIN inbox' : inbox'[i].from = inbox'[j].from => i = j
  <2> TAKE i, j \in DOMAIN inbox'
  <2>1. inbox'[i].from = inbox'[j].from => i + 1 = j + 1
    BY <1>5 DEF ClockInv, OncePerTask
  <2> QED BY <1>5, <2>1
<1>10. Messages'
  BY <1>5 DEF ClockInv, Messages
<1> QED BY <1>2, <1>3, <1>4, <1>5, <1>8, <1>9, <1>10

LEMMA AnswerNowClock == ASSUME ClockInv, AnswerNow PROVE ClockInv'
<1>1. PICK m : /\ Received(m) /\ ReplyTo(m.from) /\ m.type # "TICK"
               /\ UNCHANGED <<ticks, queue, spare, woken, notifier, now, pc>>
  BY DEF AnswerNow
<1>2. ClockTypeOK'
  <2>1. inbox' \in Seq(Requests)
    BY <1>1, ReceivedHead
  <2>2. /\ phase' \in [Clients -> {"running", "waiting", "destroyed"}]
        /\ wish' \in [Clients -> Nat]
    BY <1>1 DEF ReplyTo, ClockInv, ClockTypeOK
  <2> QED BY <1>1, <2>1, <2>2 DEF ClockInv, ClockTypeOK
<1>3. OncePerTask' /\ Messages'
  BY <1>1, ReceivedHead DEF ClockInv, OncePerTask
<1>4. Accounted'
  <2> SUFFICES ASSUME NEW d \in Clients
      PROVE LET asks   == \E i \in DOMAIN inbox' : inbox'[i].from = d
                sleeps == \E i \in DOMAIN queue : queue[i].tid = d
            IN  /\ phase'[d] = "running" => ~asks /\ ~sleeps
                /\ phase'[d] = "waiting" => asks \/ sleeps
                /\ phase'[d] = "destroyed" => ~asks
    BY <1>1 DEF Accounted
  <2>1. phase'[d] = IF d = m.from /\ phase[d] = "waiting" THEN "running" ELSE phase[d]
    BY <1>1 DEF ReplyTo, ClockInv, ClockTypeOK
  <2>2. \A j \in DOMAIN queue : queue[j].tid # m.from
    BY <1>1, ReceivedHead DEF ClockInv, OncePerTask
  <2>3. phase[d] \in {"running", "waiting", "destroyed"}
    BY DEF ClockInv, ClockTypeOK
  <2>4. (\E i \in DOMAIN inbox' : inbox'[i].from = d)
        <=> d # m.from /\ \E i \in DOMAIN inbox : inbox[i].from = d
    BY <1>1, ReceivedHead
  <2> QED BY <2>1, <2>2, <2>3, <2>4 DEF ClockInv, Accounted
<1>5. TicksInStep'
  BY <1>1, ReceivedHead DEF ClockInv, TicksInStep, Counted
<1>6. NodesConserved' /\ Sorted' /\ NobodyOverdue' /\ EarlyNotifier'
  BY <1>1 DEF ClockInv, NodesConserved, Sorted, NobodyOverdue, EarlyNotifier
<1> QED BY <1>2, <1>3, <1>4, <1>5, <1>6 DEF ClockInv

LEMMA KeepAsleepClock == ASSUME ClockInv, KeepAsleep PROVE ClockInv'
<1>1. PICK m : /\ Received(m) /\ m.type # "TICK" /\ Deadline(m) > ticks /\ spare > 0
               /\ queue' = Insert(queue, [tid |-> m.from, delay |-> Deadline(m)])
               /\ spare' = spare - 1
               /\ UNCHANGED <<ticks, woken, phase, wish, notifier, now, pc>>
  BY DEF KeepAsleep
<1> DEFINE node == [tid |-> m.from, delay |-> Deadline(m)]
<1>2. node \in Nodes /\ node.tid = m.from /\ node.delay = Deadline(m) /\ m.from \in Clients
  <2>1. m \in Requests /\ m.from # Notifier
    BY <1>1, ReceivedHead
  <2>2. ticks \in Words
    BY DEF ClockInv, ClockTypeOK
  <2>3. Deadline(m) \in Words
    <3>1. m.ticks \in Words
      BY <2>1 DEF Requests
    <3>2. (m.ticks + ticks) % Word \in 0 .. Word - 1
      BY <2>2, <3>1 DEF Words
    <3> QED BY <3>1, <3>2 DEF Deadline, Words
  <2> QED BY <2>1, <2>3 DEF Nodes, Requests, Tasks
<1> HIDE DEF node
<1>3. PICK k \in 0 .. Len(queue) :
           /\ queue' \in Seq(Nodes)
           /\ Len(queue) \in Nat /\ DOMAIN queue = 1 .. Len(queue)
           /\ Len(queue') = Len(queue) + 1
           /\ DOMAIN queue' = 1 .. Len(queue) + 1
           /\ \A i \in 1 .. Len(queue) + 1 :
                queue'[i] = IF i <= k THEN queue[i] ELSE IF i = k + 1 THEN node ELSE queue[i - 1]
           /\ \A i \in 1 .. k : queue[i].delay <= node.delay
           /\ k < Len(queue) => queue[k + 1].delay > node.delay
  <2>1. queue \in Seq(Nodes) /\ queue' = Insert(queue, node)
    BY <1>1 DEF ClockInv, ClockTypeOK, node
  <2> QED BY <1>2, <2>1, Inserted
<1>4. ClockTypeOK'
  BY <1>1, <1>3, ReceivedHead DEF ClockInv, ClockTypeOK
<1>5. NodesConserved'
  <2>1. Len(queue') = Len(queue) + 1 /\ Len(queue) \in Nat
    BY <1>3
  <2>2. Len(queue) + woken + spare = BankSize /\ spare \in Nat /\ woken \in Nat
    BY DEF ClockInv, NodesConserved, ClockTypeOK
  <2>3. spare' = spare - 1 /\ woken' = woken /\ pc' = pc
    BY <1>1
  <2> QED BY <2>1, <2>2, <2>3 DEF ClockInv, NodesConserved
<1>6. \A t : (\E i \in DOMAIN queue' : queue'[i].tid = t)
              <=> t = m.from \/ \E i \in DOMAIN queue : queue[i].tid = t
  <2> SUFFICES ASSUME NEW t
               PROVE (\E i \in DOMAIN queue' : queue'[i].tid = t)
                     <=> t = m.from \/ \E i \in DOMAIN queue : queue[i].tid = t
    OBVIOUS
  <2>1. ASSUME NEW i \in DOMAIN queue', queue'[i].tid = t
        PROVE  t = m.from \/ \E j \in DOMAIN queue : queue[j].tid = t
    <3>1. CASE i <= k
      BY <1>3, <2>1, <3>1
    <3>2. CASE i = k + 1
      BY <1>2, <1>3, <2>1, <3>2
    <3>3. CASE i > k + 1
      <4>1. i - 1 \in DOMAIN queue /\ queue'[i] = queue[i - 1]
        BY <1>3, <3>3
      <4> QED BY <2>1, <4>1
    <3> QED BY <1>3, <3>1, <3>2, <3>3
  <2>2. ASSUME t = m.from PROVE \E i \in DOMAIN queue' : queue'[i].tid = t
    <3>1. k + 1 \in DOMAIN queue' /\ queue'[k + 1] = node
      BY <1>3
    <3> QED BY <1>2, <2>2, <3>1
  <2>3. ASSUME NEW i \in DOMAIN queue, queue[i].tid = t
        PROVE \E j \in DOMAIN queue' : queue'[j].tid = t
    <3>1. CASE i <= k
      BY <1>3, <2>3, <3>1
    <3>2. CASE i > k
      <4>1. i + 1 \in DOMAIN queue' /\ queue'[i + 1] = queue[i]
        BY <1>3, <3>2
      <4> QED BY <2>3, <4>1
    <3> QED BY <1>3, <3>1, <3>2
  <2> QED BY <2>1, <2>2, <2>3
<1>7. \A i, j \in DOMAIN queue' : queue'[i].tid = queue'[j].tid => i = j
  <2> TAKE i, j \in DOMAIN queue'
  <2>1. \A p, q \in DOMAIN queue : queue[p].tid = queue[q].tid => p = q
    BY DEF ClockInv, OncePerTask
  <2>2. \A p \in DOMAIN queue : queue[p].tid # node.tid
    BY <1>1, <1>2, ReceivedHead DEF ClockInv, OncePerTask
  <2> DEFINE old(x) == IF x <= k THEN x ELSE x - 1
  <2>3. \A x \in DOMAIN queue' : x # k + 1 => old(x) \in DOMAIN queue /\ queue'[x] = queue[old(x)]
    BY <1>3
  <2>4. queue'[k + 1] = node
    BY <1>3
  <2>5. CASE i # k + 1 /\ j # k + 1
    <3>1. queue'[i].tid = queue'[j].tid => old(i) = old(j)
      BY <2>1, <2>3, <2>5
    <3> QED BY <1>3, <2>5, <3>1
  <2>6. CASE i = k + 1 \/ j = k + 1
    BY <2>2, <2>3, <2>4, <2>6
  <2> QED BY <2>5, <2>6
<1>8. OncePerTask' /\ Messages'
  <2>1. ASSUME NEW i \in DOMAIN inbox', NEW j \in DOMAIN queue'
        PROVE  inbox'[i].from # queue'[j].tid
    <3>1. inbox'[i].from # m.from /\ \E p \in DOMAIN inbox : inbox[p].from = inbox'[i].from
      BY <1>1, ReceivedHead
    <3>2. queue'[j].tid = m.from \/ \E p \in DOMAIN queue : queue[p].tid = queue'[j].tid
      BY <1>6
    <3> QED BY <3>1, <3>2 DEF ClockInv, OncePerTask
  <2> QED BY <1>1, <1>7, <2>1, ReceivedHead DEF OncePerTask
<1>9. Accounted'
  <2>1. \A d : (\E i \in DOMAIN inbox' : inbox'[i].from = d)
                <=> d # m.from /\ \E i \in DOMAIN inbox : inbox[i].from = d
    BY <1>1, ReceivedHead
  <2>2. \E i \in DOMAIN inbox : inbox[i].from = m.from
    BY <1>1, ReceivedHead
  <2>3. UNCHANGED phase
    BY <1>1
  <2>4. phase[m.from] \in {"running", "waiting", "destroyed"}
    BY <1>2 DEF ClockInv, ClockTypeOK
  <2> QED BY <1>6, <2>1, <2>2, <2>3, <2>4 DEF ClockInv, Accounted
<1>10. TicksInStep'
  BY <1>1, ReceivedHead DEF ClockInv, TicksInStep, Counted
<1>11. Sorted'
  <2> SUFFICES ASSUME NEW i \in DOMAIN queue', NEW j \in DOMAIN queue', i < j
               PROVE  queue'[i].delay <= queue'[j].delay
    BY DEF Sorted
  <2>1. \A p, q \in DOMAIN queue : p < q => queue[p].delay <= queue[q].delay
    BY DEF ClockInv, Sorted
  <2>2. \A p \in DOMAIN queue : queue[p].delay \in Int
    <3>1. \A p \in DOMAIN queue : queue[p] \in Nodes
      BY LenProperties, ElementOfSeq DEF ClockInv, ClockTypeOK
    <3> QED BY <3>1 DEF Nodes, Words
  <2>3. node.delay \in Int
    BY <1>2 DEF Nodes, Words
  <2>4. \A p \in DOMAIN queue : p > k => queue[p].delay > node.delay
    <3> TAKE p \in DOMAIN queue
    <3>1. CASE p > k
      <4>1. k + 1 \in DOMAIN queue /\ queue[k + 1].delay > node.delay
        BY <1>3, <3>1
      <4>2. CASE p = k + 1
        BY <4>1, <4>2
      <4>3. CASE p > k + 1
        <5>1. queue[k + 1].delay <= queue[p].delay
          BY <2>1, <4>1, <4>3
        <5> QED BY <2>2, <2>3, <4>1, <5>1
      <4> QED BY <1>3, <3>1, <4>2, <4>3
    <3> QED BY <3>1
  <2>5. CASE j <= k
    BY <1>3, <2>1, <2>5
  <2>6. CASE j = k + 1
    BY <1>3, <2>6
  <2>7. CASE j > k + 1
    <3>1. j - 1 \in DOMAIN queue /\ queue'[j] = queue[j - 1] /\ j - 1 > k
      BY <1>3, <2>7
    <3>2. CASE i <= k
      <4>1. i \in DOMAIN queue /\ queue'[i] = queue[i] /\ i < j - 1
        BY <1>3, <2>7, <3>2
      <4> QED BY <2>1, <3>1, <4>1
    <3>3. CASE i = k + 1
      <4>1. queue'[i] = node
        BY <1>3, <3>3
      <4> QED BY <2>2, <2>3, <2>4, <3>1, <4>1
    <3>4. CASE i > k + 1
      <4>1. i - 1 \in DOMAIN queue /\ queue'[i] = queue[i - 1] /\ i - 1 < j - 1
        BY <1>3, <3>4
      <4> QED BY <2>1, <3>1, <4>1
    <3> QED BY <1>3, <3>2, <3>3, <3>4
  <2> QED BY <1>3, <2>5, <2>6, <2>7
<1>12. NobodyOverdue' /\ EarlyNotifier'
  <2>1. pc' = pc /\ pc = "receiving" /\ ticks' = ticks
    BY <1>1 DEF Received
  <2>2. \A i \in DOMAIN queue : queue[i].delay > ticks
    BY <2>1 DEF ClockInv, NobodyOverdue
  <2>3. \A i \in DOMAIN queue' : queue'[i] = node \/ \E j \in DOMAIN queue : queue'[i] = queue[j]
    <3> TAKE i \in DOMAIN queue'
    <3>1. CASE i <= k
      BY <1>3, <3>1
    <3>2. CASE i = k + 1
      BY <1>3, <3>2
    <3>3. CASE i > k + 1
      <4>1. i - 1 \in DOMAIN queue /\ queue'[i] = queue[i - 1]
        BY <1>3, <3>3
      <4> QED BY <4>1
    <3> QED BY <1>3, <3>1, <3>2, <3>3
  <2> QED BY <1>1, <1>2, <2>1, <2>2, <2>3 DEF NobodyOverdue, EarlyNotifier
<1> QED BY <1>4, <1>5, <1>8, <1>9, <1>10, <1>11, <1>12 DEF ClockInv

LEMMA AnswerNotifierClock == ASSUME ClockInv, AnswerNotifier PROVE ClockInv'
<1>1. PICK m : /\ Received(m) /\ m.type = "TICK"
               /\ notifier' = "returning" /\ pc' = "counting"
               /\ UNCHANGED <<ticks, queue, spare, woken, phase, wish, now>>
  BY DEF AnswerNotifier
<1>2. pc = "receiving" /\ m.from = Notifier /\ \E i \in DOMAIN inbox : inbox[i].from = Notifier
  BY <1>1, ReceivedHead DEF Received
<1>3. ClockTypeOK'
  BY <1>1, ReceivedHead DEF ClockInv, ClockTypeOK
<1>4. OncePerTask' /\ Messages'
  BY <1>1, ReceivedHead DEF ClockInv, OncePerTask
<1>5. Accounted'
  <2>1. \A d \in Clients : (\E i \in DOMAIN inbox' : inbox'[i].from = d)
                          <=> \E i \in DOMAIN inbox : inbox[i].from = d
    BY <1>1, <1>2, ReceivedHead
  <2> QED BY <1>1, <2>1 DEF ClockInv, Accounted
<1>6. TicksInStep'
  <2>1. ~(\E i \in DOMAIN inbox' : inbox'[i].from = Notifier)
    BY <1>1, <1>2, ReceivedHead
  <2> QED BY <1>1, <1>2, <2>1 DEF ClockInv, TicksInStep, Counted
<1>7. NodesConserved' /\ Sorted' /\ NobodyOverdue' /\ EarlyNotifier'
  BY <1>1, <1>2 DEF ClockInv, NodesConserved, Sorted, NobodyOverdue, EarlyNotifier
<1> QED BY <1>3, <1>4, <1>5, <1>6, <1>7 DEF ClockInv

(* A tick that is counted finds the count behind the interrupts, so below the bound:
   the sum does not wrap. *)
LEMMA CountTickClock ==
  ASSUME ClockInv, CountTick
  PROVE  ClockInv' /\ ticks' = ticks + 1
<1>1. /\ pc = "counting" /\ ticks' = (ticks + 1) % Word /\ pc' = "waking"
      /\ UNCHANGED <<queue, spare, woken, inbox, phase, wish, notifier, now>>
  BY DEF CountTick
<1>2. ticks' = ticks + 1 /\ ticks' \in Words
  <2>1. ticks \in Nat /\ ticks + 1 < Word
    BY <1>1 DEF ClockInv, ClockTypeOK, TicksInStep, Counted, Words
  <2>2. (ticks + 1) % Word = ticks + 1
    BY <2>1
  <2> QED BY <1>1, <2>1, <2>2 DEF Words
<1>3. ClockTypeOK'
  BY <1>1, <1>2 DEF ClockInv, ClockTypeOK
<1>4. Messages' /\ OncePerTask' /\ Accounted'
  BY <1>1 DEF ClockInv, Messages, OncePerTask, Accounted
<1>5. TicksInStep'
  BY <1>1, <1>2 DEF ClockInv, TicksInStep, Counted
<1>6. NodesConserved' /\ Sorted' /\ NobodyOverdue' /\ EarlyNotifier'
  BY <1>1 DEF ClockInv, NodesConserved, Sorted, NobodyOverdue, EarlyNotifier
<1> QED BY <1>2, <1>3, <1>4, <1>5, <1>6 DEF ClockInv

LEMMA WakeClock == ASSUME ClockInv, Wake PROVE ClockInv'
<1>1. queue \in Seq(Nodes) /\ queue # <<>> /\ queue' = Tail(queue) /\ pc = "waking"
  BY DEF Wake, ClockInv, ClockTypeOK
<1>2. /\ queue' \in Seq(Nodes) /\ Len(queue') = Len(queue) - 1
      /\ DOMAIN queue' = 1 .. Len(queue) - 1 /\ DOMAIN queue = 1 .. Len(queue)
      /\ Len(queue) \in Nat \ {0}
      /\ \A i \in 1 .. Len(queue) - 1 : queue'[i] = queue[i + 1]
      /\ Head(queue) = queue[1] /\ queue[1] \in Nodes
  BY <1>1, Tailed
<1> DEFINE c == queue[1].tid
<1>3. c \in Clients /\ 1 \in DOMAIN queue
  BY <1>2 DEF Nodes
<1>4. \A i \in DOMAIN queue' : i + 1 \in DOMAIN queue /\ queue'[i] = queue[i + 1] /\ i \in Nat \ {0}
  BY <1>2
<1>5. \A i \in DOMAIN queue' : queue'[i].tid # c
  <2> TAKE i \in DOMAIN queue'
  <2>1. queue[i + 1].tid = c => i + 1 = 1
    BY <1>3, <1>4 DEF ClockInv, OncePerTask
  <2> QED BY <1>4, <2>1
<1>6. \A t : (\E i \in DOMAIN queue' : queue'[i].tid = t)
              <=> t # c /\ \E i \in DOMAIN queue : queue[i].tid = t
  <2> SUFFICES ASSUME NEW t
               PROVE (\E i \in DOMAIN queue' : queue'[i].tid = t)
                     <=> t # c /\ \E i \in DOMAIN queue : queue[i].tid = t
    OBVIOUS
  <2>1. ASSUME t # c, NEW i \in DOMAIN queue, queue[i].tid = t
        PROVE  \E j \in DOMAIN queue' : queue'[j].tid = t
    <3>1. i # 1
      BY <2>1
    <3>2. i - 1 \in DOMAIN queue' /\ queue'[i - 1] = queue[i]
      BY <1>2, <3>1
    <3> QED BY <2>1, <3>2
  <2> QED BY <1>4, <1>5, <2>1
<1>7. phase' = [phase EXCEPT ![c] = IF @ = "waiting" THEN "running" ELSE @]
        /\ wish' = [wish EXCEPT ![c] = 0]
  BY <1>2 DEF Wake, ReplyTo
<1>8. NodesConserved'
  <2>1. Len(queue) + woken + spare = BankSize /\ spare \in Nat /\ woken \in Nat
    BY DEF ClockInv, NodesConserved, ClockTypeOK
  <2>2. woken' = woken + 1 /\ spare' = spare /\ pc' = "waking"
    BY <1>1 DEF Wake
  <2>3. Len(queue') = Len(queue) - 1
    BY <1>2
  <2>4. Len(queue') + woken' + spare' = BankSize
    BY <1>2, <2>1, <2>2, <2>3
  <2> QED BY <2>2, <2>4 DEF NodesConserved
<1>9. ClockTypeOK'
  <2>1. woken' \in 0 .. BankSize
    <3>1. Len(queue) + woken + spare = BankSize /\ spare \in Nat /\ woken \in Nat
      BY DEF ClockInv, NodesConserved, ClockTypeOK
    <3> QED BY <1>2, <3>1 DEF Wake
  <2> HIDE DEF c
  <2> QED BY <1>2, <1>3, <1>7, <2>1 DEF Wake, ClockInv, ClockTypeOK
<1>10. inbox' = inbox
  BY DEF Wake
<1>11. OncePerTask' /\ Messages'
  <2>1. \A i, j \in DOMAIN queue' : queue'[i].tid = queue'[j].tid => i = j
    <3> TAKE i, j \in DOMAIN queue'
    <3>1. queue'[i].tid = queue'[j].tid => i + 1 = j + 1
      BY <1>4 DEF ClockInv, OncePerTask
    <3> QED BY <1>4, <3>1
  <2>2. \A i \in DOMAIN inbox', j \in DOMAIN queue' : inbox'[i].from # queue'[j].tid
    BY <1>4, <1>10 DEF ClockInv, OncePerTask
  <2> QED BY <1>10, <2>1, <2>2 DEF ClockInv, OncePerTask, Messages
<1>12. Accounted'
  <2> SUFFICES ASSUME NEW d \in Clients
      PROVE LET asks   == \E i \in DOMAIN inbox : inbox[i].from = d
                sleeps == \E i \in DOMAIN queue' : queue'[i].tid = d
            IN  /\ phase'[d] = "running" => ~asks /\ ~sleeps
                /\ phase'[d] = "waiting" => asks \/ sleeps
                /\ phase'[d] = "destroyed" => ~asks
    BY <1>10 DEF Accounted
  <2>1. phase'[d] = IF d = c /\ phase[d] = "waiting" THEN "running" ELSE phase[d]
    BY <1>7 DEF ClockInv, ClockTypeOK
  <2>2. phase[d] \in {"running", "waiting", "destroyed"}
    BY DEF ClockInv, ClockTypeOK
  <2>3. \A i \in DOMAIN inbox : inbox[i].from # c
    BY <1>3 DEF ClockInv, OncePerTask
  <2>4. (\E i \in DOMAIN queue' : queue'[i].tid = d)
        <=> d # c /\ \E i \in DOMAIN queue : queue[i].tid = d
    BY <1>6
  <2>5. d = c => \E i \in DOMAIN queue : queue[i].tid = d
    BY <1>3
  <2> HIDE DEF c
  <2> QED BY <2>1, <2>2, <2>3, <2>4, <2>5 DEF ClockInv, Accounted
<1>13. Sorted'
  <2> SUFFICES ASSUME NEW i \in DOMAIN queue', NEW j \in DOMAIN queue', i < j
               PROVE  queue'[i].delay <= queue'[j].delay
    BY DEF Sorted
  <2>1. i + 1 < j + 1
    BY <1>4
  <2> QED BY <1>4, <2>1 DEF ClockInv, Sorted
<1>14. TicksInStep' /\ NobodyOverdue' /\ EarlyNotifier'
  BY <1>1 DEF Wake, ClockInv, TicksInStep, Counted, NobodyOverdue, EarlyNotifier
<1> QED BY <1>8, <1>9, <1>11, <1>12, <1>13, <1>14 DEF ClockInv

LEMMA EndOfTickClock == ASSUME ClockInv, EndOfTick PROVE ClockInv'
<1>1. Len(queue) + woken + spare = BankSize /\ spare \in Nat /\ woken \in Nat /\ Len(queue) \in Nat
  BY LenProperties DEF ClockInv, NodesConserved, ClockTypeOK
<1>2. spare' = spare + woken /\ woken' = 0 /\ pc = "waking" /\ pc' = "receiving"
        /\ UNCHANGED <<ticks, queue, inbox, phase, wish, notifier, now>>
  BY DEF EndOfTick, FreeAll
<1>3. NodesConserved'
  BY <1>1, <1>2 DEF NodesConserved
<1>4. ClockTypeOK'
  BY <1>1, <1>2 DEF ClockInv, ClockTypeOK
<1>5. NobodyOverdue'
  <2> SUFFICES ASSUME NEW i \in DOMAIN queue PROVE queue[i].delay > ticks
    BY <1>2 DEF NobodyOverdue
  <2>1. queue \in Seq(Nodes) /\ queue # <<>> /\ i \in 1 .. Len(queue)
    BY <1>1, EmptySeq, LenProperties DEF ClockInv, ClockTypeOK
  <2>2. Head(queue) = queue[1] /\ 1 \in DOMAIN queue /\ queue[1] \in Nodes /\ queue[i] \in Nodes
    BY <2>1, Tailed, ElementOfSeq
  <2>3. queue[1].delay > ticks
    BY <2>1, <2>2 DEF EndOfTick, Due, Nodes, Words, ClockInv, ClockTypeOK
  <2>4. queue[1].delay <= queue[i].delay
    BY <2>1, <2>2 DEF ClockInv, Sorted, Nodes, Words
  <2> QED BY <2>2, <2>3, <2>4 DEF ClockInv, ClockTypeOK, Nodes, Words
<1>6. Messages' /\ OncePerTask' /\ Accounted' /\ TicksInStep' /\ Sorted' /\ EarlyNotifier'
  BY <1>2 DEF ClockInv, Messages, OncePerTask, Accounted, TicksInStep, Counted, Sorted, EarlyNotifier
<1> QED BY <1>3, <1>4, <1>5, <1>6 DEF ClockInv

LEMMA StartClock == ASSUME ClockInv, Start PROVE ClockInv'
BY DEF Start, ClockInv, ClockTypeOK, NodesConserved, Messages, OncePerTask, Accounted, TicksInStep,
       Counted, Sorted, NobodyOverdue, EarlyNotifier

LEMMA NextClock == ClockInv /\ [Next]_vars => ClockInv'
<1> SUFFICES ASSUME ClockInv, [Next]_vars PROVE ClockInv'
  OBVIOUS
<1>1. CASE Serve
  BY <1>1, StartClock, AnswerNowClock, KeepAsleepClock, AnswerNotifierClock, CountTickClock, WakeClock,
     EndOfTickClock DEF Serve
<1>2. CASE Tick
  BY <1>2, TickClock
<1>3. ASSUME NEW c \in Clients, Time(c) PROVE ClockInv'
  BY <1>3, CallClock DEF Time, Words
<1>4. ASSUME NEW c \in Clients, DestroyClient(c) PROVE ClockInv'
  BY <1>4, DestroyClock
<1>5. ASSUME NEW c \in Clients, NEW n \in Amounts, Delay(c, n) \/ DelayUntil(c, n) PROVE ClockInv'
  BY <1>5, ClientClock
<1>6. CASE UNCHANGED vars
  BY <1>6 DEF vars, ClockInv, ClockTypeOK, NodesConserved, Messages, OncePerTask, Accounted,
              TicksInStep, Counted, Sorted, NobodyOverdue, EarlyNotifier
<1> QED BY <1>1, <1>2, <1>3, <1>4, <1>5, <1>6 DEF Next

THEOREM ClockInvariant == Spec => []ClockInv
BY InitClock, NextClock, PTL DEF Spec
-----------------------------------------------------------------------------
(* Every variable keeps its type: in particular the count never wraps, and no
   node is ever on the list without a client. *)
THEOREM ClockTypeCorrect == Spec => []ClockTypeOK
<1>1. ClockInv => ClockTypeOK
  BY DEF ClockInv
<1> QED BY <1>1, ClockInvariant, PTL

(* The bank's nodes are on the free list, in the queue, or passed by the waking
   loop, which gives them all back: none is lost, however large the bank. *)
THEOREM NodesConservedCorrect == Spec => []NodesConserved
<1>1. ClockInv => NodesConserved
  BY DEF ClockInv
<1> QED BY <1>1, ClockInvariant, PTL

(* The server's count is the number of interrupts, less the one whose message is on
   its way and the one it has answered and not yet counted: never is there a second
   message, though the notifier runs before its tick is counted. *)
THEOREM CountKeepsUpCorrect == Spec => []CountKeepsUp
<1>1. ClockInv => CountKeepsUp
  <2> SUFFICES ASSUME ClockInv PROVE CountKeepsUp
    OBVIOUS
  <2> DEFINE T == {i \in DOMAIN inbox : inbox[i].type = "TICK"}
  <2>1. \A i \in T : inbox[i].from = Notifier
    BY DEF ClockInv, Messages
  <2>2. notifier = "waiting" => Cardinality(T) = 1
    <3>1. ASSUME notifier = "waiting" PROVE \E i \in DOMAIN inbox : T = {i}
      BY <2>1, <3>1 DEF ClockInv, Messages, TicksInStep, OncePerTask
    <3> HIDE DEF T
    <3> QED BY <3>1, FS_Singleton
  <2>3. notifier # "waiting" => Cardinality(T) = 0
    <3>1. notifier # "waiting" => T = {}
      BY <2>1 DEF ClockInv, TicksInStep, Counted
    <3> HIDE DEF T
    <3> QED BY <3>1, FS_EmptySet
  <2>4. now = ticks + Behind
    BY DEF ClockInv, ClockTypeOK, TicksInStep, Counted, Behind, Words
  <2> QED BY <2>2, <2>3, <2>4 DEF CountKeepsUp
<1> QED BY <1>1, ClockInvariant, PTL

(* Every client that is blocked in a call is in one place, a message or a node,
   and only once; one that runs is in none. *)
THEOREM OneAnswerEachCorrect == Spec => []OneAnswerEach
<1>1. ClockInv => OneAnswerEach
  <2> SUFFICES ASSUME ClockInv, NEW c \in Clients
      PROVE LET asked    == {i \in DOMAIN inbox : inbox[i].from = c}
                sleeping == {i \in DOMAIN queue : queue[i].tid = c}
            IN  CASE phase[c] = "running"   -> asked = {} /\ sleeping = {}
                  [] phase[c] = "waiting"   -> Cardinality(asked) + Cardinality(sleeping) = 1
                  [] phase[c] = "destroyed" -> asked = {} /\ Cardinality(sleeping) <= 1
    BY DEF OneAnswerEach
  <2> DEFINE asked    == {i \in DOMAIN inbox : inbox[i].from = c}
             sleeping == {i \in DOMAIN queue : queue[i].tid = c}
  <2>1. asked = {} \/ \E i : asked = {i}
    <3>1. \A i, j \in asked : i = j
      BY DEF ClockInv, OncePerTask
    <3> HIDE DEF asked
    <3> QED BY <3>1
  <2>2. sleeping = {} \/ \E i : sleeping = {i}
    <3>1. \A i, j \in sleeping : i = j
      BY DEF ClockInv, OncePerTask
    <3> HIDE DEF sleeping
    <3> QED BY <3>1
  <2>3. asked = {} \/ sleeping = {}
    BY DEF ClockInv, OncePerTask
  <2>4. /\ phase[c] = "running" => asked = {} /\ sleeping = {}
        /\ phase[c] = "waiting" => asked # {} \/ sleeping # {}
        /\ phase[c] = "destroyed" => asked = {}
    BY DEF ClockInv, Accounted
  <2>5. phase[c] \in {"running", "waiting", "destroyed"}
    BY DEF ClockInv, ClockTypeOK
  <2> HIDE DEF asked, sleeping
  <2>6. \A x \in {asked, sleeping} : Cardinality(x) = IF x = {} THEN 0 ELSE 1
    BY <2>1, <2>2, FS_EmptySet, FS_Singleton
  <2>7. /\ phase[c] = "running" => asked = {} /\ sleeping = {}
        /\ phase[c] = "waiting" => Cardinality(asked) + Cardinality(sleeping) = 1
        /\ phase[c] = "destroyed" => asked = {} /\ Cardinality(sleeping) <= 1
    BY <2>3, <2>4, <2>6
  <2> USE DEF asked, sleeping
  <2> QED BY <2>5, <2>7
<1> QED BY <1>1, ClockInvariant, PTL
-----------------------------------------------------------------------------
(* The clock server implements Alarm: a tick is counted when nobody is overdue,
   whoever is kept was not asleep and asked for a tick to come, and whoever is
   let go was due. *)
LEMMA CountTickAdvances == ASSUME ClockInv, CountTick PROVE Promise!Advance
<1>1. pc = "counting" /\ UNCHANGED queue
  BY DEF CountTick
<1>2. \A i \in DOMAIN queue : ~(queue[i].delay <= ticks)
  <2>1. \A i \in DOMAIN queue : queue[i] \in Nodes
    BY LenProperties, ElementOfSeq DEF ClockInv, ClockTypeOK
  <2> QED BY <1>1, <2>1 DEF ClockInv, ClockTypeOK, NobodyOverdue, Nodes, Words
<1> QED BY <1>1, <1>2, CountTickClock DEF Promise!Advance, Promise!Overdue

LEMMA KeepAsleepSleeps ==
  ASSUME ClockInv, KeepAsleep
  PROVE  \E t \in Clients, d \in Words : Promise!Sleep(t, d)
<1>1. PICK m : /\ Received(m) /\ m.type # "TICK" /\ Deadline(m) > ticks /\ spare > 0
               /\ queue' = Insert(queue, [tid |-> m.from, delay |-> Deadline(m)])
               /\ UNCHANGED ticks
  BY DEF KeepAsleep
<1> DEFINE node == [tid |-> m.from, delay |-> Deadline(m)]
<1>2. m.from \in Clients /\ Deadline(m) \in Words
  <2>1. m \in Requests /\ m.from # Notifier
    BY <1>1, ReceivedHead
  <2>2. m.ticks \in Words /\ ticks \in Words
    BY <2>1 DEF Requests, ClockInv, ClockTypeOK
  <2>3. (m.ticks + ticks) % Word \in 0 .. Word - 1
    BY <2>2 DEF Words
  <2> QED BY <2>1, <2>2, <2>3 DEF Deadline, Words, Requests, Tasks
<1>3. {queue'[i] : i \in DOMAIN queue'} = {queue[i] : i \in DOMAIN queue} \cup {node}
  <2>1. node \in Nodes /\ queue \in Seq(Nodes) /\ queue' = Insert(queue, node)
    BY <1>1, <1>2 DEF Nodes, ClockInv, ClockTypeOK
  <2> HIDE DEF node
  <2>2. PICK k \in 0 .. Len(queue) :
           /\ queue' \in Seq(Nodes)
           /\ Len(queue) \in Nat /\ DOMAIN queue = 1 .. Len(queue)
           /\ Len(queue') = Len(queue) + 1
           /\ DOMAIN queue' = 1 .. Len(queue) + 1
           /\ \A i \in 1 .. Len(queue) + 1 :
                queue'[i] = IF i <= k THEN queue[i] ELSE IF i = k + 1 THEN node ELSE queue[i - 1]
           /\ \A i \in 1 .. k : queue[i].delay <= node.delay
           /\ k < Len(queue) => queue[k + 1].delay > node.delay
    BY <2>1, Inserted
  <2>3. ASSUME NEW i \in DOMAIN queue'
        PROVE  queue'[i] = node \/ \E j \in DOMAIN queue : queue'[i] = queue[j]
    <3>1. CASE i <= k
      BY <2>2, <3>1
    <3>2. CASE i = k + 1
      BY <2>2, <3>2
    <3>3. CASE i > k + 1
      <4>1. i - 1 \in DOMAIN queue /\ queue'[i] = queue[i - 1]
        BY <2>2, <3>3
      <4> QED BY <4>1
    <3> QED BY <2>2, <3>1, <3>2, <3>3
  <2>4. k + 1 \in DOMAIN queue' /\ queue'[k + 1] = node
    BY <2>2
  <2>5. ASSUME NEW j \in DOMAIN queue
        PROVE  \E i \in DOMAIN queue' : queue'[i] = queue[j]
    <3>1. CASE j <= k
      BY <2>2, <3>1
    <3>2. CASE j > k
      <4>1. j + 1 \in DOMAIN queue' /\ queue'[j + 1] = queue[j]
        BY <2>2, <3>2
      <4> QED BY <4>1
    <3> QED BY <2>2, <3>1, <3>2
  <2> QED BY <2>3, <2>4, <2>5
<1>4. \A j \in DOMAIN queue : queue[j].tid # m.from
  BY <1>1, ReceivedHead DEF ClockInv, OncePerTask
<1> QED BY <1>1, <1>2, <1>3, <1>4 DEF Promise!Sleep, node

LEMMA WakeRings ==
  ASSUME ClockInv, Wake
  PROVE  \E s \in Promise!Overdue : Promise!Ring(s)
<1>1. queue \in Seq(Nodes) /\ queue # <<>> /\ queue' = Tail(queue) /\ UNCHANGED ticks
  BY DEF Wake, ClockInv, ClockTypeOK
<1>2. /\ DOMAIN queue' = 1 .. Len(queue) - 1 /\ DOMAIN queue = 1 .. Len(queue)
      /\ Len(queue) \in Nat \ {0}
      /\ \A i \in 1 .. Len(queue) - 1 : queue'[i] = queue[i + 1]
      /\ Head(queue) = queue[1]
  BY <1>1, Tailed
<1>3. queue[1] \in Promise!Overdue
  BY <1>2 DEF Wake, Due, Promise!Overdue
<1>4. {queue'[i] : i \in DOMAIN queue'} = {queue[i] : i \in DOMAIN queue} \ {queue[1]}
  <2>1. \A i \in DOMAIN queue : i # 1 => queue[i] # queue[1]
    BY <1>2 DEF ClockInv, OncePerTask
  <2>2. \A i \in DOMAIN queue' : i + 1 \in DOMAIN queue /\ queue'[i] = queue[i + 1] /\ i + 1 # 1
    BY <1>2
  <2>3. ASSUME NEW i \in DOMAIN queue, i # 1
        PROVE  \E j \in DOMAIN queue' : queue'[j] = queue[i]
    <3>1. i - 1 \in DOMAIN queue' /\ queue'[i - 1] = queue[i]
      BY <1>2, <2>3
    <3> QED BY <3>1
  <2> QED BY <2>1, <2>2, <2>3
<1> QED BY <1>1, <1>3, <1>4 DEF Promise!Ring

THEOREM ImplementsAlarmCorrect == Spec => ImplementsAlarm
<1> DEFINE A == \/ Promise!Advance
                \/ \E t \in Clients, d \in Words : Promise!Sleep(t, d)
                \/ \E s \in Promise!Overdue : Promise!Ring(s)
<1>1. Init => Promise!AlarmInit
  <2> SUFFICES ASSUME Init PROVE Promise!AlarmInit
    OBVIOUS
  <2>1. ticks = 0 /\ DOMAIN queue = {}
    BY DEF Init
  <2> QED BY <2>1 DEF Promise!AlarmInit
<1>2. ClockInv /\ [Next]_vars => [A]_<<ticks, queue>>
  <2> SUFFICES ASSUME ClockInv, [Next]_vars, ~UNCHANGED <<ticks, queue>> PROVE A
    OBVIOUS
  <2>1. CountTick \/ KeepAsleep \/ Wake
    BY DEF Next, Serve, Tick, Start, AnswerNow, EndOfTick, TimerInterrupt, NotifierSend, NotifierAwait,
           AnswerNotifier, Time, Delay, DelayUntil, Call, DestroyClient, vars
  <2> QED BY <2>1, CountTickAdvances, KeepAsleepSleeps, WakeRings
<1> QED BY <1>1, <1>2, ClockInvariant, PTL DEF Spec, ImplementsAlarm
-----------------------------------------------------------------------------
(* While a client waits, its message or its node still stands for the tick it
   asked for.  The count stays in the lower half of the words, where Delay's sum
   does not wrap. *)
Earliest(m, count) ==
  IF m.type = "TIME" \/ ~Natural(m.ticks) THEN 0
  ELSE IF m.type = "DELAY" THEN m.ticks + count ELSE m.ticks

WishKept ==
  \A c \in Clients : phase[c] = "waiting" =>
    /\ \A i \in DOMAIN inbox : inbox[i].from = c => wish[c] <= Earliest(inbox[i], Counted)
    /\ \A j \in DOMAIN queue : queue[j].tid = c => wish[c] <= queue[j].delay

LEMMA ClockTypes ==
  ASSUME ClockInv
  PROVE  /\ ticks \in Words /\ now \in Nat /\ ticks <= now /\ now <= MaxTicks
         /\ Counted \in Nat /\ (pc = "receiving" => Counted = ticks)
         /\ \A i \in DOMAIN inbox : inbox[i] \in Requests /\ inbox[i].ticks \in Words
         /\ \A j \in DOMAIN queue : queue[j] \in Nodes /\ queue[j].delay \in Words
         /\ \A c \in Clients : wish[c] \in Nat
<1>1. /\ \A i \in DOMAIN inbox : inbox[i] \in Requests
      /\ \A j \in DOMAIN queue : queue[j] \in Nodes
  BY LenProperties, ElementOfSeq DEF ClockInv, ClockTypeOK
<1>2. /\ ticks \in Words /\ now \in Nat /\ ticks <= now /\ now <= MaxTicks
      /\ Counted \in Nat /\ (pc = "receiving" => Counted = ticks)
  BY DEF ClockInv, ClockTypeOK, TicksInStep, Counted, Words
<1> QED BY <1>1, <1>2 DEF ClockInv, ClockTypeOK, Requests, Nodes

(* The deadline the server computes is not before the one asked for. *)
LEMMA DeadlineKept ==
  ASSUME ClockInv, MaxTicks <= Word \div 2, NEW m \in Requests, m.type # "TIME"
  PROVE  Deadline(m) \in Words /\ Earliest(m, ticks) <= Deadline(m)
<1>1. m.ticks \in 0 .. Word - 1 /\ ticks \in 0 .. Word - 1 /\ ticks <= Word \div 2
  BY ClockTypes DEF Requests, Words
<1>2. CASE m.type = "DELAY"
  <2>1. CASE Natural(m.ticks)
    <3>1. m.ticks + ticks \in 0 .. Word - 1
      BY <1>1, <2>1 DEF Natural
    <3>2. (m.ticks + ticks) % Word = m.ticks + ticks
      BY <3>1
    <3> QED BY <1>2, <3>1, <3>2 DEF Deadline, Earliest, Words
  <2>2. CASE ~Natural(m.ticks)
    <3>1. (m.ticks + ticks) % Word \in 0 .. Word - 1
      BY <1>1
    <3> QED BY <1>2, <2>2, <3>1 DEF Deadline, Earliest, Words
  <2> QED BY <2>1, <2>2
<1> QED BY <1>1, <1>2 DEF Deadline, Earliest, Words

LEMMA CallKept ==
  ASSUME ClockInv, WishKept, NEW c \in Clients, NEW type, NEW n \in Words, NEW notBefore \in Nat,
         Call(c, type, n, notBefore),
         notBefore <= Earliest([type |-> type, ticks |-> n, from |-> c], Counted)
  PROVE  WishKept'
<1> DEFINE m == [type |-> type, ticks |-> n, from |-> c]
<1>1. /\ inbox' = Append(inbox, m) /\ UNCHANGED <<queue, ticks>>
      /\ phase' = [phase EXCEPT ![c] = "waiting"] /\ wish' = [wish EXCEPT ![c] = notBefore]
      /\ m.from = c /\ phase[c] = "running"
  BY DEF Call, Request
<1>8. Counted' = Counted
  BY DEF Call, Counted
<1>2. inbox \in Seq(Requests) /\ wish \in [Clients -> Nat]
        /\ phase \in [Clients -> {"running", "waiting", "destroyed"}]
  BY DEF ClockInv, ClockTypeOK
<1>3. /\ \A i \in DOMAIN inbox : inbox[i].from # c
      /\ \A j \in DOMAIN queue : queue[j].tid # c
  BY <1>1 DEF ClockInv, Accounted
<1>4. notBefore <= Earliest(m, Counted)
  OBVIOUS
<1> HIDE DEF m
<1>5. \A i \in DOMAIN inbox' : inbox'[i] = m \/ (i \in DOMAIN inbox /\ inbox'[i] = inbox[i])
  BY <1>1, <1>2, AppendProperties, LenProperties
<1> SUFFICES ASSUME NEW d \in Clients, phase'[d] = "waiting"
    PROVE /\ \A i \in DOMAIN inbox' : inbox'[i].from = d => wish'[d] <= Earliest(inbox'[i], Counted)
          /\ \A j \in DOMAIN queue : queue[j].tid = d => wish'[d] <= queue[j].delay
  BY <1>1, <1>8 DEF WishKept
<1>6. CASE d = c
  BY <1>1, <1>2, <1>3, <1>4, <1>5, <1>6
<1>7. CASE d # c
  <2>1. phase[d] = "waiting" /\ wish'[d] = wish[d]
    BY <1>1, <1>2, <1>7
  <2> QED BY <1>1, <1>5, <1>7, <2>1 DEF WishKept
<1> QED BY <1>6, <1>7

LEMMA ClientKept ==
  ASSUME ClockInv, WishKept, NEW c \in Clients, NEW n \in Amounts,
         Delay(c, n) \/ DelayUntil(c, n) \/ Time(c)
  PROVE  WishKept'
<1>1. n \in Words /\ 0 \in Words /\ now \in Nat /\ Counted \in Nat /\ now <= Counted + 1
  BY DEF Words, ClockInv, ClockTypeOK, TicksInStep, Counted, Counted
<1>2. CASE Delay(c, n)
  <2> DEFINE notBefore == IF Natural(n) /\ n > 0 THEN now + n - 1 ELSE 0
  <2>1. notBefore \in Nat /\ notBefore <= Earliest([type |-> "DELAY", ticks |-> n, from |-> c], Counted)
    BY <1>1 DEF Words, Earliest
  <2> HIDE DEF notBefore
  <2>2. Call(c, "DELAY", n, notBefore)
    BY <1>2 DEF Delay, notBefore
  <2> QED BY <1>1, <2>1, <2>2, CallKept
<1>3. CASE DelayUntil(c, n)
  <2> DEFINE notBefore == IF Natural(n) THEN n ELSE 0
  <2>1. notBefore \in Nat /\ notBefore <= Earliest([type |-> "DELAY_UNTIL", ticks |-> n, from |-> c], Counted)
    BY <1>1 DEF Words, Earliest
  <2> HIDE DEF notBefore
  <2>2. Call(c, "DELAY_UNTIL", n, notBefore)
    BY <1>3 DEF DelayUntil, notBefore
  <2> QED BY <1>1, <2>1, <2>2, CallKept
<1>4. CASE Time(c)
  <2>1. 0 <= Earliest([type |-> "TIME", ticks |-> 0, from |-> c], Counted)
    BY DEF Earliest
  <2> QED BY <1>1, <1>4, <2>1, CallKept DEF Time
<1> QED BY <1>2, <1>3, <1>4

LEMMA AnswerNowKept == ASSUME ClockInv, WishKept, AnswerNow PROVE WishKept'
<1>1. PICK m : /\ Received(m) /\ ReplyTo(m.from) /\ m.type # "TICK"
               /\ UNCHANGED <<ticks, queue, pc>>
  BY DEF AnswerNow
<1>2. /\ \A i \in DOMAIN inbox' : i + 1 \in DOMAIN inbox /\ inbox'[i] = inbox[i + 1]
      /\ \A t : (\E i \in DOMAIN inbox' : inbox'[i].from = t)
                  <=> t # m.from /\ \E i \in DOMAIN inbox : inbox[i].from = t
  BY <1>1, ReceivedHead
<1>3. \A j \in DOMAIN queue : queue[j].tid # m.from
  BY <1>1, ReceivedHead DEF ClockInv, OncePerTask
<1>4. \A d \in Clients : d # m.from => phase'[d] = phase[d] /\ wish'[d] = wish[d]
  BY <1>1 DEF ReplyTo, ClockInv, ClockTypeOK
<1>5. \A i \in DOMAIN inbox' : inbox'[i].from # m.from
  BY <1>2
<1>6. ASSUME NEW d \in Clients, d # m.from, phase[d] = "waiting", NEW i \in DOMAIN inbox', inbox'[i].from = d
      PROVE  wish[d] <= Earliest(inbox'[i], Counted)
  BY <1>2, <1>6 DEF WishKept
<1>7. ASSUME NEW d \in Clients, d # m.from, phase[d] = "waiting", NEW j \in DOMAIN queue, queue[j].tid = d
      PROVE  wish[d] <= queue[j].delay
  BY <1>7 DEF WishKept
<1>8. Counted' = Counted
  BY <1>1 DEF Counted
<1> QED BY <1>1, <1>3, <1>4, <1>5, <1>6, <1>7, <1>8 DEF WishKept

LEMMA KeepAsleepKept ==
  ASSUME ClockInv, WishKept, MaxTicks <= Word \div 2, KeepAsleep
  PROVE  WishKept'
<1>1. PICK m : /\ Received(m) /\ m.type \in {"DELAY", "DELAY_UNTIL"}
               /\ queue' = Insert(queue, [tid |-> m.from, delay |-> Deadline(m)])
               /\ UNCHANGED <<ticks, phase, wish, pc>> /\ pc = "receiving"
  BY DEF KeepAsleep, Received
<1> DEFINE node == [tid |-> m.from, delay |-> Deadline(m)]
<1>2. /\ m \in Requests /\ m = inbox[1] /\ 1 \in DOMAIN inbox /\ m.from # Notifier
      /\ \A i \in DOMAIN inbox' : i + 1 \in DOMAIN inbox /\ inbox'[i] = inbox[i + 1]
  BY <1>1, ReceivedHead
<1>3. m.from \in Clients /\ Deadline(m) \in Words /\ Earliest(m, ticks) <= Deadline(m)
  BY <1>1, <1>2, DeadlineKept DEF Requests, Tasks
<1>8. Counted = ticks /\ Counted' = Counted
  BY <1>1 DEF Counted
<1>4. ASSUME phase[m.from] = "waiting" PROVE wish[m.from] <= Deadline(m)
  <2>1. wish[m.from] <= Earliest(m, ticks)
    BY <1>2, <1>3, <1>4, <1>8 DEF WishKept
  <2>2. Earliest(m, ticks) \in Nat /\ wish[m.from] \in Nat
    BY <1>2, <1>3, ClockTypes DEF Earliest, Requests, Words
  <2> QED BY <1>3, <2>1, <2>2 DEF Words
<1>5. \A i \in DOMAIN queue' : queue'[i] = node \/ \E j \in DOMAIN queue : queue'[i] = queue[j]
  <2>1. queue \in Seq(Nodes) /\ node \in Nodes /\ queue' = Insert(queue, node)
    BY <1>1, <1>3 DEF ClockInv, ClockTypeOK, Nodes
  <2> HIDE DEF node
  <2>2. PICK k \in 0 .. Len(queue) :
           /\ queue' \in Seq(Nodes)
           /\ Len(queue) \in Nat /\ DOMAIN queue = 1 .. Len(queue)
           /\ Len(queue') = Len(queue) + 1
           /\ DOMAIN queue' = 1 .. Len(queue) + 1
           /\ \A i \in 1 .. Len(queue) + 1 :
                queue'[i] = IF i <= k THEN queue[i] ELSE IF i = k + 1 THEN node ELSE queue[i - 1]
           /\ \A i \in 1 .. k : queue[i].delay <= node.delay
           /\ k < Len(queue) => queue[k + 1].delay > node.delay
    BY <2>1, Inserted
  <2> TAKE i \in DOMAIN queue'
  <2>3. CASE i <= k
    BY <2>2, <2>3
  <2>4. CASE i = k + 1
    BY <2>2, <2>4
  <2>5. CASE i > k + 1
    <3>1. i - 1 \in DOMAIN queue /\ queue'[i] = queue[i - 1]
      BY <2>2, <2>5
    <3> QED BY <3>1
  <2> QED BY <2>2, <2>3, <2>4, <2>5
<1> SUFFICES ASSUME NEW d \in Clients, phase[d] = "waiting"
    PROVE /\ \A i \in DOMAIN inbox' : inbox'[i].from = d => wish[d] <= Earliest(inbox'[i], Counted)
          /\ \A j \in DOMAIN queue' : queue'[j].tid = d => wish[d] <= queue'[j].delay
  BY <1>1, <1>8 DEF WishKept
<1>6. \A i \in DOMAIN inbox' : inbox'[i].from = d => wish[d] <= Earliest(inbox'[i], Counted)
  BY <1>2 DEF WishKept
<1>7. \A j \in DOMAIN queue' : queue'[j].tid = d => wish[d] <= queue'[j].delay
  BY <1>4, <1>5 DEF WishKept
<1> QED BY <1>6, <1>7

LEMMA AnswerNotifierKept == ASSUME ClockInv, WishKept, AnswerNotifier PROVE WishKept'
<1>1. PICK m : Received(m) /\ UNCHANGED <<ticks, queue, phase, wish>> /\ pc' = "counting"
  BY DEF AnswerNotifier
<1>2. \A i \in DOMAIN inbox' : i + 1 \in DOMAIN inbox /\ inbox'[i] = inbox[i + 1]
  BY <1>1, ReceivedHead
<1>3. Counted = ticks /\ Counted' = ticks + 1 /\ ticks \in Nat
  BY <1>1, ClockTypes DEF Counted, Received, Words
<1> SUFFICES ASSUME NEW d \in Clients, phase[d] = "waiting", NEW i \in DOMAIN inbox', inbox'[i].from = d
    PROVE wish[d] <= Earliest(inbox'[i], Counted')
  BY <1>1 DEF WishKept
<1>4. inbox'[i] = inbox[i + 1] /\ i + 1 \in DOMAIN inbox /\ inbox[i + 1].ticks \in 0 .. Word - 1
        /\ wish[d] \in Nat
  BY <1>2, ClockTypes DEF Words
<1> DEFINE rest == inbox[i + 1]
<1>5. wish[d] <= Earliest(rest, ticks) /\ inbox'[i] = rest
  BY <1>3, <1>4 DEF WishKept
<1> HIDE DEF rest
<1>6. rest.ticks \in 0 .. Word - 1
  BY <1>4 DEF rest
<1>7. wish[d] <= Earliest(rest, ticks + 1)
  BY <1>3, <1>4, <1>5, <1>6 DEF Earliest
<1> QED BY <1>3, <1>5, <1>7

LEMMA CountTickKept == ASSUME ClockInv, WishKept, CountTick PROVE WishKept'
<1>1. Counted' = Counted
  BY CountTickClock DEF CountTick, Counted
<1> QED BY <1>1 DEF CountTick, WishKept

LEMMA WakeKept == ASSUME ClockInv, WishKept, Wake PROVE WishKept'
<1>1. queue \in Seq(Nodes) /\ queue # <<>> /\ queue' = Tail(queue) /\ UNCHANGED <<ticks, inbox, pc>>
        /\ ReplyTo(Head(queue).tid)
  BY DEF Wake, ClockInv, ClockTypeOK
<1>2. /\ DOMAIN queue' = 1 .. Len(queue) - 1 /\ DOMAIN queue = 1 .. Len(queue)
      /\ Len(queue) \in Nat \ {0}
      /\ \A i \in 1 .. Len(queue) - 1 : queue'[i] = queue[i + 1]
      /\ Head(queue) = queue[1]
  BY <1>1, Tailed
<1> DEFINE c == queue[1].tid
<1>3. \A i \in DOMAIN inbox : inbox[i].from # c
  BY <1>2 DEF ClockInv, OncePerTask
<1>4. \A i \in DOMAIN queue' : i + 1 \in DOMAIN queue /\ queue'[i] = queue[i + 1] /\ i + 1 # 1
  BY <1>2
<1>5. \A i \in DOMAIN queue : queue[i].tid = c => i = 1
  BY <1>2 DEF ClockInv, OncePerTask
<1>6. \A d \in Clients : d # c => phase'[d] = phase[d] /\ wish'[d] = wish[d]
  BY <1>1, <1>2 DEF ReplyTo, ClockInv, ClockTypeOK
<1> HIDE DEF c
<1>7. ASSUME NEW d \in Clients, d # c, phase[d] = "waiting", NEW j \in DOMAIN queue', queue'[j].tid = d
      PROVE  wish[d] <= queue'[j].delay
  BY <1>4, <1>7 DEF WishKept
<1>8. \A j \in DOMAIN queue' : queue'[j].tid # c
  BY <1>4, <1>5
<1>9. Counted' = Counted
  BY <1>1 DEF Counted
<1> QED BY <1>1, <1>3, <1>6, <1>7, <1>8, <1>9 DEF WishKept, Earliest

LEMMA NextKept ==
  ASSUME ClockInv, WishKept, MaxTicks <= Word \div 2, [Next]_vars
  PROVE  WishKept'
<1>1. CASE Serve
  <2>1. ASSUME Start \/ EndOfTick PROVE WishKept'
    BY <2>1 DEF Start, EndOfTick, WishKept, Earliest, Counted
  <2> QED BY <1>1, <2>1, AnswerNowKept, KeepAsleepKept, AnswerNotifierKept, CountTickKept, WakeKept DEF Serve
<1>2. CASE Tick
  <2>1. CASE TimerInterrupt \/ NotifierAwait
    BY <2>1 DEF TimerInterrupt, NotifierAwait, WishKept, Earliest, Counted
  <2>2. CASE NotifierSend
    <3> DEFINE m == [type |-> "TICK", ticks |-> 0, from |-> Notifier]
    <3>1. /\ inbox \in Seq(Requests) /\ inbox' = Append(inbox, m)
          /\ UNCHANGED <<ticks, queue, phase, wish, pc>> /\ m.from \notin Clients
      BY <2>2 DEF NotifierSend, Request, ClockInv, ClockTypeOK
    <3> HIDE DEF m
    <3>2. \A i \in DOMAIN inbox' : inbox'[i] = m \/ (i \in DOMAIN inbox /\ inbox'[i] = inbox[i])
      BY <3>1, AppendProperties, LenProperties
    <3> QED BY <3>1, <3>2 DEF WishKept, Earliest, Counted
  <2> QED BY <1>2, <2>1, <2>2 DEF Tick
<1>3. ASSUME NEW c \in Clients, Time(c) PROVE WishKept'
  <2>1. 0 <= Earliest([type |-> "TIME", ticks |-> 0, from |-> c], Counted)
    BY DEF Earliest
  <2> QED BY <1>3, <2>1, CallKept DEF Time, Words
<1>4. ASSUME NEW c \in Clients, DestroyClient(c) PROVE WishKept'
  BY <1>4 DEF DestroyClient, WishKept, Earliest, Counted, ClockInv, ClockTypeOK
<1>5. ASSUME NEW c \in Clients, NEW n \in Amounts, Delay(c, n) \/ DelayUntil(c, n) PROVE WishKept'
  BY <1>5, ClientKept
<1>6. CASE UNCHANGED vars
  BY <1>6 DEF vars, WishKept, Earliest, Counted
<1> QED BY <1>1, <1>2, <1>3, <1>4, <1>5, <1>6 DEF Next

(* Only two steps answer, and neither answers early. *)
LEMMA AnsweredInTime ==
  ASSUME ClockInv, WishKept, MaxTicks <= Word \div 2, [Next]_vars,
         NEW c \in Clients, phase[c] = "waiting", phase'[c] = "running"
  PROVE  now >= wish[c] \/ spare = 0
<1>1. ticks \in Nat /\ now \in Nat /\ ticks <= now /\ wish[c] \in Nat
  BY ClockTypes DEF Words
<1>2. AnswerNow \/ Wake
  BY DEF Next, Serve, Tick, Start, KeepAsleep, AnswerNotifier, CountTick, EndOfTick, TimerInterrupt,
         NotifierSend, NotifierAwait, Time, Delay, DelayUntil, Call, DestroyClient, vars, ClockInv, ClockTypeOK
<1>3. CASE AnswerNow
  <2>1. PICK m : /\ Received(m) /\ ReplyTo(m.from)
                 /\ m.type = "TIME" \/ (m.type \in {"DELAY", "DELAY_UNTIL"}
                                        /\ (Deadline(m) <= ticks \/ spare = 0))
    BY <1>3 DEF AnswerNow
  <2>2. c = m.from
    BY <2>1 DEF ReplyTo, ClockInv, ClockTypeOK
  <2>3. m \in Requests /\ wish[c] <= Earliest(m, ticks)
    <3>1. Counted = ticks
      BY <2>1, ClockTypes DEF Received
    <3> QED BY <2>1, <2>2, <3>1, ReceivedHead DEF WishKept
  <2>4. CASE m.type = "TIME"
    BY <1>1, <2>3, <2>4 DEF Earliest
  <2>5. CASE m.type # "TIME" /\ Deadline(m) <= ticks
    <3>1. Deadline(m) \in Words /\ Earliest(m, ticks) <= Deadline(m)
      BY <2>3, <2>5, DeadlineKept
    <3>2. Earliest(m, ticks) \in Nat
      BY <1>1, <2>3 DEF Earliest, Requests, Words
    <3> QED BY <1>1, <2>3, <2>5, <3>1, <3>2 DEF Words
  <2> QED BY <2>1, <2>4, <2>5
<1>4. CASE Wake
  <2>1. /\ queue \in Seq(Nodes) /\ queue # <<>> /\ ReplyTo(Head(queue).tid)
        /\ Head(queue).delay <= ticks
    BY <1>4 DEF Wake, Due, ClockInv, ClockTypeOK
  <2>2. Head(queue) = queue[1] /\ 1 \in DOMAIN queue
    BY <2>1, Tailed
  <2>3. c = queue[1].tid
    BY <2>1, <2>2 DEF ReplyTo, ClockInv, ClockTypeOK
  <2>4. wish[c] <= queue[1].delay /\ queue[1].delay \in Words
    BY <2>2, <2>3, ClockTypes DEF WishKept
  <2> QED BY <1>1, <2>1, <2>2, <2>4 DEF Words
<1> QED BY <1>2, <1>3, <1>4

(* Nobody is answered before the tick asked for, however the calls, the tick
   messages and the server's steps interleave: for the 2^31 ticks (248 days)
   until the count and a delay may wrap together. *)
THEOREM NobodyWokenEarlyCorrect ==
  ASSUME MaxTicks <= Word \div 2
  PROVE  Spec => NobodyWokenEarly
<1>1. Init => WishKept
  BY DEF Init, WishKept
<1>2. ClockInv /\ WishKept /\ [Next]_vars => WishKept'
  BY NextKept
<1>3. ClockInv /\ WishKept /\ [Next]_vars
        => [\A c \in Clients :
              phase[c] = "waiting" /\ phase'[c] = "running" => now >= wish[c] \/ spare = 0]_vars
  BY AnsweredInTime
<1> QED BY <1>1, <1>2, <1>3, ClockInvariant, PTL DEF Spec, NobodyWokenEarly
=============================================================================
