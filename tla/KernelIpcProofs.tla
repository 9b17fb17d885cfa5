-------------------------- MODULE KernelIpcProofs ---------------------------
(* The kernel's message passing is that of Ipc: every step of Kernel is a step of
   Ipc, seen through the descriptors' states and the senders in the inboxes, or
   leaves it alone. *)
EXTENDS MCKernel, KernelProofs

USE SchedulerAssumption, KernelAssumption
-----------------------------------------------------------------------------
(* The kernel's inboxes as Ipc sees them: sequences of senders. *)
LEMMA InboxIs ==
  ASSUME NEW m, NEW r, NEW s \in Seq(Envelopes), Linked(m.next, NULL, m.inHead[r], s)
  PROVE  InboxIn(m, r) = [i \in 1 .. Len(s) |-> m.sender[s[i]]]
<1> DEFINE next == m.next
           from == m.inHead[r]
<1>1. IsFiniteSet(Envelopes) /\ Cardinality(Envelopes) <= NumEnvelopes /\ NumEnvelopes \in Nat
  <2> DEFINE n == NumEnvelopes - 1
  <2>1. 0 \in Int /\ n \in Int /\ NumEnvelopes \in Nat \ {0} /\ n - 0 + 1 = NumEnvelopes /\ ~(0 > n)
    BY DEF KernelAssumption
  <2> HIDE DEF n
  <2>2. IsFiniteSet(0 .. n) /\ Cardinality(0 .. n) = IF 0 > n THEN 0 ELSE n - 0 + 1
    BY <2>1, FS_Interval
  <2>3. Envelopes = 0 .. n
    BY DEF Envelopes, n
  <2> QED BY <2>1, <2>2, <2>3
<1> HIDE DEF next, from
<1>2. Linked(next, NULL, from, s)
  BY DEF next, from
<1>3. Followed(Envelopes, NumEnvelopes, next, NULL, from) = s
  BY <1>1, <1>2, NullEnvelope, LinkedFollowed
<1> QED BY <1>3 DEF InboxIn, next, from

(* An inbox whose envelopes keep their links and senders. *)
LEMMA SameInbox ==
  ASSUME NEW m, NEW n, NEW r, NEW S, IsList(Envelopes, m.next, NULL, m.inHead[r], S),
         n.inHead[r] = m.inHead[r],
         \A e \in S : n.next[e] = m.next[e] /\ n.sender[e] = m.sender[e]
  PROVE  InboxIn(n, r) = InboxIn(m, r)
<1>1. PICK s \in Seq(Envelopes) : Linked(m.next, NULL, m.inHead[r], s) /\ Elements(s) = S
  BY DEF IsList
<1>2. Linked(n.next, NULL, n.inHead[r], s)
  <2> DEFINE next == m.next
             next2 == n.next
             from == m.inHead[r]
  <2>1. Linked(next, NULL, from, s) /\ \A e \in Elements(s) : next2[e] = next[e]
    BY <1>1
  <2> HIDE DEF next, next2, from
  <2>2. Linked(next2, NULL, from, s)
    BY <2>1, LinkedKeeps
  <2> QED BY <2>2 DEF next2, from
<1>3. /\ InboxIn(m, r) = [i \in 1 .. Len(s) |-> m.sender[s[i]]]
      /\ InboxIn(n, r) = [i \in 1 .. Len(s) |-> n.sender[s[i]]]
  BY <1>1, <1>2, InboxIs
<1>4. \A i \in 1 .. Len(s) : n.sender[s[i]] = m.sender[s[i]]
  BY <1>1 DEF Elements
<1> QED BY <1>3, <1>4

LEMMA EmptyInbox ==
  ASSUME NEW m, NEW r
  PROVE  m.inHead[r] = NULL => InboxIn(m, r) = <<>>
<1>1. ASSUME NEW s \in Seq(Envelopes), Linked(m.next, NULL, m.inHead[r], s)
      PROVE  InboxIn(m, r) = [i \in 1 .. Len(s) |-> m.sender[s[i]]]
  BY <1>1, InboxIs
<1> SUFFICES ASSUME m.inHead[r] = NULL PROVE InboxIn(m, r) = <<>>
  OBVIOUS
<1>2. Linked(m.next, NULL, m.inHead[r], <<>>) /\ <<>> \in Seq(Envelopes) /\ Len(<<>>) = 0
  BY DEF Linked
<1>3. PICK s \in Seq(Envelopes) : Linked(m.next, NULL, m.inHead[r], s) /\ Len(s) = 0
  BY <1>2
<1>4. InboxIn(m, r) = [i \in 1 .. Len(s) |-> m.sender[s[i]]]
  BY <1>1, <1>3
<1>5. InboxIn(m, r) \in Seq({}) /\ Len(InboxIn(m, r)) = 0
  BY <1>3, <1>4
<1> QED BY <1>5, EmptySeq

(* The first message taken out. *)
Shortens(m, n, r, S) ==
  /\ m.sender \in [Envelopes -> SlotPtr]
  /\ IsList(Envelopes, m.next, NULL, m.inHead[r], S)
  /\ m.inHead[r] # NULL /\ n.inHead[r] = m.next[m.inHead[r]]
  /\ \A e \in S \ {m.inHead[r]} : n.next[e] = m.next[e] /\ n.sender[e] = m.sender[e]

LEMMA ShorterInbox ==
  ASSUME NEW m, NEW n, NEW r, NEW S, Shortens(m, n, r, S)
  PROVE  /\ InboxIn(m, r) # <<>> /\ Head(InboxIn(m, r)) = m.sender[m.inHead[r]]
         /\ InboxIn(n, r) = Tail(InboxIn(m, r))
<1> USE DEF Shortens
<1> DEFINE next == m.next
           next2 == n.next
           from == m.inHead[r]
<1>1. PICK s \in Seq(Envelopes) : Linked(next, NULL, from, s) /\ Elements(s) = S
  BY DEF IsList
<1> DEFINE t == Tail(s)
<1>2. \A e \in S \ {from} : next2[e] = next[e]
  OBVIOUS
<1>3. from # NULL
  OBVIOUS
<1> HIDE DEF next, next2, from
<1>4. /\ s # <<>> /\ from = s[1]
      /\ t \in Seq(Envelopes) /\ Linked(next, NULL, next[from], t)
      /\ Elements(t) = S \ {from}
  BY <1>1, <1>3, NullEnvelope, LinkedTail
<1>5. /\ Len(t) = Len(s) - 1 /\ Len(s) \in Nat \ {0}
      /\ \A i \in 1 .. Len(s) - 1 : t[i] = s[i + 1]
  BY <1>4, Tailed
<1> HIDE DEF t
<1>6. Linked(next2, NULL, next[from], t)
  BY <1>2, <1>4, LinkedKeeps
<1> DEFINE a == InboxIn(m, r)
           b == InboxIn(n, r)
<1>7. a = [i \in 1 .. Len(s) |-> m.sender[s[i]]]
  BY <1>1, InboxIs DEF next, from
<1>8. b = [i \in 1 .. Len(t) |-> n.sender[t[i]]]
  BY <1>4, <1>6, InboxIs DEF next, next2, from
<1>9. a \in Seq(SlotPtr) /\ Len(a) = Len(s) /\ a # <<>>
  <2>1. \A i \in 1 .. Len(s) : a[i] \in SlotPtr
    BY <1>7, ElementOfSeq
  <2>2. a \in [1 .. Len(s) -> SlotPtr]
    BY <1>7, <2>1
  <2> HIDE DEF a
  <2>3. a \in Seq(SlotPtr) /\ Len(a) = Len(s)
    BY <1>5, <2>2
  <2> QED BY <1>5, <2>3, EmptySeq
<1> HIDE DEF a, b
<1>10. \A i \in 1 .. Len(t) : n.sender[t[i]] = m.sender[s[i + 1]]
  <2>1. \A i \in 1 .. Len(t) : t[i] \in S \ {from} /\ t[i] = s[i + 1]
    BY <1>4, <1>5 DEF Elements
  <2> QED BY <2>1 DEF from
<1>11. Head(a) = m.sender[s[1]]
  BY <1>5, <1>7, <1>9
<1>12. b = Tail(a)
  <2> DEFINE c == Tail(a)
  <2>1. /\ c \in Seq(SlotPtr) /\ Len(c) = Len(s) - 1
        /\ \A i \in 1 .. Len(s) - 1 : c[i] = a[i + 1]
    BY <1>9, Tailed
  <2> HIDE DEF c
  <2>2. \A i \in 1 .. Len(t) : c[i] = b[i]
    BY <1>5, <1>7, <1>8, <1>10, <2>1
  <2>3. b \in [1 .. Len(t) -> SlotPtr]
    <3>1. \A i \in 1 .. Len(t) : s[i + 1] \in Envelopes
      BY <1>5, ElementOfSeq
    <3> QED BY <1>8, <1>10, <3>1
  <2>4. b \in Seq(SlotPtr) /\ Len(b) = Len(t)
    BY <1>5, <2>3
  <2>5. b = c
    BY <1>5, <2>1, <2>2, <2>4, SeqEqual
  <2> QED BY <2>5 DEF c
<1> QED BY <1>4, <1>9, <1>11, <1>12 DEF a, b, from

(* A message at its end. *)
Lengthens(m, n, r, S, e, c) ==
  /\ m.sender \in [Envelopes -> SlotPtr] /\ c \in Slots
  /\ Appends(Envelopes, m.next, n.next, NULL, m.inHead[r], n.inHead[r], m.inTail[r], S, e)
  /\ n.sender[e] = c /\ \A x \in S : n.sender[x] = m.sender[x]

LEMMA LongerInbox ==
  ASSUME NEW m, NEW n, NEW r, NEW S, NEW e, NEW c, Lengthens(m, n, r, S, e, c)
  PROVE  InboxIn(n, r) = Append(InboxIn(m, r), c)
<1> DEFINE next == m.next
           next2 == n.next
           from == m.inHead[r]
           from2 == n.inHead[r]
           tail == m.inTail[r]
<1>1. /\ e \in Envelopes /\ e \notin S /\ IsQueue(Envelopes, next, NULL, from, tail, S)
      /\ Appends(Envelopes, next, next2, NULL, from, from2, tail, S, e)
      /\ m.sender \in [Envelopes -> SlotPtr] /\ c \in Slots
      /\ n.sender[e] = c /\ \A x \in S : n.sender[x] = m.sender[x]
  BY DEF Lengthens, Appends
<1> HIDE DEF next, next2, from, from2, tail
<1>2. PICK s \in Seq(Envelopes) : /\ Linked(next, NULL, from, s) /\ Elements(s) = S
                                  /\ tail = IF s = <<>> THEN NULL ELSE s[Len(s)]
  BY <1>1 DEF IsQueue
<1>3. Append(s, e) \in Seq(Envelopes) /\ Linked(next2, NULL, from2, Append(s, e))
  BY <1>1, <1>2, AppendsLinked
<1> DEFINE t == Append(s, e)
<1>4. /\ t \in Seq(Envelopes) /\ Linked(next2, NULL, from2, t)
      /\ Len(t) = Len(s) + 1 /\ Len(s) \in Nat /\ t[Len(s) + 1] = e
      /\ \A i \in 1 .. Len(s) : t[i] = s[i]
  BY <1>1, <1>3, AppendProperties, LenProperties
<1> HIDE DEF t
<1> DEFINE a == InboxIn(m, r)
           b == InboxIn(n, r)
<1>5. a = [i \in 1 .. Len(s) |-> m.sender[s[i]]]
  BY <1>2, InboxIs DEF next, from
<1>6. b = [i \in 1 .. Len(t) |-> n.sender[t[i]]]
  BY <1>4, InboxIs DEF next2, from2
<1>7. a \in Seq(SlotPtr) /\ Len(a) = Len(s) /\ c \in SlotPtr
  <2>1. \A i \in 1 .. Len(s) : a[i] \in SlotPtr
    BY <1>1, <1>5, ElementOfSeq
  <2>2. a \in [1 .. Len(s) -> SlotPtr]
    BY <1>5, <2>1
  <2> HIDE DEF a
  <2> QED BY <1>1, <1>4, <2>2 DEF SlotPtr
<1> HIDE DEF a, b
<1> DEFINE d == Append(a, c)
<1>8. /\ d \in Seq(SlotPtr) /\ Len(d) = Len(s) + 1 /\ d[Len(s) + 1] = c
       /\ \A i \in 1 .. Len(s) : d[i] = a[i]
  BY <1>7, AppendProperties
<1> HIDE DEF d
<1>9. \A i \in 1 .. Len(t) : b[i] = d[i]
  <2> SUFFICES ASSUME NEW i \in 1 .. Len(t) PROVE b[i] = d[i]
    OBVIOUS
  <2>1. CASE i = Len(s) + 1
    BY <1>1, <1>4, <1>6, <1>8, <2>1
  <2>2. CASE i \in 1 .. Len(s)
    <3>1. s[i] \in S
      BY <1>2, <2>2 DEF Elements
    <3> QED BY <1>1, <1>4, <1>5, <1>6, <1>8, <2>2, <3>1
  <2> QED BY <1>4, <2>1, <2>2
<1>10. b \in Seq(SlotPtr) /\ Len(b) = Len(t)
  <2>1. \A i \in 1 .. Len(t) : b[i] \in SlotPtr
    <3>1. \A i \in 1 .. Len(d) : d[i] \in SlotPtr
      BY <1>8, ElementOfSeq
    <3> QED BY <1>4, <1>8, <1>9, <3>1
  <2>2. b \in [1 .. Len(t) -> SlotPtr]
    BY <1>6, <2>1
  <2> QED BY <1>4, <2>2
<1>11. b = d
  BY <1>4, <1>8, <1>9, <1>10, SeqEqual
<1> QED BY <1>11 DEF a, b, d

(* Only the envelopes of F change, none of which is in the inbox of r. *)
Resting(m, n, r, box, F) ==
  /\ F \cap box[r] = {} /\ n.inHead[r] = m.inHead[r]
  /\ \A e \in Envelopes \ F : n.next[e] = m.next[e] /\ n.sender[e] = m.sender[e]

LEMMA InboxKeeps ==
  ASSUME NEW m \in Mail, NEW st, NEW res, NEW v, NEW box, MailWith(m, st, res, v, box),
         NEW n, NEW r \in Slots, NEW F, Resting(m, n, r, box, F)
  PROVE  InboxIn(n, r) = InboxIn(m, r)
<1> DEFINE S == box[r]
<1>1. IsList(Envelopes, m.next, NULL, m.inHead[r], S)
  BY DEF MailWith, BoxesSound
<1>2. \A e \in S : n.next[e] = m.next[e] /\ n.sender[e] = m.sender[e]
  BY DEF MailWith, BoxesSound, Resting
<1>3. n.inHead[r] = m.inHead[r]
  BY DEF Resting
<1> HIDE DEF S
<1> QED BY <1>1, <1>2, <1>3, SameInbox

(* Envelopes that are in no inbox change hands. *)
LEMMA InboxesRest ==
  ASSUME mail \in Mail, NEW st, NEW res, NEW v, NEW box, MailWith(mail, st, res, v, box),
         NEW F, \A t \in Slots : Resting(mail, mail', t, box, F)
  PROVE  \A t \in Slots : InboxOf(t)' = InboxOf(t)
<1> SUFFICES ASSUME NEW t \in Slots PROVE InboxIn(mail', t) = InboxIn(mail, t)
  BY DEF InboxOf
<1>1. Resting(mail, mail', t, box, F)
  OBVIOUS
<1> QED BY <1>1, InboxKeeps

(* Only a message makes an inbox, and the first one is the head. *)
LEMMA FirstOfInbox ==
  ASSUME NEW m \in Mail, NEW st, NEW res, NEW v, NEW box, MailWith(m, st, res, v, box),
         NEW n, NEW r \in Slots, m.inHead[r] # NULL, n.inHead[r] = m.next[m.inHead[r]],
         \A e \in Envelopes \ {m.inHead[r]} : n.next[e] = m.next[e] /\ n.sender[e] = m.sender[e]
  PROVE  /\ InboxIn(m, r) # <<>> /\ Head(InboxIn(m, r)) = m.sender[m.inHead[r]]
         /\ InboxIn(n, r) = Tail(InboxIn(m, r))
<1> DEFINE S == box[r]
<1>1. IsList(Envelopes, m.next, NULL, m.inHead[r], S) /\ m.sender \in [Envelopes -> SlotPtr]
  BY DEF MailWith, BoxesSound, Mail
<1>2. \A e \in S \ {m.inHead[r]} : n.next[e] = m.next[e] /\ n.sender[e] = m.sender[e]
  BY DEF MailWith, BoxesSound
<1>3. Shortens(m, n, r, S)
  BY <1>1, <1>2 DEF Shortens
<1> HIDE DEF S
<1> QED BY <1>3, ShorterInbox

(* A message waits at the end of its inbox, and of no other. *)
LEMMA EnqueuedInbox ==
  ASSUME NEW m \in Mail, NEW st, NEW res, NEW v, NEW box, MailWith(m, st, res, v, box),
         m.free # NULL, current \in Slots, NEW r \in Slots, r # v
  PROVE  /\ InboxIn(Enqueue(m, r), r) = Append(InboxIn(m, r), current)
         /\ \A t \in Slots : t # r => InboxIn(Enqueue(m, r), t) = InboxIn(m, t)
<1> DEFINE n == Enqueue(m, r)
           e == m.free
<1>1. e \in Envelopes /\ e \notin Outs(m)
  BY FreeEnvelope DEF MailWith
<1>2. /\ m.sender \in [Envelopes -> SlotPtr] /\ m.next \in [Envelopes -> EnvPtr]
      /\ m.inHead \in [Slots -> EnvPtr] /\ m.inTail \in [Slots -> EnvPtr]
  BY DEF Mail
<1>3. /\ n.sender = [m.sender EXCEPT ![e] = current]
      /\ n.inHead = [m.inHead EXCEPT ![r] = IF @ = NULL THEN e ELSE @]
      /\ n.next = IF m.inHead[r] # NULL /\ m.inTail[r] # NULL
                  THEN [m.next EXCEPT ![e] = NULL, ![m.inTail[r]] = e]
                  ELSE [m.next EXCEPT ![e] = NULL]
  BY DEF Enqueue, GetEnvelope, Mail
<1>4. IsQueue(Envelopes, m.next, NULL, m.inHead[r], m.inTail[r], box[r])
  BY DEF MailWith, BoxesSound
<1>5. /\ m.inHead[r] = NULL <=> m.inTail[r] = NULL
      /\ m.inTail[r] # NULL => m.inTail[r] \in box[r]
  <2>1. /\ m.inTail[r] = NULL <=> box[r] = {}
        /\ m.inTail[r] # NULL => m.inTail[r] \in box[r]
        /\ IsList(Envelopes, m.next, NULL, m.inHead[r], box[r])
    BY <1>4, NullEnvelope, QueueFacts
  <2>2. m.inHead[r] = NULL <=> box[r] = {}
    BY <2>1, NullEnvelope, ListFacts
  <2> QED BY <2>1, <2>2
<1>6. \A b \in Slots : box[b] \subseteq Envelopes /\ e \notin box[b]
  BY <1>1, BoxedEnvelope
<1> HIDE DEF n, e
<1>7. /\ n.next[e] = NULL
      /\ m.inTail[r] # NULL => n.next[m.inTail[r]] = e
      /\ \A x \in Envelopes : x # e /\ x # m.inTail[r] => n.next[x] = m.next[x]
      /\ n.sender[e] = current /\ \A x \in Envelopes : x # e => n.sender[x] = m.sender[x]
  <2>1. m.inTail[r] # NULL => m.inTail[r] # e /\ m.inTail[r] \in Envelopes
    BY <1>5, <1>6
  <2> QED BY <1>1, <1>2, <1>3, <1>5, <2>1
<1>8. InboxIn(n, r) = Append(InboxIn(m, r), current)
  <2> DEFINE S == box[r]
  <2>1. Appends(Envelopes, m.next, n.next, NULL, m.inHead[r], n.inHead[r], m.inTail[r], S, e)
    <3>1. \A x \in S \ {m.inTail[r]} : n.next[x] = m.next[x]
      BY <1>6, <1>7
    <3>2. n.inHead[r] = IF m.inHead[r] = NULL THEN e ELSE m.inHead[r]
      BY <1>2, <1>3
    <3> QED BY <1>1, <1>4, <1>6, <1>7, <3>1, <3>2, NullEnvelope DEF Appends
  <2>2. \A x \in S : n.sender[x] = m.sender[x]
    BY <1>6, <1>7
  <2> HIDE DEF S
  <2>3. Lengthens(m, n, r, S, e, current)
    BY <1>2, <1>7, <2>1, <2>2 DEF Lengthens
  <2> QED BY <2>3, LongerInbox
<1>9. ASSUME NEW t \in Slots, t # r PROVE InboxIn(n, t) = InboxIn(m, t)
  <2> DEFINE F == {e, m.inTail[r]}
  <2>1. F \cap box[t] = {}
    <3>1. box[t] \cap box[r] = {}
      BY <1>9 DEF MailWith, SendersSound
    <3> QED BY <1>5, <1>6, <3>1, NullEnvelope
  <2>2. \A x \in Envelopes \ F : n.next[x] = m.next[x] /\ n.sender[x] = m.sender[x]
    BY <1>7
  <2>3. n.inHead[t] = m.inHead[t]
    BY <1>2, <1>3, <1>9
  <2> HIDE DEF F
  <2>4. Resting(m, n, t, box, F)
    BY <2>1, <2>2, <2>3 DEF Resting
  <2> QED BY <2>4, InboxKeeps
<1> QED BY <1>8, <1>9 DEF n

LEMMA PhaseKeeps ==
  ASSUME NEW t, State(t)' = State(t) \/ (State(t) \in Awake /\ State(t)' \in Awake)
  PROVE  PhaseOf(t)' = PhaseOf(t)
BY DEF PhaseOf, Awake

(* What is no message, no answer and no death is nothing for Ipc. *)
LEMMA NothingForIpc ==
  ASSUME \A t \in Slots : State(t)' = State(t) \/ (State(t) \in Awake /\ State(t)' \in Awake),
         \A t \in Slots : InboxOf(t)' = InboxOf(t)
  PROVE  UNCHANGED Promise!ipcVars
<1>1. \A t \in Slots : PhaseOf(t)' = PhaseOf(t)
  BY PhaseKeeps
<1> QED BY <1>1 DEF Promise!ipcVars

LEMMA MailUnchanged ==
  ASSUME UNCHANGED mail
  PROVE  \A t \in Slots : InboxOf(t)' = InboxOf(t)
BY DEF InboxOf

(* The phases, as the states name them. *)
LEMMA Phases ==
  ASSUME NEW t
  PROVE  /\ PhaseOf(t) = "none" <=> State(t) = "FREE"
         /\ PhaseOf(t) = "receiving" <=> State(t) = "SEND_BL"
         /\ PhaseOf(t) = "sending" <=> State(t) = "RECV_BL"
         /\ PhaseOf(t) = "awaiting" <=> State(t) = "REPL_BL"
         /\ PhaseOf(t) = "up" <=> State(t) \notin {"FREE", "SEND_BL", "RECV_BL", "REPL_BL"}
BY DEF PhaseOf

LEMMA PhasesNext ==
  ASSUME NEW t
  PROVE  /\ State(t)' = "FREE" => PhaseOf(t)' = "none"
         /\ State(t)' = "SEND_BL" => PhaseOf(t)' = "receiving"
         /\ State(t)' = "RECV_BL" => PhaseOf(t)' = "sending"
         /\ State(t)' = "REPL_BL" => PhaseOf(t)' = "awaiting"
         /\ State(t)' = "READY" => PhaseOf(t)' = "up"
         /\ State(t)' = State(t) => PhaseOf(t)' = PhaseOf(t)
BY DEF PhaseOf

(* What Deliver and Enqueue do. *)
LEMMA Delivers ==
  ASSUME NEW s \in Slots, NEW r \in Slots, PhaseOf(s) = "up", PhaseOf(r) = "receiving",
         \A t \in Slots : PhaseOf(t)' = IF t = r THEN "up" ELSE IF t = s THEN "awaiting" ELSE PhaseOf(t),
         \A t \in Slots : InboxOf(t)' = InboxOf(t)
  PROVE  Promise!IpcNext
<1>1. Promise!Deliver(s, r)
  BY DEF Promise!Deliver
<1> QED BY <1>1 DEF Promise!IpcNext

LEMMA Enqueues ==
  ASSUME NEW s \in Slots, NEW r \in Slots, s # r, PhaseOf(s) = "up", PhaseOf(r) # "none",
         \A t \in Slots : PhaseOf(t)' = IF t = s THEN "sending"
                                         ELSE IF t = r /\ PhaseOf(r) = "receiving" THEN "up"
                                         ELSE PhaseOf(t),
         \A t \in Slots : InboxOf(t)' = IF t = r THEN Append(InboxOf(t), s) ELSE InboxOf(t)
  PROVE  Promise!IpcNext
<1>1. Promise!Enqueue(s, r)
  BY DEF Promise!Enqueue
<1> QED BY <1>1 DEF Promise!IpcNext

(* sys_send: the message is delivered or waits at the end of the inbox. *)
LEMMA SendIpc ==
  ASSUME TypeInv, KernelInv, NEW x \in Tids, Send(x)
  PROVE  [Promise!IpcNext]_Promise!ipcVars
<1> DEFINE r      == TaskOf(x)
           direct == r # NULL /\ State(r) = "SEND_BL" /\ mail.outbox[r] # NULL
<1>1. /\ current \in Slots /\ State(current) = "ACTIVE" /\ victim = NULL /\ current # victim
      /\ Queued(sched) /\ sched \in Scheduler /\ mail \in Mail
      /\ sched.state \in [Slots -> TaskState] /\ pc = "user"
  BY Caller DEF Send, Calling
<1>2. PICK box : MailWith(mail, sched.state, result, victim, box)
  BY DEF KernelInv, MailHolds
<1>3. r \in SlotPtr /\ (r # NULL => State(r) # "FREE")
  BY TaskOfType DEF TaskOf
<1> HIDE DEF r
<1>4. CASE UNCHANGED <<sched, mail>>
  BY <1>4, NothingForIpc, MailUnchanged DEF State
<1>5. CASE /\ direct
           /\ mail' = TakeOver(mail, r)
           /\ sched' = WakeReceiver(Block(sched, "REPL_BL"), r)
  <2>1. r \in Slots /\ r # current /\ State(r) = "SEND_BL" /\ mail.outbox[r] # NULL
    BY <1>1, <1>3, <1>5 DEF SlotPtr
  <2>2. sched'.state = [t \in Slots |-> IF t = current THEN "REPL_BL"
                                        ELSE IF t = r /\ State(r) = "SEND_BL" THEN "READY"
                                        ELSE State(t)]
    BY <1>1, <1>5, <2>1, SendMoves
  <2>3. /\ PhaseOf(current) = "up" /\ PhaseOf(r) = "receiving"
        /\ \A t \in Slots : PhaseOf(t)' = IF t = r THEN "up" ELSE IF t = current THEN "awaiting"
                                           ELSE PhaseOf(t)
    <3>1. \A t \in Slots : State(t)' = IF t = r THEN "READY" ELSE IF t = current THEN "REPL_BL"
                                        ELSE State(t)
      BY <1>1, <2>1, <2>2 DEF State
    <3> QED BY <1>1, <2>1, <3>1, Phases, PhasesNext
  <2>4. \A t \in Slots : InboxOf(t)' = InboxOf(t)
    <3> DEFINE F == {mail.outbox[r]}
    <3>1. \A t \in Slots : mail.outbox[r] \notin box[t]
      BY <1>1, <1>2, <2>1, BoxedEnvelope DEF State
    <3>2. mail'.inHead = mail.inHead /\ mail'.next = mail.next
          /\ mail'.sender = [mail.sender EXCEPT ![mail.outbox[r]] = current]
      BY <1>1, <1>5 DEF TakeOver, Mail
    <3>3. \A e \in Envelopes \ F : mail'.next[e] = mail.next[e] /\ mail'.sender[e] = mail.sender[e]
      BY <1>1, <3>2 DEF Mail
    <3>4. \A t \in Slots : Resting(mail, mail', t, box, F)
      BY <3>1, <3>2, <3>3 DEF Resting
    <3> HIDE DEF F
    <3> QED BY <1>1, <1>2, <3>4, InboxesRest
  <2>5. r \in Slots /\ current \in Slots
    BY <1>1, <2>1
  <2> QED BY <2>3, <2>4, <2>5, Delivers
<1>6. CASE /\ r \notin {NULL, current} /\ ~direct /\ mail.free # NULL
           /\ mail' = Enqueue(mail, r)
           /\ sched' = WakeReceiver(Block(sched, "RECV_BL"), r)
  <2>1. /\ r \in Slots /\ r # current /\ State(r) # "FREE" /\ r # victim
        /\ State(r) = "SEND_BL" => mail.outbox[r] = NULL
    BY <1>1, <1>3, <1>6, NoNull DEF SlotPtr
  <2>2. sched'.state = [t \in Slots |-> IF t = current THEN "RECV_BL"
                                        ELSE IF t = r /\ State(r) = "SEND_BL" THEN "READY"
                                        ELSE State(t)]
    BY <1>1, <1>6, <2>1, SendMoves
  <2>3. /\ PhaseOf(current) = "up" /\ PhaseOf(r) # "none"
        /\ \A t \in Slots : PhaseOf(t)' = IF t = current THEN "sending"
                                           ELSE IF t = r /\ PhaseOf(r) = "receiving" THEN "up"
                                           ELSE PhaseOf(t)
    <3>1. \A t \in Slots : State(t)' = IF t = current THEN "RECV_BL"
                                        ELSE IF t = r /\ State(r) = "SEND_BL" THEN "READY"
                                        ELSE State(t)
      BY <1>1, <2>1, <2>2 DEF State
    <3> QED BY <1>1, <2>1, <3>1, Phases, PhasesNext
  <2>4. \A t \in Slots : InboxOf(t)' = IF t = r THEN Append(InboxOf(t), current) ELSE InboxOf(t)
    <3>1. /\ InboxIn(Enqueue(mail, r), r) = Append(InboxIn(mail, r), current)
          /\ \A t \in Slots : t # r => InboxIn(Enqueue(mail, r), t) = InboxIn(mail, t)
      BY <1>1, <1>2, <1>6, <2>1, EnqueuedInbox
    <3> QED BY <1>6, <3>1 DEF InboxOf
  <2>5. r \in Slots /\ current \in Slots /\ current # r
    BY <1>1, <2>1
  <2> QED BY <2>3, <2>4, <2>5, Enqueues
<1> QED BY <1>4, <1>5, <1>6 DEF Send, r

(* What AwaitMessage, Take, Answer, Die, Bounce and Spawn do. *)
LEMMA Awaits ==
  ASSUME NEW r \in Slots, PhaseOf(r) = "up", InboxOf(r) = <<>>,
         \A t \in Slots : PhaseOf(t)' = IF t = r THEN "receiving" ELSE PhaseOf(t),
         \A t \in Slots : InboxOf(t)' = InboxOf(t)
  PROVE  Promise!IpcNext
<1>1. Promise!AwaitMessage(r)
  BY DEF Promise!AwaitMessage
<1> QED BY <1>1 DEF Promise!IpcNext

LEMMA Takes ==
  ASSUME NEW r \in Slots, PhaseOf(r) = "up", InboxOf(r) # <<>>, Head(InboxOf(r)) \in Slots,
         \A t \in Slots : PhaseOf(t)' = IF t = Head(InboxOf(r)) THEN "awaiting" ELSE PhaseOf(t),
         \A t \in Slots : InboxOf(t)' = IF t = r THEN Tail(InboxOf(t)) ELSE InboxOf(t)
  PROVE  Promise!IpcNext
<1>1. Promise!Take(r)
  BY DEF Promise!Take
<1> QED BY <1>1 DEF Promise!IpcNext

LEMMA Answers ==
  ASSUME NEW s \in Slots, PhaseOf(s) = "awaiting",
         \A t \in Slots : PhaseOf(t)' = IF t = s THEN "up" ELSE PhaseOf(t),
         \A t \in Slots : InboxOf(t)' = InboxOf(t)
  PROVE  Promise!IpcNext
<1>1. Promise!Answer(s)
  BY DEF Promise!Answer
<1> QED BY <1>1 DEF Promise!IpcNext

LEMMA Dies ==
  ASSUME NEW v \in Slots, PhaseOf(v) \in {"up", "receiving", "awaiting"},
         \A t \in Slots : PhaseOf(t)' = IF t = v THEN "none" ELSE PhaseOf(t),
         \A t \in Slots : InboxOf(t)' = InboxOf(t)
  PROVE  Promise!IpcNext
<1>1. Promise!Die(v)
  BY DEF Promise!Die
<1> QED BY <1>1 DEF Promise!IpcNext

LEMMA Bounces ==
  ASSUME NEW r \in Slots, PhaseOf(r) = "none", InboxOf(r) # <<>>, Head(InboxOf(r)) \in Slots,
         \A t \in Slots : PhaseOf(t)' = IF t = Head(InboxOf(r)) THEN "up" ELSE PhaseOf(t),
         \A t \in Slots : InboxOf(t)' = IF t = r THEN Tail(InboxOf(t)) ELSE InboxOf(t)
  PROVE  Promise!IpcNext
<1>1. Promise!Bounce(r)
  BY DEF Promise!Bounce
<1> QED BY <1>1 DEF Promise!IpcNext

LEMMA Spawns ==
  ASSUME NEW s \in Slots, PhaseOf(s) = "none", InboxOf(s) = <<>>,
         \A t \in Slots : PhaseOf(t)' = IF t = s THEN "up" ELSE PhaseOf(t),
         \A t \in Slots : InboxOf(t)' = InboxOf(t)
  PROVE  Promise!IpcNext
<1>1. Promise!Spawn(s)
  BY DEF Promise!Spawn
<1> QED BY <1>1 DEF Promise!IpcNext

(* The first message of r leaves its inbox, and no other changes. *)
LEMMA InboxAdvances ==
  ASSUME mail \in Mail, NEW st, NEW res, NEW v, NEW box, MailWith(mail, st, res, v, box),
         NEW r \in Slots, NEW e, e = mail.inHead[r], e # NULL,
         mail'.inHead = [mail.inHead EXCEPT ![r] = mail.next[e]], mail'.sender = mail.sender,
         \A x \in Envelopes \ {e} : mail'.next[x] = mail.next[x]
  PROVE  /\ InboxOf(r) # <<>> /\ Head(InboxOf(r)) = mail.sender[e]
         /\ \A t \in Slots : InboxOf(t)' = IF t = r THEN Tail(InboxOf(t)) ELSE InboxOf(t)
<1>1. mail.inHead \in [Slots -> EnvPtr]
  BY DEF Mail
<1>2. /\ InboxIn(mail, r) # <<>> /\ Head(InboxIn(mail, r)) = mail.sender[e]
      /\ InboxIn(mail', r) = Tail(InboxIn(mail, r))
  <2>1. mail'.inHead[r] = mail.next[mail.inHead[r]] /\ mail.inHead[r] # NULL
    BY <1>1
  <2>2. \A x \in Envelopes \ {mail.inHead[r]} : /\ mail'.next[x] = mail.next[x]
                                               /\ mail'.sender[x] = mail.sender[x]
    OBVIOUS
  <2> QED BY <2>1, <2>2, FirstOfInbox
<1>3. ASSUME NEW t \in Slots, t # r PROVE InboxIn(mail', t) = InboxIn(mail, t)
  <2> DEFINE F == {e}
  <2>1. e \in box[r] /\ box[r] \cap box[t] = {}
    BY <1>3, FirstSender DEF MailWith, SendersSound
  <2>2. mail'.inHead[t] = mail.inHead[t] /\ F \cap box[t] = {}
    BY <1>1, <1>3, <2>1
  <2>3. \A x \in Envelopes \ F : mail'.next[x] = mail.next[x] /\ mail'.sender[x] = mail.sender[x]
    OBVIOUS
  <2> HIDE DEF F
  <2>4. Resting(mail, mail', t, box, F)
    BY <2>2, <2>3 DEF Resting
  <2> QED BY <2>4, InboxKeeps
<1> QED BY <1>2, <1>3 DEF InboxOf

(* sys_recv: the receiver waits, or takes the first message. *)
LEMMA ReceiveIpc ==
  ASSUME TypeInv, KernelInv, Receive
  PROVE  Promise!IpcNext
<1> DEFINE e == mail.inHead[current]
<1>1. /\ current \in Slots /\ State(current) = "ACTIVE" /\ victim = NULL /\ current # victim
      /\ sched \in Scheduler /\ mail \in Mail
      /\ sched.state \in [Slots -> TaskState] /\ pc = "user"
  BY Caller DEF Receive, Calling
<1>2. PICK box : MailWith(mail, sched.state, result, victim, box)
  BY DEF KernelInv, MailHolds
<1>3. PhaseOf(current) = "up"
  BY <1>1, Phases
<1>4. ASSUME e = NULL, sched' = Block(sched, "SEND_BL"), \A t \in Slots : InboxOf(t)' = InboxOf(t)
      PROVE  Promise!IpcNext
  <2>1. sched'.state = [sched.state EXCEPT ![current] = "SEND_BL"]
    BY <1>1, <1>4, BlockState
  <2>2. \A t \in Slots : State(t)' = IF t = current THEN "SEND_BL" ELSE State(t)
    BY <1>1, <2>1 DEF State
  <2>3. \A t \in Slots : PhaseOf(t)' = IF t = current THEN "receiving" ELSE PhaseOf(t)
    BY <2>2, PhasesNext
  <2>4. InboxOf(current) = <<>>
    BY <1>4, EmptyInbox DEF InboxOf
  <2> QED BY <1>1, <1>3, <1>4, <2>3, <2>4, Awaits
<1>5. CASE e = NULL /\ sched' = Block(sched, "SEND_BL") /\ UNCHANGED mail
  BY <1>4, <1>5, MailUnchanged
<1>6. CASE /\ e = NULL /\ mail.free # NULL
           /\ sched' = Block(sched, "SEND_BL")
           /\ mail' = [GetEnvelope(mail) EXCEPT !.sender[mail.free] = NULL,
                                                !.outbox[current] = mail.free]
  <2> DEFINE f == mail.free
             F == {f}
  <2>1. f \in Envelopes /\ f \notin Outs(mail)
    BY <1>1, <1>2, <1>6, FreeEnvelope DEF MailWith
  <2>2. /\ mail'.inHead = mail.inHead
        /\ mail'.next = [mail.next EXCEPT ![f] = NULL]
        /\ mail'.sender = [mail.sender EXCEPT ![f] = NULL]
    BY <1>1, <1>6 DEF GetEnvelope, Mail
  <2>3. \A r \in Slots : F \cap box[r] = {}
    BY <1>1, <1>2, <2>1, BoxedEnvelope
  <2>4. \A x \in Envelopes \ F : mail'.next[x] = mail.next[x] /\ mail'.sender[x] = mail.sender[x]
    BY <1>1, <2>2 DEF Mail
  <2> HIDE DEF f, F
  <2>5. \A t \in Slots : Resting(mail, mail', t, box, F)
    BY <2>2, <2>3, <2>4 DEF Resting
  <2>6. \A t \in Slots : InboxOf(t)' = InboxOf(t)
    BY <1>1, <1>2, <2>5, InboxesRest
  <2> QED BY <1>4, <1>6, <2>6
<1>7. e # NULL => mail.sender[e] \in Slots /\ mail.sender[e] # NULL
  BY <1>1, <1>2, FirstSender, NoNull
<1>8. CASE /\ e # NULL
           /\ mail' = [mail EXCEPT !.inHead[current] = mail.next[e],
                                   !.next[e] = NULL,
                                   !.inTail[current] = IF mail.next[e] = NULL
                                                       THEN NULL ELSE @]
           /\ sched' = [sched EXCEPT !.state[mail.sender[e]] = "REPL_BL"]
  <2>1. /\ mail'.inHead = [mail.inHead EXCEPT ![current] = mail.next[e]]
        /\ mail'.next = [mail.next EXCEPT ![e] = NULL] /\ mail'.sender = mail.sender
    BY <1>1, <1>8 DEF Mail
  <2>2. \A x \in Envelopes \ {e} : mail'.next[x] = mail.next[x]
    BY <1>1, <2>1 DEF Mail
  <2>3. /\ InboxOf(current) # <<>> /\ Head(InboxOf(current)) = mail.sender[e]
        /\ \A t \in Slots : InboxOf(t)' = IF t = current THEN Tail(InboxOf(t)) ELSE InboxOf(t)
    BY <1>1, <1>2, <1>8, <2>1, <2>2, InboxAdvances
  <2>4. \A t \in Slots : State(t)' = IF t = mail.sender[e] THEN "REPL_BL" ELSE State(t)
    BY <1>1, <1>8 DEF State, Scheduler
  <2>5. \A t \in Slots : PhaseOf(t)' = IF t = Head(InboxOf(current)) THEN "awaiting" ELSE PhaseOf(t)
    BY <2>3, <2>4, PhasesNext
  <2> QED BY <1>1, <1>3, <1>7, <1>8, <2>3, <2>5, Takes
<1> QED BY <1>5, <1>6, <1>7, <1>8 DEF Receive

(* sys_reply. *)
LEMMA ReplyIpc ==
  ASSUME TypeInv, KernelInv, NEW x \in Tids, Reply(x)
  PROVE  [Promise!IpcNext]_Promise!ipcVars
<1> DEFINE s == TaskOf(x)
<1>1. /\ sched \in Scheduler /\ mail \in Mail /\ sched.state \in [Slots -> TaskState]
  BY Caller DEF Reply, Calling
<1>2. PICK box : MailWith(mail, sched.state, result, victim, box)
  BY DEF KernelInv, MailHolds
<1>3. s \in SlotPtr
  BY TaskOfType
<1> HIDE DEF s
<1>4. CASE UNCHANGED <<sched, mail>>
  BY <1>4, NothingForIpc, MailUnchanged DEF State
<1>5. CASE /\ s # NULL /\ State(s) = "REPL_BL" /\ mail.outbox[s] # NULL
           /\ sched' = AddTask(sched, s)
           /\ mail' = [ReleaseEnvelope(mail, mail.outbox[s]) EXCEPT !.outbox[s] = NULL]
  <2> DEFINE o == mail.outbox[s]
             F == {o}
  <2>1. s \in Slots /\ PhaseOf(s) = "awaiting"
    BY <1>3, <1>5, Phases DEF SlotPtr
  <2>2. sched'.state = [sched.state EXCEPT ![s] = "READY"]
    BY <1>1, <1>5, <2>1, AddTaskState
  <2>3. \A t \in Slots : State(t)' = IF t = s THEN "READY" ELSE State(t)
    BY <1>1, <2>1, <2>2 DEF State
  <2>4. \A t \in Slots : PhaseOf(t)' = IF t = s THEN "up" ELSE PhaseOf(t)
    BY <2>3, PhasesNext
  <2>5. /\ mail'.inHead = mail.inHead /\ mail'.sender = mail.sender
        /\ mail'.next = [mail.next EXCEPT ![o] = mail.free]
    BY <1>1, <1>5 DEF ReleaseEnvelope, Mail
  <2>6. \A r \in Slots : F \cap box[r] = {}
    BY <1>1, <1>2, <1>5, <2>1, BoxedEnvelope DEF State
  <2>7. \A y \in Envelopes \ F : mail'.next[y] = mail.next[y] /\ mail'.sender[y] = mail.sender[y]
    BY <1>1, <2>5 DEF Mail
  <2> HIDE DEF o, F
  <2>8. \A t \in Slots : Resting(mail, mail', t, box, F)
    BY <2>5, <2>6, <2>7 DEF Resting
  <2>9. \A t \in Slots : InboxOf(t)' = InboxOf(t)
    BY <1>1, <1>2, <2>8, InboxesRest
  <2> QED BY <2>1, <2>4, <2>9, Answers
<1> QED BY <1>4, <1>5 DEF Reply, s

(* createTaskD: a descriptor from the bank has an empty inbox. *)
LEMMA CreateIpc ==
  ASSUME TypeInv, KernelInv, NEW p \in 0 .. NumPriorities, Create(p)
  PROVE  [Promise!IpcNext]_Promise!ipcVars
<1>1. /\ victim = NULL /\ sched \in Scheduler /\ mail \in Mail
      /\ sched.state \in [Slots -> TaskState] /\ bank \in SlotPtr
  BY Caller DEF Create, Calling, TypeInv, TypeOK
<1>2. PICK box : MailWith(mail, sched.state, result, victim, box)
  BY DEF KernelInv, MailHolds
<1>3. CASE UNCHANGED <<sched, mail>>
  BY <1>3, NothingForIpc, MailUnchanged DEF State
<1>4. CASE /\ bank # NULL /\ sched' = Boot(sched, bank, p)
           /\ mail' = [mail EXCEPT !.inHead[bank] = NULL, !.inTail[bank] = NULL,
                                   !.outbox[bank] = NULL]
  <2>1. bank \in Slots /\ State(bank) = "FREE"
    <3> DEFINE F == Freed
    <3>1. IsList(Slots, sched.next, NULL, bank, F)
      BY DEF KernelInv, BankHolds
    <3> HIDE DEF F
    <3>2. bank \in F
      BY <1>4, <3>1, NoNull, ListFacts
    <3> QED BY <3>2 DEF F, Freed
  <2>2. mail.inHead[bank] = NULL
    BY <1>1, <1>2, <2>1, NoNull DEF MailWith, HoldersSound, State
  <2>3. sched'.state = [sched.state EXCEPT ![bank] = "READY"]
    BY <1>1, <1>4, <2>1, BootState
  <2>4. \A t \in Slots : State(t)' = IF t = bank THEN "READY" ELSE State(t)
    BY <1>1, <2>3 DEF State
  <2>5. \A t \in Slots : PhaseOf(t)' = IF t = bank THEN "up" ELSE PhaseOf(t)
    BY <2>4, PhasesNext
  <2>6. \A t \in Slots : InboxOf(t)' = InboxOf(t)
    <3> DEFINE F == {}
    <3>1. mail'.inHead = mail.inHead /\ mail'.next = mail.next /\ mail'.sender = mail.sender
      BY <1>1, <1>4, <2>2 DEF Mail
    <3>2. /\ \A r \in Slots : F \cap box[r] = {}
          /\ \A y \in Envelopes \ F : mail'.next[y] = mail.next[y] /\ mail'.sender[y] = mail.sender[y]
      BY <3>1
    <3> HIDE DEF F
    <3>3. \A t \in Slots : Resting(mail, mail', t, box, F)
      BY <3>1, <3>2 DEF Resting
    <3> QED BY <1>1, <1>2, <3>3, InboxesRest
  <2>7. PhaseOf(bank) = "none" /\ InboxOf(bank) = <<>>
    BY <2>1, <2>2, Phases, EmptyInbox DEF InboxOf
  <2> QED BY <2>1, <2>5, <2>6, <2>7, Spawns
<1> QED BY <1>3, <1>4 DEF Create

(* destroyTaskD: the victim dies, its senders are told, and its envelope goes back. *)
LEMMA BeginIpc ==
  ASSUME TypeInv, KernelInv, pc = "user", NEW v \in Slots,
         State(v) \in {"ACTIVE", "READY", "SEND_BL", "REPL_BL"}, BeginDestroy(v)
  PROVE  Promise!IpcNext
<1> DEFINE q == WakeWaiters(v)
           w == waitQueue[v]
           r == Condemned(q, v)
<1>1. /\ q \in Scheduler /\ Queued(q)
      /\ w # NULL => w \in Slots /\ State(w) = "WAITTID_BL"
      /\ q.state = [t \in Slots |-> IF t = w THEN "READY" ELSE State(t)]
  BY WakeMoves
<1>2. w # v /\ \A t \in Slots : t = w => State(t) = "WAITTID_BL"
  BY <1>1, NoNull
<1>3. (q.state[v] = "READY" => CanUnlink(q, v)) /\ r.state = [q.state EXCEPT ![v] = "FREE"]
  <2> HIDE DEF q
  <2> QED BY <1>1, VictimMoves
<1>4. sched' = r /\ UNCHANGED mail
  BY <1>3 DEF BeginDestroy, Condemned, Cleared
<1> HIDE DEF q, r
<1>5. \A t \in Slots : State(t)' = IF t = v THEN "FREE" ELSE IF t = w THEN "READY" ELSE State(t)
  BY <1>1, <1>3, <1>4 DEF State
<1>6. \A t \in Slots : PhaseOf(t)' = IF t = v THEN "none" ELSE PhaseOf(t)
  <2>1. \A t \in Slots : t = w => PhaseOf(t)' = PhaseOf(t)
    BY <1>2, <1>5, PhaseKeeps DEF Awake
  <2> QED BY <1>2, <1>5, <2>1, PhasesNext
<1>7. PhaseOf(v) \in {"up", "receiving", "awaiting"}
  BY Phases
<1> QED BY <1>4, <1>6, <1>7, MailUnchanged, Dies

LEMMA DrainIpc ==
  ASSUME TypeInv, KernelInv, DrainInbox
  PROVE  Promise!IpcNext
<1> DEFINE v == victim
           e == mail.inHead[v]
           s == mail.sender[e]
<1>1. /\ v \in Slots /\ State(v) = "FREE" /\ sched \in Scheduler /\ mail \in Mail
      /\ sched.state \in [Slots -> TaskState] /\ e # NULL
  BY DEF DrainInbox, KernelInv, Draining, TypeInv, TypeOK, SlotPtr, Scheduler
<1>2. PICK box : MailWith(mail, sched.state, result, v, box)
  BY DEF KernelInv, MailHolds
<1>3. e \in Envelopes /\ s \in Slots /\ s # NULL
  BY <1>1, <1>2, FirstSender, NoNull
<1>4. /\ sched' = AddTask(sched, s)
      /\ mail' = [ReleaseEnvelope(mail, e) EXCEPT !.inHead[v] = mail.next[e], !.outbox[s] = NULL]
  BY <1>3 DEF DrainInbox
<1>5. /\ mail'.inHead = [mail.inHead EXCEPT ![v] = mail.next[e]] /\ mail'.sender = mail.sender
      /\ mail'.next = [mail.next EXCEPT ![e] = mail.free]
  BY <1>1, <1>4 DEF ReleaseEnvelope, Mail
<1>6. \A x \in Envelopes \ {e} : mail'.next[x] = mail.next[x]
  BY <1>1, <1>5 DEF Mail
<1> HIDE DEF v, s
<1>7. /\ InboxOf(v) # <<>> /\ Head(InboxOf(v)) = s
      /\ \A t \in Slots : InboxOf(t)' = IF t = v THEN Tail(InboxOf(t)) ELSE InboxOf(t)
  <2> HIDE DEF e
  <2>1. e = mail.inHead[v] /\ s = mail.sender[e]
    BY DEF e, s
  <2> QED BY <1>1, <1>2, <1>5, <1>6, <2>1, InboxAdvances
<1>8. sched'.state = [sched.state EXCEPT ![s] = "READY"]
  BY <1>1, <1>3, <1>4, AddTaskState
<1>9. \A t \in Slots : State(t)' = IF t = s THEN "READY" ELSE State(t)
  BY <1>1, <1>8 DEF State
<1>10. \A t \in Slots : PhaseOf(t)' = IF t = Head(InboxOf(v)) THEN "up" ELSE PhaseOf(t)
  BY <1>7, <1>9, PhasesNext
<1>11. PhaseOf(v) = "none" /\ Head(InboxOf(v)) \in Slots
  BY <1>1, <1>3, <1>7, Phases
<1> QED BY <1>1, <1>7, <1>10, <1>11, Bounces

LEMMA FinishIpc ==
  ASSUME TypeInv, KernelInv, FinishDestroy
  PROVE  UNCHANGED Promise!ipcVars
<1> DEFINE v == victim
           o == mail.outbox[v]
           F == {o}
<1>1. /\ v \in Slots /\ State(v) = "FREE" /\ sched \in Scheduler /\ mail \in Mail
  BY DEF FinishDestroy, KernelInv, Draining, TypeInv, TypeOK, SlotPtr
<1>2. PICK box : MailWith(mail, sched.state, result, v, box)
  BY DEF KernelInv, MailHolds
<1>3. /\ sched'.state = sched.state
      /\ mail'.inHead = mail.inHead /\ mail'.sender = mail.sender
      /\ mail'.next = IF o = NULL THEN mail.next ELSE [mail.next EXCEPT ![o] = mail.free]
  BY <1>1 DEF FinishDestroy, ReturnToBank, ReleaseEnvelope, Mail, Scheduler
<1>4. \A r \in Slots : F \cap box[r] = {}
  BY <1>1, <1>2, BoxedEnvelope DEF State
<1>5. \A y \in Envelopes \ F : mail'.next[y] = mail.next[y] /\ mail'.sender[y] = mail.sender[y]
  BY <1>1, <1>3 DEF Mail
<1> HIDE DEF v, o, F
<1>6. \A t \in Slots : Resting(mail, mail', t, box, F)
  BY <1>3, <1>4, <1>5 DEF Resting
<1>7. \A t \in Slots : InboxOf(t)' = InboxOf(t)
  BY <1>1, <1>2, <1>6, InboxesRest
<1> QED BY <1>3, <1>7, NothingForIpc DEF State

(* The kernel between the calls: tasks that run come and go. *)
LEMMA ScheduleIpc ==
  ASSUME TypeInv, KernelInv, Schedule
  PROVE  UNCHANGED Promise!ipcVars
<1> USE DEF TypeInv, TypeOK
<1> DEFINE active == current # NULL /\ State(current) = "ACTIVE"
           q      == IF active THEN AddTask(sched, current) ELSE sched
<1>1. Queued(sched)
  BY DEF KernelInv
<1>2. /\ q \in Scheduler /\ Queued(q)
      /\ \A t \in Slots : q.state[t] = State(t) \/ (State(t) = "ACTIVE" /\ q.state[t] = "READY")
  <2>1. CASE active
    <3>1. current \in Slots /\ sched.state[current] # "READY"
      BY <2>1 DEF SlotPtr, State
    <3>2. Moved(sched, q, current, "READY")
      BY <1>1, <2>1, <3>1, AddTaskMoves
    <3> HIDE DEF q
    <3> QED BY <2>1, <3>1, <3>2 DEF Moved, State, Scheduler
  <2>2. CASE ~active
    BY <1>1, <2>2 DEF State
  <2> QED BY <2>1, <2>2
<1> HIDE DEF q
<1>3. CASE UNCHANGED sched \/ sched' = q
  BY <1>2, <1>3, NothingForIpc, MailUnchanged DEF Schedule, State, Awake
<1>4. CASE q.highest # -1 /\ sched' = Dispatch(q)
  <2> DEFINE f == First(q)
             r == Dispatch(q)
  <2>1. Moved(q, r, f, "ACTIVE") /\ f \in Slots /\ q.state[f] = "READY"
    BY <1>2, <1>4, DispatchMoves
  <2> HIDE DEF f, r
  <2>2. sched' = r /\ q.state \in [Slots -> TaskState]
    BY <1>2, <1>4 DEF r, Scheduler
  <2>3. \A t \in Slots : State(t)' = IF t = f THEN "ACTIVE" ELSE q.state[t]
    BY <2>1, <2>2 DEF Moved, State
  <2>4. \A t \in Slots : State(t)' = State(t) \/ (State(t) \in Awake /\ State(t)' \in Awake)
    BY <1>2, <2>1, <2>3 DEF Awake
  <2> QED BY <2>4, NothingForIpc, MailUnchanged DEF Schedule
<1> QED BY <1>3, <1>4 DEF Schedule, q

(* Events, and waiting for a task to exit. *)
LEMMA OtherCallsIpc ==
  ASSUME TypeInv, KernelInv,
         \/ Pass \/ Terminate
         \/ \E x \in Tids : WaitTid(x) \/ DestroyDead(x)
         \/ \E e \in Events : Await(e) \/ Interrupt(e)
  PROVE  UNCHANGED Promise!ipcVars
<1>1. /\ current \in Slots /\ State(current) = "ACTIVE" /\ sched \in Scheduler
      /\ sched.state \in [Slots -> TaskState] /\ waiter \in [Events -> SlotPtr] /\ UNCHANGED mail
  BY Caller DEF Pass, Terminate, WaitTid, DestroyDead, Await, Interrupt, Calling, TypeInv, TypeOK
<1>2. SUFFICES \A t \in Slots : State(t)' = State(t) \/ (State(t) \in Awake /\ State(t)' \in Awake)
  BY <1>1, NothingForIpc, MailUnchanged
<1>3. CASE UNCHANGED sched
  BY <1>3 DEF State
<1>4. CASE \E x \in Tids : WaitTid(x)
  <2>1. sched'.state = [sched.state EXCEPT ![current] = "WAITTID_BL"]
    BY <1>1, <1>4 DEF WaitTid, Scheduler
  <2> QED BY <1>1, <2>1 DEF State, Awake
<1>5. CASE \E e \in Events : Await(e)
  <2>1. sched'.state = [sched.state EXCEPT ![current] = "EVENT_BL"]
    BY <1>1, <1>5, BlockState DEF Await
  <2> QED BY <1>1, <2>1 DEF State, Awake
<1>6. ASSUME NEW e \in Events, waiter[e] # NULL, sched' = AddTask(sched, waiter[e])
      PROVE  \A t \in Slots : State(t)' = State(t) \/ (State(t) \in Awake /\ State(t)' \in Awake)
  <2>1. waiter[e] \in Slots /\ State(waiter[e]) = "EVENT_BL"
    BY <1>1, <1>6 DEF SlotPtr, KernelInv, EventsHold, EventsSound
  <2>2. sched'.state = [sched.state EXCEPT ![waiter[e]] = "READY"]
    BY <1>1, <1>6, <2>1, AddTaskState
  <2> QED BY <1>1, <2>1, <2>2 DEF State, Awake
<1> QED BY <1>3, <1>4, <1>5, <1>6 DEF Pass, Terminate, DestroyDead, Interrupt

LEMMA InitialStates == Init => \A t \in Slots : State(t) \in {"READY", "FREE"}
<1> SUFFICES ASSUME Init PROVE \A t \in Slots : State(t) \in {"READY", "FREE"}
  OBVIOUS
<1> DEFINE q == InitialScheduler
           r == Boot(q, FirstTask, FirstPriority)
           lowest == 0
<1>1. /\ FirstTask \in Slots /\ NullTask \in Slots
      /\ FirstPriority \in 0 .. NumPriorities /\ lowest \in 0 .. NumPriorities
  BY DEF FirstTask, NullTask, Slots, Priorities
<1>2. q \in Scheduler /\ Queued(q) /\ q.state = [t \in Slots |-> "FREE"]
  BY InitialSchedulerType, InitialQueued DEF InitialScheduler
<1> HIDE DEF q
<1>3. r \in Scheduler /\ r.state = [q.state EXCEPT ![FirstTask] = "READY"]
  BY <1>1, <1>2, BootMoves
<1>4. sched = Boot(r, NullTask, lowest)
  BY DEF Init, q
<1> HIDE DEF r, lowest
<1>5. sched.state = [r.state EXCEPT ![NullTask] = "READY"]
  BY <1>1, <1>3, <1>4, BootState
<1> QED BY <1>2, <1>3, <1>5 DEF State

(* Messages are received once, in the order of the Sends, and every sender is
   answered or told that its receiver died: each step of sys_send, sys_recv,
   sys_reply, createTaskD and destroyTaskD is a step of Ipc, the other calls are
   none, for any number of tasks and envelopes. *)
THEOREM ImplementsIpcCorrect == CleanHabits => (Spec => ImplementsIpc)
<1> SUFFICES ASSUME CleanHabits PROVE Spec => ImplementsIpc
  OBVIOUS
<1>1. Init => Promise!IpcInit
  <2> SUFFICES ASSUME Init PROVE Promise!IpcInit
    OBVIOUS
  <2>1. TypeInv /\ KernelInv
    BY InitTypeInv, InitKernelInv
  <2> DEFINE S == {t \in Slots : PhaseOf(t) = "up"}
  <2>2. \A t \in Slots : PhaseOf(t) \in {"up", "none"}
    BY InitialStates, Phases
  <2>3. \A t \in Slots : InboxOf(t) = <<>>
    <3>1. \A t \in Slots : mail.inHead[t] = NULL
      BY DEF Init
    <3> QED BY <3>1, EmptyInbox DEF InboxOf
  <2>4. S \in SUBSET Slots /\ \A t \in Slots : PhaseOf(t) = IF t \in S THEN "up" ELSE "none"
    BY <2>2
  <2> HIDE DEF S
  <2> QED BY <2>3, <2>4 DEF Promise!IpcInit
<1>2. TypeInv /\ KernelInv /\ [Next]_vars => [Promise!IpcNext]_Promise!ipcVars
  <2> SUFFICES ASSUME TypeInv, KernelInv, [Next]_vars PROVE [Promise!IpcNext]_Promise!ipcVars
    OBVIOUS
  <2>1. CASE UNCHANGED vars
    BY <2>1, NothingForIpc, MailUnchanged DEF vars, State
  <2>2. CASE Next
    <3>1. CASE Schedule \/ FinishDestroy
      BY <3>1, ScheduleIpc, FinishIpc
    <3>2. CASE \E p \in 0 .. NumPriorities : Create(p)
      BY <3>2, CreateIpc
    <3>3. CASE Receive \/ DrainInbox
      BY <3>3, ReceiveIpc, DrainIpc
    <3>4. CASE \E x \in Tids : Send(x) \/ Reply(x)
      BY <3>4, SendIpc, ReplyIpc
    <3>5. CASE \E x \in Tids : Destroy(x)
      <4>1. PICK x \in Tids : Destroy(x)
        BY <3>5
      <4>2. /\ pc = "user" /\ TaskOf(x) \in Slots /\ BeginDestroy(TaskOf(x))
            /\ State(TaskOf(x)) \in {"READY", "SEND_BL", "REPL_BL"}
        BY <4>1, TaskOfType DEF Destroy, Calling, SlotPtr, CleanHabits
      <4> QED BY <4>2, BeginIpc
    <3>6. CASE Exit
      <4>1. pc = "user" /\ current \in Slots /\ State(current) = "ACTIVE" /\ BeginDestroy(current)
        BY <3>6, Caller DEF Exit, Calling
      <4> QED BY <4>1, BeginIpc
    <3>7. CASE \/ Pass \/ Terminate
               \/ \E x \in Tids : WaitTid(x) \/ DestroyDead(x)
               \/ \E e \in Events : Await(e) \/ Interrupt(e)
      BY <3>7, OtherCallsIpc
    <3> QED BY <2>2, <3>1, <3>2, <3>3, <3>4, <3>5, <3>6, <3>7 DEF Next
  <2> QED BY <2>1, <2>2
<1> QED BY <1>1, <1>2, TypeInvariant, KernelInvariant, PTL DEF Spec, ImplementsIpc, Promise!IpcSpec
=============================================================================
