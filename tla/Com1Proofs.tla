------------------------------ MODULE Com1Proofs ------------------------------
(* Theorems about Com1, for every number of writers, any bytes and commands,
   every size of the rings and of an answer, and every bound on what is sent. *)
EXTENDS Com1, Facts

(* How many of them are the poll. *)
Polled(s) == HowMany(s, {Poll})
Requests  == [from : Writers \cup {Xmt}, buf : Seq(Bytes)]
AsPoll    == [from : Writers \cup {Xmt}, buf : {<<Poll>>}]

(* The handler has a byte only when it is about to put it, the register one only
   until the handler has found it empty, and the handler asks once at a time. *)
ByteInOnePlace ==
  /\ ch # <<>> => xmt = "put"
  /\ holding # <<>> => xmt \in {"put done", "CTS high", "event CTS drop", "idle", "event XMT"}

AskedOnce ==
  /\ reading => xmt = "asked"
  /\ \A i \in DOMAIN outbox :
       outbox[i].from = Xmt =>
         /\ xmt = "asked" /\ ~reading
         /\ outbox[i].buf = <<>>
         /\ \A j \in DOMAIN outbox : outbox[j].from = Xmt => j = i

(* What is written is a poll, or has none. *)
WholeMessages ==
  \A i \in DOMAIN outbox : outbox[i].buf = <<Poll>> \/ outbox[i].buf \in Seq(Bytes \ {Poll})

(* On a slow line the handler, the controller and CTS go round together. *)
Quiet == holding = <<>> /\ line = <<>>

InBeat ==
  \/ /\ xmt \in {"idle", "event XMT", "check", "CTS low", "event CTS"} /\ Quiet /\ ~changed
     /\ controller = IF cts THEN "ready" ELSE "busy"
  \/ xmt \in {"CTS low", "event CTS"} /\ Quiet /\ changed /\ cts /\ controller = "ready"
  \/ xmt \in {"ask", "asked", "put"} /\ Quiet /\ ~changed /\ cts /\ controller = "ready"
  \/ /\ xmt \in {"put done", "CTS high", "event CTS drop"} /\ ~changed /\ cts
     /\ \/ controller = "ready" /\ (holding = <<>> \/ line = <<>>)
        \/ controller = "received" /\ Quiet
  \/ xmt \in {"CTS high", "event CTS drop"} /\ Quiet /\ changed /\ ~cts /\ controller = "busy"

OutInv ==
  /\ OutTypeOK
  /\ slow \in BOOLEAN /\ overrun \in BOOLEAN /\ controller \in {"ready", "received", "busy"}
  /\ wire \in Seq(Bytes) /\ accepted \in Seq(Bytes)
  /\ ByteInOnePlace /\ AskedOnce /\ WholeMessages
  /\ slow => InBeat /\ ~overrun
  /\ NothingLost

(* Messages to the InputServer, and whom it remembers: one of each kind at a time. *)
Sent(type) == \E i \in DOMAIN inbox : inbox[i] = type

OneMessageEach ==
  /\ \A i, j \in DOMAIN inbox : inbox[i] = inbox[j] => i = j
  /\ Sent("WRITE") => rcv = "waiting"
  /\ Sent("READ") => reader = "waiting" /\ ~waiter
  /\ waiter => reader = "waiting"

(* What the handler brings, and what the server is to copy, is a byte. *)
ByteToCopy == rcv \in {"woken", "waiting"} \/ copying => Len(rcvBuf) = 1

-----------------------------------------------------------------------------
(* A sequence of one element, and a short one. *)
LEMMA JustOne ==
  ASSUME NEW S, NEW s \in Seq(S), Len(s) = 1
  PROVE  s = <<s[1]>> /\ s[1] \in S
<1>1. s[1] \in S
  BY ElementOfSeq
<1> QED BY <1>1

LEMMA AtMostOne ==
  ASSUME NEW S, NEW s \in Seq(S), Len(s) <= 1
  PROVE  s = <<>> \/ (s = <<s[1]>> /\ s[1] \in S /\ Len(s) = 1)
<1> DEFINE n == Len(s)
<1>1. n \in Nat /\ (s = <<>> <=> n = 0) /\ n <= 1
  BY LenProperties, EmptySeq
<1>2. n = 1 => s = <<s[1]>> /\ s[1] \in S
  BY JustOne
<1>3. s = <<>> \/ n = 1
  <2> HIDE DEF n
  <2> QED BY <1>1
<1> QED BY <1>2, <1>3

(* Reading one element of a ring splits it. *)
LEMMA ReadOne ==
  ASSUME NEW S, NEW s \in Seq(S)
  PROVE  /\ ReadOf(s, 1) \in Seq(S) /\ RestOf(s, 1) \in Seq(S)
         /\ ReadOf(s, 1) \o RestOf(s, 1) = s
         /\ s = <<>> => ReadOf(s, 1) = <<>> /\ RestOf(s, 1) = <<>>
         /\ s # <<>> => Len(ReadOf(s, 1)) = 1 /\ Len(RestOf(s, 1)) = Len(s) - 1
<1>1. Len(s) \in Nat /\ (s = <<>> <=> Len(s) = 0)
  BY LenProperties, EmptySeq
<1>2. CASE s = <<>>
  <2>1. Least(1, Len(s)) = 0
    BY <1>1, <1>2 DEF Least
  <2>2. ReadOf(s, 1) = SubSeq(s, 1, 0) /\ RestOf(s, 1) = SubSeq(s, 1, 0)
    BY <1>1, <1>2, <2>1 DEF ReadOf, RestOf
  <2>3. SubSeq(s, 1, 0) = <<>>
    BY SubSeqEmpty
  <2> QED BY <1>2, <2>2, <2>3
<1>3. CASE s # <<>>
  <2>1. Least(1, Len(s)) = 1
    <3> DEFINE n == Len(s)
    <3>1. n \in Nat /\ n # 0
      BY <1>1, <1>3
    <3> HIDE DEF n
    <3>2. Least(1, n) = 1
      BY <3>1 DEF Least
    <3> QED BY <3>2 DEF n
  <2>2. ReadOf(s, 1) = SubSeq(s, 1, 1) /\ RestOf(s, 1) = SubSeq(s, 2, Len(s))
    BY <2>1 DEF ReadOf, RestOf
  <2>3. /\ Tail(s) \in Seq(S) /\ Len(Tail(s)) = Len(s) - 1 /\ Head(s) \in S
        /\ SubSeq(s, 2, Len(s)) = Tail(s)
    BY <1>3, HeadTailProperties, TailIsSubSeq
  <2>4. s = <<Head(s)>> \o Tail(s)
    BY <1>3, HeadTailAppend
  <2>5. Head(s) = s[1] /\ s[1] \in S
    BY <1>3, <2>3
  <2>6. SubSeq(s, 1, 1) = <<s[1]>>
    <3> DEFINE t == SubSeq(s, 1, 1)
    <3>1. t \in Seq(S) /\ Len(t) = 1 /\ t[1] = s[1]
      BY <2>5, SubSeqProperties
    <3> HIDE DEF t
    <3>2. t = <<s[1]>>
      BY <3>1, JustOne
    <3> QED BY <3>2 DEF t
  <2>7. ReadOf(s, 1) = <<Head(s)>> /\ RestOf(s, 1) = Tail(s)
    BY <2>2, <2>3, <2>5, <2>6
  <2>8. <<Head(s)>> \in Seq(S) /\ Len(<<Head(s)>>) = 1
    BY <2>3
  <2>9. /\ ReadOf(s, 1) \in Seq(S) /\ Len(ReadOf(s, 1)) = 1
        /\ RestOf(s, 1) \in Seq(S) /\ Len(RestOf(s, 1)) = Len(s) - 1
    BY <2>3, <2>7, <2>8
  <2>10. ReadOf(s, 1) \o RestOf(s, 1) = s
    BY <2>4, <2>7
  <2> QED BY <1>3, <2>9, <2>10
<1>4. ReadOf(s, 1) \o RestOf(s, 1) = s
  BY <1>2, <1>3
<1> QED BY <1>2, <1>3, <1>4
-----------------------------------------------------------------------------
(* The way out.  First the steps that move no byte. *)
LEMMA InitOut == Init => OutInv
<1> SUFFICES ASSUME Init PROVE OutInv
  OBVIOUS
<1>1. OutTypeOK
  <2>1. /\ ring = <<>> /\ ch = <<>> /\ holding = <<>> /\ line = <<>> /\ outbox = <<>>
        /\ writer = [w \in Writers |-> "running"] /\ xmt = "idle"
        /\ reading = FALSE /\ panicked = FALSE
        /\ tien = FALSE /\ msien = FALSE /\ cts = TRUE /\ changed = FALSE
    BY DEF Init, OutInit
  <2>2. \A S : <<>> \in Seq(S)
    OBVIOUS
  <2>3. Len(ring) <= OutCapacity /\ \A s \in {ch, holding, line} : s \in Seq(Bytes) /\ Len(s) <= 1
    BY <2>1, <2>2, Com1Assumption
  <2>4. xmt \in Places /\ {tien, msien, cts, changed} \subseteq BOOLEAN
    BY <2>1 DEF Places
  <2>5. writer \in [Writers -> {"running", "waiting"}]
    BY <2>1
  <2> QED BY <2>1, <2>2, <2>3, <2>4, <2>5 DEF OutTypeOK
<1>2. ByteInOnePlace /\ AskedOnce /\ WholeMessages /\ InBeat /\ ~overrun
  BY DEF Init, OutInit, ByteInOnePlace, AskedOnce, WholeMessages, InBeat, Quiet
<1>3. NothingLost
  BY DEF Init, OutInit, NothingLost
<1>4. /\ slow \in BOOLEAN /\ overrun \in BOOLEAN /\ controller \in {"ready", "received", "busy"}
      /\ wire = <<>> /\ accepted = <<>>
  BY DEF Init
<1>5. wire \in Seq(Bytes) /\ accepted \in Seq(Bytes)
  BY <1>4
<1> QED BY <1>1, <1>2, <1>3, <1>4, <1>5 DEF OutInv

LEMMA NoByteMoves ==
  ASSUME OutInv, ~panicked, UNCHANGED <<serverVars, holding, line, lineVars, ch, accepted>>,
         {tien', msien', cts', changed'} \subseteq BOOLEAN, xmt' \in Places,
         ByteInOnePlace', xmt = "asked" <=> xmt' = "asked", slow => InBeat'
  PROVE  OutInv'
<1>1. OutTypeOK'
  BY DEF OutInv, OutTypeOK, serverVars
<1>2. AskedOnce' /\ WholeMessages'
  BY DEF OutInv, AskedOnce, WholeMessages, serverVars
<1>3. NothingLost'
  BY DEF OutInv, NothingLost, serverVars, lineVars
<1> QED BY <1>1, <1>2, <1>3 DEF OutInv, lineVars

LEMMA HandlerOut ==
  ASSUME OutInv,
         \/ OutStep(Same(AwaitXmt)) \/ OutStep(Same(CheckCts)) \/ OutStep(Same(CheckDrop))
         \/ OutStep(Same(AwaitRaise)) \/ OutStep(Same(AwaitDrop))
  PROVE  OutInv'
<1> USE DEF OutStep, Same, AwaitXmt, CheckCts, CheckDrop, AwaitRaise, AwaitDrop, AwaitCts, uartVars
<1>1. /\ ~panicked
      /\ UNCHANGED <<serverVars, holding, line, lineVars, ch, accepted, cts, changed>>
  OBVIOUS
<1>2. /\ {tien', msien', cts', changed'} \subseteq BOOLEAN /\ xmt' \in Places
      /\ ~(xmt = "asked") /\ ~(xmt' = "asked")
  BY <1>1 DEF HandlerGoes, DropSeen, OutInv, OutTypeOK, Places
<1>3. ByteInOnePlace'
  BY <1>1 DEF HandlerGoes, DropSeen, OutInv, ByteInOnePlace
<1>4. ASSUME slow PROVE InBeat'
  BY <1>1, <1>4 DEF HandlerGoes, DropSeen, OutInv, InBeat, Quiet, lineVars
<1> QED BY <1>1, <1>2, <1>3, <1>4, NoByteMoves

LEMMA InterruptOut ==
  ASSUME OutInv,
         OutStep(Same(~RxPending /\ TxInterrupt)) \/ OutStep(Same(~RxPending /\ ModInterrupt))
  PROVE  OutInv'
<1>1. ~panicked /\ UNCHANGED <<serverVars, holding, line, lineVars, ch, accepted, cts>>
  BY DEF OutStep, Same, TxInterrupt, ModInterrupt
<1>2. /\ {tien', msien', cts', changed'} \subseteq BOOLEAN /\ xmt' \in Places
      /\ xmt = "asked" <=> xmt' = "asked"
  BY <1>1 DEF OutStep, Same, TxInterrupt, ModInterrupt, OutInv, OutTypeOK, Places
<1>3. ByteInOnePlace'
  BY <1>1 DEF OutStep, Same, TxInterrupt, TxPending, ModInterrupt, OutInv, ByteInOnePlace
<1>4. ASSUME slow PROVE InBeat'
  BY <1>1, <1>4 DEF OutStep, Same, TxInterrupt, TxPending, ModInterrupt, OutInv, InBeat, Quiet, lineVars
<1> QED BY <1>1, <1>2, <1>3, <1>4, NoByteMoves

LEMMA CtsOut ==
  ASSUME OutInv, DropCts \/ RaiseCts
  PROVE  OutInv'
<1>1. /\ ~panicked /\ UNCHANGED <<serverVars, holding, line, ch, accepted, tien, msien, xmt>>
      /\ UNCHANGED <<slow, overrun, wire>>
  BY DEF DropCts, RaiseCts, Cts
<1>2. OutTypeOK' /\ controller' \in {"ready", "received", "busy"}
  BY <1>1 DEF DropCts, RaiseCts, Cts, OutInv, OutTypeOK, serverVars
<1>3. AskedOnce' /\ WholeMessages' /\ ByteInOnePlace'
  BY <1>1 DEF OutInv, AskedOnce, WholeMessages, ByteInOnePlace, serverVars
<1>4. ASSUME slow PROVE InBeat'
  BY <1>1, <1>4 DEF DropCts, RaiseCts, Cts, OutInv, InBeat, Quiet
<1>5. NothingLost'
  BY <1>1 DEF OutInv, NothingLost, serverVars
<1> QED BY <1>1, <1>2, <1>3, <1>4, <1>5 DEF OutInv
-----------------------------------------------------------------------------
(* Messages to the OutputServer. *)
LEMMA PutcnOut ==
  ASSUME OutInv, NEW w \in Writers, NEW buf \in Seq(Bytes), Putcn(w, buf),
         buf = <<Poll>> \/ buf \in Seq(Bytes \ {Poll}), UNCHANGED <<lineVars, accepted>>
  PROVE  OutInv'
<1> DEFINE m == [from |-> w, buf |-> buf]
<1>1. m \in Requests /\ m.from = w /\ m.buf = buf /\ w # Xmt
  BY Com1Assumption DEF Requests
<1>2. outbox \in Seq(Requests) /\ outbox' = Append(outbox, m)
  BY DEF OutInv, OutTypeOK, Requests, Putcn
<1>3. UNCHANGED <<ring, reading, panicked, uartVars, xmt, ch>>
  BY DEF Putcn
<1> HIDE DEF m
<1>4. /\ outbox' \in Seq(Requests)
      /\ DOMAIN outbox' = 1 .. Len(outbox) + 1 /\ DOMAIN outbox = 1 .. Len(outbox) /\ Len(outbox) \in Nat
      /\ \A i \in 1 .. Len(outbox) : outbox'[i] = outbox[i]
      /\ outbox'[Len(outbox) + 1] = m
  BY <1>1, <1>2, Appended
<1>5. \A i \in DOMAIN outbox' :
        (i \in DOMAIN outbox /\ outbox'[i] = outbox[i]) \/ outbox'[i] = m
  BY <1>4
<1>6. AskedOnce'
  BY <1>1, <1>3, <1>5 DEF OutInv, AskedOnce
<1>7. WholeMessages'
  BY <1>1, <1>5 DEF OutInv, WholeMessages
<1>8. OutTypeOK'
  <2>1. writer' \in [Writers -> {"running", "waiting"}]
    BY DEF OutInv, OutTypeOK, Putcn
  <2> QED BY <1>3, <1>4, <2>1 DEF OutInv, OutTypeOK, Requests, uartVars
<1>9. ByteInOnePlace' /\ NothingLost' /\ (slow => InBeat')
  BY <1>3 DEF OutInv, ByteInOnePlace, NothingLost, InBeat, Quiet, uartVars, lineVars
<1> QED BY <1>6, <1>7, <1>8, <1>9 DEF OutInv, lineVars

LEMMA CommandBytes == Command \in Seq(Bytes)
<1>1. Seq(Bytes \ {Poll}) \subseteq Seq(Bytes)
  BY SeqMonotonic
<1> QED BY <1>1, Com1Assumption

LEMMA WritesOut ==
  ASSUME OutInv, PollSensors \/ SendCommand
  PROVE  OutInv'
<1>1. CASE PollSensors
  <2>1. Slave \in Writers /\ <<Poll>> \in Seq(Bytes)
    BY Com1Assumption
  <2>2. Putcn(Slave, <<Poll>>) /\ UNCHANGED <<lineVars, accepted>>
    BY <1>1 DEF PollSensors
  <2> QED BY <2>1, <2>2, PutcnOut
<1>2. CASE SendCommand
  <2>1. PICK w \in Writers : Putcn(w, Command)
    BY <1>2 DEF SendCommand
  <2>2. UNCHANGED <<lineVars, accepted>>
    BY <1>2 DEF SendCommand
  <2> QED BY <2>1, <2>2, CommandBytes, Com1Assumption, PutcnOut
<1> QED BY <1>1, <1>2

LEMMA AskOut ==
  ASSUME OutInv, OutStep(Same(Ask))
  PROVE  OutInv'
<1> DEFINE m == [from |-> Xmt, buf |-> <<>>]
<1>1. m \in Requests /\ m.from = Xmt /\ m.buf = <<>> /\ m.buf \in Seq(Bytes \ {Poll})
  BY DEF Requests
<1>2. /\ outbox \in Seq(Requests) /\ outbox' = Append(outbox, m)
      /\ xmt = "ask" /\ xmt' = "asked"
      /\ UNCHANGED <<ring, reading, writer, panicked, uartVars, ch, lineVars, accepted>>
  BY DEF OutInv, OutTypeOK, Requests, OutStep, Same, Ask, HandlerGoes
<1> HIDE DEF m
<1>3. /\ outbox' \in Seq(Requests)
      /\ DOMAIN outbox' = 1 .. Len(outbox) + 1 /\ DOMAIN outbox = 1 .. Len(outbox) /\ Len(outbox) \in Nat
      /\ \A i \in 1 .. Len(outbox) : outbox'[i] = outbox[i]
      /\ outbox'[Len(outbox) + 1] = m
  BY <1>1, <1>2, Appended
<1>4. \A i \in DOMAIN outbox' :
        \/ i \in DOMAIN outbox /\ outbox'[i] = outbox[i]
        \/ i = Len(outbox) + 1 /\ outbox'[i] = m
  BY <1>3
<1>5. ~reading /\ \A i \in DOMAIN outbox : outbox[i].from # Xmt
  BY <1>2 DEF OutInv, AskedOnce
<1>6. AskedOnce'
  BY <1>1, <1>2, <1>4, <1>5 DEF AskedOnce
<1>7. WholeMessages'
  BY <1>1, <1>4 DEF OutInv, WholeMessages
<1>8. OutTypeOK'
  <2>1. xmt' \in Places
    BY <1>2 DEF Places
  <2>2. UNCHANGED <<ring, reading, writer, panicked, ch, holding, line, tien, msien, cts, changed>>
    BY <1>2 DEF uartVars
  <2> QED BY <1>3, <2>1, <2>2 DEF OutInv, OutTypeOK, Requests
<1>9. ByteInOnePlace' /\ NothingLost' /\ (slow => InBeat')
  BY <1>2 DEF OutInv, ByteInOnePlace, NothingLost, InBeat, Quiet, uartVars, lineVars
<1> QED BY <1>2, <1>6, <1>7, <1>8, <1>9 DEF OutInv, lineVars
-----------------------------------------------------------------------------
(* A byte moves on, by the handler, the UART and the line. *)
LEMMA Bytewise ==
  ASSUME OutInv
  PROVE  /\ wire \in Seq(Bytes) /\ line \in Seq(Bytes) /\ holding \in Seq(Bytes)
         /\ ch \in Seq(Bytes) /\ ring \in Seq(Bytes) /\ accepted \in Seq(Bytes)
         /\ Len(line) <= 1 /\ Len(holding) <= 1 /\ Len(ch) <= 1
BY DEF OutInv, OutTypeOK

LEMMA PutOut ==
  ASSUME OutInv, OutStep(Same(Put))
  PROVE  OutInv'
<1>1. /\ xmt = "put" /\ xmt' = "put done" /\ holding' = ch /\ ch' = <<>>
      /\ UNCHANGED <<serverVars, tien, msien, line, cts, changed, lineVars, accepted>>
  BY DEF OutStep, Same, Put, HandlerGoes
<1>2. holding = <<>>
  BY <1>1 DEF OutInv, ByteInOnePlace
<1>3. OutTypeOK'
  <2>1. xmt' \in Places
    BY <1>1 DEF Places
  <2>2. <<>> \in Seq(Bytes) /\ Len(<<>>) <= 1
    OBVIOUS
  <2>3. \A s \in {ch', holding', line'} : s \in Seq(Bytes) /\ Len(s) <= 1
    BY <1>1, <2>2, Bytewise
  <2> QED BY <1>1, <2>1, <2>3 DEF OutInv, OutTypeOK, serverVars
<1>4. ByteInOnePlace'
  BY <1>1 DEF ByteInOnePlace
<1>5. AskedOnce' /\ WholeMessages'
  BY <1>1 DEF OutInv, AskedOnce, WholeMessages, serverVars
<1>6. slow => InBeat'
  BY <1>1 DEF OutInv, InBeat, Quiet, lineVars
<1>7. NothingLost'
  <2>1. wire \o line \in Seq(Bytes) /\ (wire \o line) \o ch \in Seq(Bytes)
    BY Bytewise, ConcatProperties
  <2>2. (wire \o line) \o <<>> = wire \o line /\ ((wire \o line) \o ch) \o <<>> = (wire \o line) \o ch
    BY <2>1, ConcatEmptySeq
  <2> QED BY <1>1, <1>2, <2>2 DEF OutInv, NothingLost, serverVars, lineVars
<1> QED BY <1>1, <1>3, <1>4, <1>5, <1>6, <1>7 DEF OutInv, lineVars

LEMMA ShiftOut ==
  ASSUME OutInv, OutStep(Same(Shift))
  PROVE  OutInv'
<1>1. /\ line = <<>> /\ line' = holding /\ holding # <<>> /\ holding' = <<>>
      /\ UNCHANGED <<serverVars, tien, msien, cts, changed, xmt, ch, lineVars, accepted>>
  BY DEF OutStep, Same, Shift
<1>2. OutTypeOK'
  BY <1>1 DEF OutInv, OutTypeOK, serverVars
<1>3. ByteInOnePlace' /\ AskedOnce' /\ WholeMessages'
  BY <1>1 DEF OutInv, ByteInOnePlace, AskedOnce, WholeMessages, serverVars
<1>4. slow => InBeat'
  BY <1>1 DEF OutInv, InBeat, Quiet, lineVars
<1>5. NothingLost'
  <2>1. wire \o holding \in Seq(Bytes)
    BY Bytewise, ConcatProperties
  <2>2. wire \o <<>> = wire /\ (wire \o holding) \o <<>> = wire \o holding
    BY <2>1, Bytewise, ConcatEmptySeq
  <2> QED BY <1>1, <2>2 DEF OutInv, NothingLost, serverVars, lineVars
<1> QED BY <1>1, <1>2, <1>3, <1>4, <1>5 DEF OutInv, lineVars

LEMMA ArriveOut ==
  ASSUME OutInv, Arrive
  PROVE  OutInv'
<1>1. /\ line # <<>> /\ line' = <<>> /\ wire' = wire \o line
      /\ overrun' = (overrun \/ controller # "ready")
      /\ controller' = IF controller = "ready" THEN "received" ELSE controller
      /\ UNCHANGED <<serverVars, tien, msien, holding, cts, changed, xmt, ch, slow, accepted>>
  BY DEF Arrive
<1>2. wire' \in Seq(Bytes) /\ OutTypeOK'
  <2>1. wire \o line \in Seq(Bytes)
    BY Bytewise, ConcatProperties
  <2> QED BY <1>1, <2>1 DEF OutInv, OutTypeOK, serverVars
<1>3. ByteInOnePlace' /\ AskedOnce' /\ WholeMessages'
  BY <1>1 DEF OutInv, ByteInOnePlace, AskedOnce, WholeMessages, serverVars
<1>4. slow => InBeat' /\ ~overrun'
  BY <1>1 DEF OutInv, InBeat, Quiet
<1>5. NothingLost'
  <2>1. wire \o line \in Seq(Bytes)
    BY Bytewise, ConcatProperties
  <2>2. (wire \o line) \o <<>> = wire \o line
    BY <2>1, ConcatEmptySeq
  <2> QED BY <1>1, <2>2 DEF OutInv, NothingLost, serverVars
<1>6. overrun' \in BOOLEAN /\ controller' \in {"ready", "received", "busy"} /\ accepted' \in Seq(Bytes)
  BY <1>1 DEF OutInv
<1> QED BY <1>1, <1>2, <1>3, <1>4, <1>5, <1>6 DEF OutInv
-----------------------------------------------------------------------------
(* The server hands over a byte, when it is asked and when it is written to: in
   both cases the handler has none, as it has asked. *)
LEMMA HeadTaken ==
  ASSUME OutInv, outbox # <<>>, outbox' = Tail(outbox)
  PROVE  /\ Head(outbox) \in Requests /\ Head(outbox) = outbox[1] /\ 1 \in DOMAIN outbox
         /\ outbox' \in Seq(Requests) /\ Len(outbox) \in Nat \ {0}
         /\ DOMAIN outbox' = 1 .. Len(outbox) - 1 /\ DOMAIN outbox = 1 .. Len(outbox)
         /\ \A i \in DOMAIN outbox' : i + 1 \in DOMAIN outbox /\ outbox'[i] = outbox[i + 1]
<1>1. outbox \in Seq(Requests)
  BY DEF OutInv, OutTypeOK, Requests
<1>2. /\ Tail(outbox) \in Seq(Requests) /\ Len(Tail(outbox)) = Len(outbox) - 1
      /\ DOMAIN Tail(outbox) = 1 .. Len(outbox) - 1 /\ DOMAIN outbox = 1 .. Len(outbox)
      /\ Len(outbox) \in Nat \ {0}
      /\ \A i \in 1 .. Len(outbox) - 1 : Tail(outbox)[i] = outbox[i + 1]
      /\ Head(outbox) = outbox[1] /\ outbox[1] \in Requests
  BY <1>1, Tailed
<1>3. \A i \in DOMAIN outbox' : i + 1 \in DOMAIN outbox /\ outbox'[i] = outbox[i + 1]
  BY <1>2
<1> QED BY <1>2, <1>3

LEMMA ReadThenRest ==
  ASSUME NEW S, NEW before \in Seq(S), NEW full \in Seq(S)
  PROVE  (before \o ReadOf(full, 1)) \o RestOf(full, 1) = before \o full
<1> DEFINE a == ReadOf(full, 1)
           b == RestOf(full, 1)
<1>1. a \in Seq(S) /\ b \in Seq(S)
  BY ReadOne
<1>2. a \o b = full
  BY ReadOne
<1> HIDE DEF a, b
<1>3. (before \o a) \o b = before \o (a \o b)
  BY <1>1, ConcatAssociative, SMTT(30)
<1>4. (before \o a) \o b = before \o full
  BY <1>2, <1>3
<1> QED BY <1>4 DEF a, b

LEMMA ReplyOut ==
  ASSUME OutInv, NEW full \in Seq(Bytes), Len(full) <= OutCapacity,
         outbox # <<>>, outbox' = Tail(outbox), xmt = "asked",
         \A i \in DOMAIN outbox' : outbox'[i].from # Xmt,
         Reply(ReadOf(full, 1), RestOf(full, 1)), reading' = FALSE,
         writer' \in [Writers -> {"running", "waiting"}],
         UNCHANGED <<panicked, uartVars, lineVars>>,
         accepted' \in Seq(Bytes), accepted' = wire \o line \o holding \o full
  PROVE  OutInv'
<1>1. /\ ReadOf(full, 1) \in Seq(Bytes) /\ RestOf(full, 1) \in Seq(Bytes)
      /\ ReadOf(full, 1) \o RestOf(full, 1) = full
      /\ full = <<>> => ReadOf(full, 1) = <<>> /\ RestOf(full, 1) = <<>>
      /\ full # <<>> => Len(ReadOf(full, 1)) = 1 /\ Len(RestOf(full, 1)) = Len(full) - 1
  BY ReadOne
<1>2. /\ ch' = ReadOf(full, 1) /\ ring' = RestOf(full, 1) /\ xmt' = "put"
  BY DEF Reply
<1>3. OutTypeOK'
  <2>1. outbox' \in Seq(Requests)
    BY HeadTaken
  <2>2. Len(ch') <= 1 /\ Len(ring') <= OutCapacity
    <3>1. Len(full) \in Nat /\ OutCapacity \in Nat
      BY LenProperties, Com1Assumption
    <3>2. CASE full = <<>>
      BY <1>1, <1>2, <3>1, <3>2
    <3>3. CASE full # <<>>
      <4> DEFINE n == Len(full)
      <4>1. Len(ch') = 1 /\ Len(ring') = n - 1 /\ n \in Nat /\ n <= OutCapacity
        BY <1>1, <1>2, <3>1, <3>3
      <4> HIDE DEF n
      <4> QED BY <3>1, <4>1
    <3> QED BY <3>2, <3>3
  <2>3. xmt' \in Places
    BY <1>2 DEF Places
  <2>4. UNCHANGED <<panicked, holding, line, tien, msien, cts, changed>>
    BY DEF uartVars
  <2> QED BY <1>1, <1>2, <2>1, <2>2, <2>3, <2>4 DEF OutInv, OutTypeOK, Requests
<1>4. holding = <<>> /\ ByteInOnePlace'
  BY <1>2 DEF OutInv, ByteInOnePlace, uartVars
<1>5. AskedOnce'
  BY DEF AskedOnce
<1>6. WholeMessages'
  BY HeadTaken DEF OutInv, WholeMessages
<1>7. slow => InBeat' /\ ~overrun'
  BY <1>2 DEF OutInv, InBeat, Quiet, uartVars, lineVars
<1>8. NothingLost'
  <2> DEFINE before == wire \o line \o holding
  <2>1. before \in Seq(Bytes)
    <3>1. wire \o line \in Seq(Bytes)
      BY Bytewise, ConcatProperties
    <3> QED BY <3>1, Bytewise, ConcatProperties
  <2>2. before' = before
    BY DEF uartVars, lineVars
  <2>3. (before \o ch') \o ring' = before \o full
    <3> HIDE DEF before
    <3> QED BY <1>2, <2>1, ReadThenRest
  <2> QED BY <2>2, <2>3 DEF NothingLost
<1> QED BY <1>3, <1>4, <1>5, <1>6, <1>7, <1>8 DEF OutInv, lineVars

LEMMA ServeReadOut ==
  ASSUME OutInv, OutStep(Same(ServeRead))
  PROVE  OutInv'
<1>1. /\ outbox # <<>> /\ Head(outbox).from = Xmt /\ outbox' = Tail(outbox)
      /\ UNCHANGED <<writer, panicked, uartVars, lineVars, accepted>>
  BY DEF OutStep, Same, ServeRead
<1>2. /\ Head(outbox) = outbox[1] /\ 1 \in DOMAIN outbox
      /\ outbox' \in Seq(Requests) /\ Len(outbox) \in Nat \ {0}
      /\ DOMAIN outbox' = 1 .. Len(outbox) - 1 /\ DOMAIN outbox = 1 .. Len(outbox)
      /\ \A i \in DOMAIN outbox' : i + 1 \in DOMAIN outbox /\ outbox'[i] = outbox[i + 1]
  BY <1>1, HeadTaken
<1>3. /\ xmt = "asked" /\ ~reading /\ ch = <<>> /\ holding = <<>>
      /\ \A i \in DOMAIN outbox : outbox[i].from = Xmt => i = 1
  BY <1>1, <1>2 DEF OutInv, AskedOnce, ByteInOnePlace
<1>4. \A i \in DOMAIN outbox' : outbox'[i].from # Xmt
  BY <1>2, <1>3
<1>5. CASE ring = <<>>
  <2>1. reading' = TRUE /\ UNCHANGED <<ch, ring, xmt>>
    BY <1>5 DEF OutStep, Same, ServeRead
  <2>2. OutTypeOK'
    BY <1>1, <1>2, <2>1 DEF OutInv, OutTypeOK, Requests, uartVars
  <2>3. AskedOnce'
    BY <1>3, <1>4, <2>1 DEF AskedOnce
  <2>4. WholeMessages'
    BY <1>2 DEF OutInv, WholeMessages
  <2>5. ByteInOnePlace' /\ NothingLost' /\ (slow => InBeat')
    BY <1>1, <2>1 DEF OutInv, ByteInOnePlace, NothingLost, InBeat, Quiet, uartVars, lineVars
  <2> QED BY <1>1, <2>2, <2>3, <2>4, <2>5 DEF OutInv, lineVars
<1>6. CASE ring # <<>>
  <2>1. Reply(ReadOf(ring, 1), RestOf(ring, 1)) /\ reading' = FALSE
    BY <1>3, <1>6 DEF OutStep, Same, ServeRead, OutInv, OutTypeOK
  <2>2. ring \in Seq(Bytes) /\ Len(ring) <= OutCapacity
    BY DEF OutInv, OutTypeOK
  <2>3. accepted' = wire \o line \o holding \o ring
    <3>1. wire \o line \in Seq(Bytes)
      BY Bytewise, ConcatProperties
    <3>2. (wire \o line) \o holding \in Seq(Bytes)
      BY <3>1, Bytewise, ConcatProperties
    <3>3. ((wire \o line) \o holding) \o <<>> = (wire \o line) \o holding
      BY <3>2, ConcatEmptySeq
    <3> QED BY <1>1, <1>3, <3>3 DEF OutInv, NothingLost
  <2>4. accepted' \in Seq(Bytes) /\ writer' \in [Writers -> {"running", "waiting"}]
    BY <1>1 DEF OutInv, OutTypeOK
  <2> QED BY <1>1, <1>3, <1>4, <2>1, <2>2, <2>3, <2>4, ReplyOut
<1> QED BY <1>5, <1>6

LEMMA ServeWriteOut ==
  ASSUME OutInv, OutStep(AcceptWrite)
  PROVE  OutInv'
<1> DEFINE buf  == Head(outbox).buf
           full == ring \o buf
           before == wire \o line \o holding
<1>1. /\ outbox # <<>> /\ Head(outbox).from \in Writers /\ outbox' = Tail(outbox)
      /\ ~panicked /\ UNCHANGED <<uartVars, lineVars>>
  BY DEF OutStep, AcceptWrite, ServeWrite
<1>2. /\ Head(outbox) \in Requests /\ Head(outbox) = outbox[1] /\ 1 \in DOMAIN outbox
      /\ outbox' \in Seq(Requests) /\ Len(outbox) \in Nat \ {0}
      /\ DOMAIN outbox' = 1 .. Len(outbox) - 1 /\ DOMAIN outbox = 1 .. Len(outbox)
      /\ \A i \in DOMAIN outbox' : i + 1 \in DOMAIN outbox /\ outbox'[i] = outbox[i + 1]
  BY <1>1, HeadTaken
<1>3. buf \in Seq(Bytes) /\ ring \in Seq(Bytes) /\ accepted \in Seq(Bytes) /\ before \in Seq(Bytes)
  <2>1. wire \o line \in Seq(Bytes)
    BY Bytewise, ConcatProperties
  <2>2. before \in Seq(Bytes)
    BY <2>1, Bytewise, ConcatProperties
  <2> QED BY <1>2, <2>2, Bytewise DEF Requests
<1>4. WholeMessages'
  BY <1>2 DEF OutInv, WholeMessages
<1>5. CASE ~Fits(ring, Len(buf), OutCapacity)
  <2>1. panicked' = TRUE /\ UNCHANGED <<ring, reading, writer, xmt, ch, accepted>>
    BY <1>5 DEF OutStep, AcceptWrite, ServeWrite
  <2>2. OutTypeOK'
    BY <1>1, <1>2, <2>1 DEF OutInv, OutTypeOK, Requests, uartVars
  <2>3. AskedOnce'
    <3>1. ASSUME NEW i \in DOMAIN outbox', outbox'[i].from = Xmt
          PROVE  /\ xmt = "asked" /\ ~reading /\ outbox'[i].buf = <<>>
                 /\ \A j \in DOMAIN outbox' : outbox'[j].from = Xmt => j = i
      BY <1>2, <3>1 DEF OutInv, AskedOnce
    <3>2. reading => xmt = "asked"
      BY DEF OutInv, AskedOnce
    <3> QED BY <2>1, <3>1, <3>2 DEF AskedOnce
  <2>4. ByteInOnePlace' /\ NothingLost' /\ (slow => InBeat')
    BY <1>1, <2>1 DEF OutInv, ByteInOnePlace, NothingLost, InBeat, Quiet, uartVars, lineVars
  <2> QED BY <1>1, <1>4, <2>1, <2>2, <2>3, <2>4 DEF OutInv, lineVars
<1>6. CASE Fits(ring, Len(buf), OutCapacity)
  <2>1. /\ ServeReader(full) /\ UNCHANGED panicked
        /\ writer' = [writer EXCEPT ![Head(outbox).from] = "running"]
    BY <1>6 DEF OutStep, AcceptWrite, ServeWrite
  <2>2. accepted' = accepted \o buf
    BY <1>1, <2>1 DEF OutStep, AcceptWrite
  <2>3. full \in Seq(Bytes) /\ Len(full) <= OutCapacity
    <3>1. full \in Seq(Bytes) /\ Len(full) = Len(ring) + Len(buf)
      <4> HIDE DEF buf
      <4> QED BY <1>3, ConcatProperties
    <3> QED BY <1>6, <3>1 DEF Fits
  <2>4. writer' \in [Writers -> {"running", "waiting"}]
    BY <2>1 DEF OutInv, OutTypeOK
  <2>5. accepted' \in Seq(Bytes)
    <3> HIDE DEF buf
    <3> QED BY <1>3, <2>2, ConcatProperties
  <2>6. (before \o ring) \o buf = before \o full
    <3>1. buf \in Seq(Bytes) /\ ring \in Seq(Bytes) /\ before \in Seq(Bytes)
      BY <1>3
    <3> HIDE DEF buf, before
    <3> QED BY <3>1, ConcatAssociative
  <2>7. CASE reading
    <3>1. /\ xmt = "asked" /\ ch = <<>>
          /\ \A i \in DOMAIN outbox : outbox[i].from # Xmt
      BY <2>7 DEF OutInv, AskedOnce, ByteInOnePlace
    <3>2. \A i \in DOMAIN outbox' : outbox'[i].from # Xmt
      BY <1>2, <3>1
    <3>3. Reply(ReadOf(full, 1), RestOf(full, 1)) /\ reading' = FALSE
      BY <2>1, <2>7 DEF ServeReader
    <3>4. before \o <<>> = before
      <4>1. before \in Seq(Bytes)
        BY <1>3
      <4> HIDE DEF before
      <4> QED BY <4>1, ConcatEmptySeq
    <3>5. accepted = before \o ring
      BY <3>1, <3>4 DEF OutInv, NothingLost
    <3>6. accepted' = before \o full
      BY <2>2, <2>6, <3>5
    <3>7. UNCHANGED <<panicked, uartVars, lineVars>>
      BY <1>1, <2>1
    <3> HIDE DEF full
    <3>8. accepted' = wire \o line \o holding \o full
      BY <3>6
    <3> QED BY <1>1, <2>3, <2>4, <2>5, <3>1, <3>2, <3>3, <3>7, <3>8, ReplyOut
  <2>8. CASE ~reading
    <3>1. ring' = full /\ UNCHANGED <<ch, xmt>> /\ reading' = FALSE
      BY <2>1, <2>8 DEF ServeReader
    <3>2. OutTypeOK'
      <4>1. UNCHANGED <<panicked, ch, xmt, holding, line, tien, msien, cts, changed>>
        BY <1>1, <2>1, <3>1 DEF uartVars
      <4> HIDE DEF full
      <4>2. ring' \in Seq(Bytes) /\ Len(ring') <= OutCapacity
        BY <2>3, <2>4, <3>1
      <4>3. reading' \in BOOLEAN
        BY <3>1
      <4>4. \A s \in {ch', holding', line'} : s \in Seq(Bytes) /\ Len(s) <= 1
        BY <4>1 DEF OutInv, OutTypeOK
      <4>5. /\ panicked' \in BOOLEAN /\ xmt' \in Places
            /\ {tien', msien', cts', changed'} \subseteq BOOLEAN
        BY <4>1 DEF OutInv, OutTypeOK
      <4> QED BY <1>2, <2>3, <2>4, <4>2, <4>3, <4>4, <4>5 DEF OutTypeOK, Requests
    <3>3. AskedOnce'
      <4>1. ASSUME NEW i \in DOMAIN outbox', outbox'[i].from = Xmt
            PROVE  /\ xmt = "asked" /\ outbox'[i].buf = <<>>
                   /\ \A j \in DOMAIN outbox' : outbox'[j].from = Xmt => j = i
        BY <1>2, <4>1 DEF OutInv, AskedOnce
      <4> QED BY <3>1, <4>1 DEF AskedOnce
    <3>4. ByteInOnePlace' /\ (slow => InBeat') /\ wire' = wire /\ before' = before
      BY <1>1, <3>1 DEF OutInv, ByteInOnePlace, InBeat, Quiet, uartVars, lineVars
    <3>5. NothingLost'
      <4> DEFINE now == before \o ch
      <4>1. now \in Seq(Bytes)
        <5>1. before \in Seq(Bytes) /\ ch \in Seq(Bytes)
          BY <1>3, Bytewise
        <5> HIDE DEF before
        <5> QED BY <5>1, ConcatProperties
      <4>2. (now \o ring) \o buf = now \o (ring \o buf)
        <5>1. buf \in Seq(Bytes) /\ ring \in Seq(Bytes)
          BY <1>3
        <5> HIDE DEF buf, now
        <5> QED BY <4>1, <5>1, ConcatAssociative
      <4>3. accepted = now \o ring
        BY DEF OutInv, NothingLost
      <4>4. accepted' = now \o full
        BY <2>2, <4>2, <4>3
      <4>5. accepted' = (before' \o ch') \o ring'
        BY <3>1, <3>4, <4>4
      <4> QED BY <4>5 DEF NothingLost
    <3>6. UNCHANGED <<slow, overrun, controller, wire>>
      BY <1>1 DEF lineVars
    <3> QED BY <1>4, <2>5, <3>2, <3>3, <3>4, <3>5, <3>6 DEF OutInv
  <2> QED BY <2>7, <2>8
<1> QED BY <1>5, <1>6

(* The steps of the way in leave the way out alone. *)
LEMMA StillOut ==
  ASSUME OutInv, panicked' \in BOOLEAN,
         UNCHANGED <<ring, reading, outbox, writer, xmt, ch, uartVars, accepted>>,
         UNCHANGED <<slow, controller, overrun, wire>>
  PROVE  OutInv'
<1>1. OutTypeOK'
  BY DEF OutInv, OutTypeOK, uartVars
<1>2. ByteInOnePlace' /\ AskedOnce' /\ WholeMessages' /\ NothingLost' /\ (slow => InBeat')
  BY DEF OutInv, ByteInOnePlace, AskedOnce, WholeMessages, NothingLost, InBeat, Quiet, uartVars
<1> QED BY <1>1, <1>2 DEF OutInv

InSteps ==
  \/ InStep(ServeGetc) \/ InStep(AnswerHandler) \/ InStep(Copy)
  \/ InStep(AwaitRcv) \/ InStep(Forward) \/ InStep(RxInterrupt)

LEMMA InStepsOut == ASSUME OutInv, InSteps PROVE OutInv'
<1>1. UNCHANGED <<ring, reading, outbox, writer, xmt, ch, uartVars, lineVars, accepted>>
  BY DEF InSteps, InStep
<1>2. panicked' \in BOOLEAN
  BY DEF InSteps, InStep, ServeGetc, AnswerHandler, Copy, AwaitRcv, Forward, RxInterrupt,
         OutInv, OutTypeOK
<1> QED BY <1>1, <1>2, StillOut DEF lineVars

LEMMA NextOut == OutInv /\ [Next]_vars => OutInv'
<1> SUFFICES ASSUME OutInv, [Next]_vars PROVE OutInv'
  OBVIOUS
<1>1. CASE InSteps
  BY <1>1, InStepsOut
<1>2. CASE ReadAnswer \/ Answer \/ UNCHANGED vars
  <2>1. /\ UNCHANGED <<ring, reading, outbox, writer, xmt, ch, uartVars, accepted>>
        /\ UNCHANGED <<slow, controller, overrun, wire, panicked>>
    BY <1>2 DEF ReadAnswer, Answer, vars, outVars, lineVars, serverVars
  <2> QED BY <2>1, StillOut DEF OutInv, OutTypeOK
<1> QED BY <1>1, <1>2, HandlerOut, InterruptOut, CtsOut, WritesOut, AskOut, PutOut, ShiftOut, ArriveOut,
           ServeReadOut, ServeWriteOut DEF Next, Goes, InSteps

LEMMA OutInvariant == Spec => []OutInv
<1> QED BY InitOut, NextOut, PTL DEF Spec

(* The OutputServer loses no byte, doubles none and keeps their order, on any
   line and with rings of any size: what it has accepted is in one place each. *)
THEOREM NothingLostCorrect == Spec => []NothingLost
<1>1. OutInv => NothingLost
  BY DEF OutInv
<1> QED BY <1>1, OutInvariant, PTL

(* On a slow line no byte reaches the controller before it is ready: the
   handler's waits for CTS and the controller go round in step. *)
THEOREM NoOverrunCorrect == Spec => []NoOverrun
<1>1. OutInv => NoOverrun
  BY DEF OutInv, NoOverrun
<1> QED BY <1>1, OutInvariant, PTL
-----------------------------------------------------------------------------
(* Polls on their way to the controller, wherever they are. *)
OnTheWay ==
  Polled(line) + Polled(holding) + Polled(ch) + Polled(ring) + HowMany(outbox, AsPoll)

LEMMA PolledNatural == ASSUME NEW s \in Seq(Bytes) PROVE Polled(s) \in Nat
<1>1. HowMany(s, {Poll}) \in 0 .. Len(s) /\ Len(s) \in Nat
  BY CountNatural
<1> QED BY <1>1 DEF Polled

LEMMA PolledOfTwo ==
  ASSUME NEW s \in Seq(Bytes), NEW t \in Seq(Bytes)
  PROVE  Polled(s \o t) = Polled(s) + Polled(t)
BY CountConcat DEF Polled

LEMMA PolledNone == Polled(<<>>) = 0
<1>1. <<>> \in Seq(Bytes) /\ \A i \in DOMAIN <<>> : <<>>[i] \notin {Poll}
  OBVIOUS
<1>2. HowMany(<<>>, {Poll}) = 0
  BY <1>1, CountNone
<1> QED BY <1>2 DEF Polled

LEMMA PolledByte ==
  ASSUME NEW s \in Seq(Bytes), Len(s) <= 1
  PROVE  Polled(s) = IF s = <<Poll>> THEN 1 ELSE 0
<1>1. CASE s = <<>>
  <2>1. s # <<Poll>>
    BY <1>1
  <2> QED BY <1>1, <2>1, PolledNone
<1>2. CASE s = <<s[1]>> /\ s[1] \in Bytes
  <2>1. HowMany(<<s[1]>>, {Poll}) = IF s[1] \in {Poll} THEN 1 ELSE 0
    BY <1>2, CountOne
  <2>2. s = <<Poll>> <=> s[1] = Poll
    BY <1>2
  <2> QED BY <1>2, <2>1, <2>2 DEF Polled
<1> QED BY <1>1, <1>2, AtMostOne

LEMMA OnTheWayNatural ==
  ASSUME OutInv
  PROVE  /\ Polled(line) \in Nat /\ Polled(holding) \in Nat /\ Polled(ch) \in Nat
         /\ Polled(ring) \in Nat /\ Polled(wire) \in Nat /\ HowMany(outbox, AsPoll) \in Nat
         /\ OnTheWay \in Nat
<1>1. outbox \in Seq(Requests)
  BY DEF OutInv, OutTypeOK, Requests
<1>2. HowMany(outbox, AsPoll) \in 0 .. Len(outbox) /\ Len(outbox) \in Nat
  BY <1>1, CountNatural
<1>3. /\ Polled(line) \in Nat /\ Polled(holding) \in Nat /\ Polled(ch) \in Nat
      /\ Polled(ring) \in Nat /\ Polled(wire) \in Nat
  BY Bytewise, PolledNatural
<1> QED BY <1>2, <1>3 DEF OnTheWay

LEMMA OnTheWayLater ==
  /\ OnTheWay = Polled(line) + Polled(holding) + Polled(ch) + Polled(ring) + HowMany(outbox, AsPoll)
  /\ OnTheWay' = Polled(line') + Polled(holding') + Polled(ch') + Polled(ring')
                  + HowMany(outbox', AsPoll)
BY DEF OnTheWay

(* They are the ones AnswersInStep counts. *)
LEMMA PollsOutIs == ASSUME OutInv PROVE PollsOut = OnTheWay
<1> DEFINE a == ring \o ch
           b == a \o holding
           c == b \o line
<1>1. a \in Seq(Bytes)
  BY Bytewise, ConcatProperties
<1>2. b \in Seq(Bytes)
  <2> HIDE DEF a
  <2> QED BY <1>1, Bytewise, ConcatProperties
<1>3. Polled(a) = Polled(ring) + Polled(ch)
  BY Bytewise, PolledOfTwo
<1>4. Polled(b) = Polled(a) + Polled(holding)
  <2> HIDE DEF a
  <2> QED BY <1>1, Bytewise, PolledOfTwo
<1>5. Polled(c) = Polled(b) + Polled(line)
  <2> HIDE DEF b
  <2> QED BY <1>2, Bytewise, PolledOfTwo
<1>6. Cardinality({i \in DOMAIN c : c[i] = Poll}) = Polled(c)
  <2>1. {i \in DOMAIN c : c[i] = Poll} = {i \in DOMAIN c : c[i] \in {Poll}}
    OBVIOUS
  <2> QED BY <2>1 DEF Polled, HowMany
<1>7. Cardinality({i \in DOMAIN outbox : outbox[i].buf = <<Poll>>}) = HowMany(outbox, AsPoll)
  <2>0. outbox \in Seq(Requests)
    BY DEF OutInv, OutTypeOK, Requests
  <2>1. \A i \in DOMAIN outbox : outbox[i] \in Requests
    BY <2>0, ElementOfSeq, LenProperties
  <2>2. \A i \in DOMAIN outbox : outbox[i].buf = <<Poll>> <=> outbox[i] \in AsPoll
    BY <2>1 DEF Requests, AsPoll
  <2> QED BY <2>2 DEF HowMany
<1>8. PollsOut = Polled(c) + HowMany(outbox, AsPoll)
  BY <1>6, <1>7 DEF PollsOut
<1>9. Polled(c) = Polled(ring) + Polled(ch) + Polled(holding) + Polled(line)
  BY <1>3, <1>4, <1>5
<1> HIDE DEF c
<1> QED BY <1>8, <1>9, OnTheWayNatural DEF OnTheWay

LEMMA MessagePolls ==
  ASSUME NEW m \in Requests, m.buf = <<Poll>> \/ m.buf \in Seq(Bytes \ {Poll})
  PROVE  Polled(m.buf) = IF m \in AsPoll THEN 1 ELSE 0
<1>1. m \in AsPoll <=> m.buf = <<Poll>>
  BY DEF Requests, AsPoll
<1>2. CASE m.buf = <<Poll>>
  <2>1. <<Poll>> \in Seq(Bytes) /\ Len(<<Poll>>) <= 1
    BY Com1Assumption
  <2>2. Polled(<<Poll>>) = 1
    BY <2>1, PolledByte
  <2> QED BY <1>1, <1>2, <2>2
<1>3. CASE m.buf \in Seq(Bytes \ {Poll})
  <2> DEFINE b == m.buf
  <2>1. \A i \in DOMAIN b : b[i] \in Bytes \ {Poll}
    BY <1>3, ElementOfSeq, LenProperties
  <2>2. b # <<Poll>>
    BY <2>1
  <2>3. HowMany(b, {Poll}) = 0
    <3>1. \A i \in DOMAIN b : b[i] \notin {Poll}
      BY <2>1
    <3> HIDE DEF b
    <3> QED BY <3>1, <1>3, CountNone DEF b
  <2> QED BY <1>1, <2>2, <2>3 DEF Polled
<1> QED BY <1>2, <1>3

OutSteps ==
  \/ OutStep(AcceptWrite) \/ OutStep(Same(ServeRead)) \/ OutStep(Same(AwaitXmt))
  \/ OutStep(Same(CheckCts)) \/ OutStep(Same(Ask)) \/ OutStep(Same(Put))
  \/ OutStep(Same(CheckDrop)) \/ OutStep(Same(Shift))
  \/ OutStep(Same(AwaitRaise)) \/ OutStep(Same(AwaitDrop))
  \/ OutStep(Same(~RxPending /\ TxInterrupt)) \/ OutStep(Same(~RxPending /\ ModInterrupt))

Travels == OnTheWay' <= OnTheWay /\ (~panicked' => OnTheWay' = OnTheWay)

LEMMA StillTravels ==
  ASSUME OutInv, UNCHANGED <<line, holding, ch, ring, outbox>>
  PROVE  Travels
<1>1. OnTheWay' = OnTheWay
  BY DEF OnTheWay
<1>2. OnTheWay \in Nat
  BY OnTheWayNatural
<1> QED BY <1>1, <1>2 DEF Travels

LEMMA ByteTravels ==
  ASSUME OutInv, OutStep(Same(Put)) \/ OutStep(Same(Shift))
  PROVE  Travels
<1>1. OnTheWay' = OnTheWay
  <2>1. CASE OutStep(Same(Put))
    <3>1. holding = <<>> /\ holding' = ch /\ ch' = <<>> /\ UNCHANGED <<line, ring, outbox>>
      BY <2>1 DEF OutStep, Same, Put, HandlerGoes, serverVars, OutInv, ByteInOnePlace
    <3>2. Polled(holding) = 0 /\ Polled(holding') = Polled(ch) /\ Polled(ch') = 0
      BY <3>1, PolledNone
    <3> QED BY <3>1, <3>2, OnTheWayNatural DEF OnTheWay
  <2>2. CASE OutStep(Same(Shift))
    <3>1. line = <<>> /\ line' = holding /\ holding' = <<>> /\ UNCHANGED <<ch, ring, outbox>>
      BY <2>2 DEF OutStep, Same, Shift, serverVars
    <3>2. Polled(line) = 0 /\ Polled(line') = Polled(holding) /\ Polled(holding') = 0
      BY <3>1, PolledNone
    <3> QED BY <3>1, <3>2, OnTheWayNatural DEF OnTheWay
  <2> QED BY <2>1, <2>2
<1>2. OnTheWay \in Nat
  BY OnTheWayNatural
<1> QED BY <1>1, <1>2 DEF Travels

LEMMA SentTravels ==
  ASSUME OutInv, NEW m \in Requests, outbox' = Append(outbox, m),
         UNCHANGED <<line, holding, ch, ring>>
  PROVE  OnTheWay' = OnTheWay + IF m \in AsPoll THEN 1 ELSE 0
<1>1. outbox \in Seq(Requests)
  BY DEF OutInv, OutTypeOK, Requests
<1>2. HowMany(outbox', AsPoll) = HowMany(outbox, AsPoll) + IF m \in AsPoll THEN 1 ELSE 0
  BY <1>1, CountAppend
<1>3. UNCHANGED <<Polled(line), Polled(holding), Polled(ch), Polled(ring)>>
  OBVIOUS
<1> QED BY <1>2, <1>3, OnTheWayNatural DEF OnTheWay

LEMMA MessageTaken ==
  ASSUME OutInv, outbox # <<>>, outbox' = Tail(outbox)
  PROVE  /\ HowMany(outbox, AsPoll) = HowMany(outbox', AsPoll) + Polled(Head(outbox).buf)
         /\ HowMany(outbox', AsPoll) \in Nat /\ Polled(Head(outbox).buf) \in Nat
         /\ Head(outbox).buf \in Seq(Bytes)
         /\ Head(outbox).from = Xmt => Polled(Head(outbox).buf) = 0
<1> DEFINE m == Head(outbox)
<1>1. outbox \in Seq(Requests)
  BY DEF OutInv, OutTypeOK, Requests
<1>2. m \in Requests /\ outbox' \in Seq(Requests) /\ m = outbox[1] /\ 1 \in DOMAIN outbox
  BY HeadTaken
<1>3. m.buf \in Seq(Bytes)
  BY <1>2 DEF Requests
<1>4. m.buf = <<Poll>> \/ m.buf \in Seq(Bytes \ {Poll})
  BY <1>2 DEF OutInv, WholeMessages
<1>5. Polled(m.buf) = IF m \in AsPoll THEN 1 ELSE 0
  <2> HIDE DEF m
  <2> QED BY <1>2, <1>4, MessagePolls
<1>6. HowMany(outbox, AsPoll) = HowMany(Tail(outbox), AsPoll) + IF m \in AsPoll THEN 1 ELSE 0
  BY <1>1, CountTail
<1>7. HowMany(outbox', AsPoll) \in 0 .. Len(outbox') /\ Len(outbox') \in Nat
  BY <1>2, CountNatural
<1>8. m.from = Xmt => Polled(m.buf) = 0
  <2>1. m.from = Xmt => m.buf = <<>>
    BY <1>2 DEF OutInv, AskedOnce
  <2> QED BY <2>1, PolledNone
<1> QED BY <1>3, <1>5, <1>6, <1>7, <1>8

LEMMA ReadTravels ==
  ASSUME NEW full \in Seq(Bytes), ch' = ReadOf(full, 1), ring' = RestOf(full, 1)
  PROVE  Polled(ch') + Polled(ring') = Polled(full) /\ Polled(ch') \in Nat /\ Polled(ring') \in Nat
<1>1. ReadOf(full, 1) \in Seq(Bytes) /\ RestOf(full, 1) \in Seq(Bytes)
  BY ReadOne
<1>2. ReadOf(full, 1) \o RestOf(full, 1) = full
  BY ReadOne
<1>3. Polled(ReadOf(full, 1) \o RestOf(full, 1)) = Polled(ReadOf(full, 1)) + Polled(RestOf(full, 1))
  BY <1>1, PolledOfTwo
<1>4. Polled(ch') \in Nat /\ Polled(ring') \in Nat
  BY <1>1, PolledNatural
<1> QED BY <1>2, <1>3, <1>4

LEMMA ServeReadTravels == ASSUME OutInv, OutStep(Same(ServeRead)) PROVE Travels
<1>1. /\ outbox # <<>> /\ Head(outbox).from = Xmt /\ outbox' = Tail(outbox)
      /\ UNCHANGED <<line, holding>>
  BY DEF OutStep, Same, ServeRead, uartVars
<1>2. HowMany(outbox, AsPoll) = HowMany(outbox', AsPoll) /\ HowMany(outbox', AsPoll) \in Nat
  BY <1>1, MessageTaken
<1>3. Polled(ch') + Polled(ring') = Polled(ch) + Polled(ring)
      /\ Polled(ch') \in Nat /\ Polled(ring') \in Nat
  <2>1. CASE ring = <<>>
    <3>1. UNCHANGED <<ch, ring>>
      BY <2>1 DEF OutStep, Same, ServeRead
    <3> QED BY <3>1, OnTheWayNatural
  <2>2. CASE ring # <<>>
    <3>1. ch' = ReadOf(ring, 1) /\ ring' = RestOf(ring, 1)
      BY <2>2 DEF OutStep, Same, ServeRead, Reply
    <3>2. Head(outbox) = outbox[1] /\ 1 \in DOMAIN outbox
      BY <1>1, HeadTaken
    <3>3. ch = <<>>
      BY <1>1, <3>2 DEF OutInv, AskedOnce, ByteInOnePlace
    <3>4. Polled(ch) = 0
      BY <3>3, PolledNone
    <3>5. Polled(ch') + Polled(ring') = Polled(ring) /\ Polled(ch') \in Nat /\ Polled(ring') \in Nat
      BY <3>1, Bytewise, ReadTravels
    <3> QED BY <3>4, <3>5, OnTheWayNatural
  <2> QED BY <2>1, <2>2
<1>4. Polled(line') = Polled(line) /\ Polled(holding') = Polled(holding)
  BY <1>1
<1>5. OnTheWay' = OnTheWay
  BY <1>2, <1>3, <1>4, OnTheWayNatural, OnTheWayLater
<1> QED BY <1>5, OnTheWayNatural DEF Travels

LEMMA ServeWriteTravels == ASSUME OutInv, OutStep(AcceptWrite) PROVE Travels
<1> DEFINE buf  == Head(outbox).buf
           full == ring \o buf
<1>1. /\ outbox # <<>> /\ outbox' = Tail(outbox) /\ UNCHANGED <<line, holding>>
  BY DEF OutStep, AcceptWrite, ServeWrite, uartVars
<1>2. /\ HowMany(outbox, AsPoll) = HowMany(outbox', AsPoll) + Polled(buf)
      /\ HowMany(outbox', AsPoll) \in Nat /\ Polled(buf) \in Nat /\ buf \in Seq(Bytes)
  BY <1>1, MessageTaken
<1>3. CASE ~Fits(ring, Len(buf), OutCapacity)
  <2>1. panicked' = TRUE /\ UNCHANGED <<ring, ch>>
    BY <1>3 DEF OutStep, AcceptWrite, ServeWrite
  <2>2. UNCHANGED <<Polled(line), Polled(holding), Polled(ch), Polled(ring)>>
    BY <1>1, <2>1
  <2>3. OnTheWay' <= OnTheWay
    <3> HIDE DEF buf
    <3>1. HowMany(outbox', AsPoll) <= HowMany(outbox, AsPoll) /\ HowMany(outbox', AsPoll) \in Nat
      BY <1>2
    <3> QED BY <2>2, <3>1, OnTheWayNatural, OnTheWayLater
  <2> QED BY <2>1, <2>3 DEF Travels
<1>4. CASE Fits(ring, Len(buf), OutCapacity)
  <2>1. ServeReader(full)
    BY <1>4 DEF OutStep, AcceptWrite, ServeWrite
  <2>2. full \in Seq(Bytes) /\ Polled(full) = Polled(ring) + Polled(buf)
    <3> HIDE DEF buf
    <3> QED BY <1>2, Bytewise, ConcatProperties, PolledOfTwo
  <2>3. Polled(ch') + Polled(ring') = Polled(ch) + Polled(ring) + Polled(buf)
        /\ Polled(ch') \in Nat /\ Polled(ring') \in Nat
    <3>1. CASE reading
      <4>1. ch' = ReadOf(full, 1) /\ ring' = RestOf(full, 1)
        BY <2>1, <3>1 DEF ServeReader, Reply
      <4>2. ch = <<>>
        BY <3>1 DEF OutInv, AskedOnce, ByteInOnePlace
      <4>3. Polled(ch) = 0
        BY <4>2, PolledNone
      <4>4. Polled(ch') + Polled(ring') = Polled(full) /\ Polled(ch') \in Nat /\ Polled(ring') \in Nat
        <5> HIDE DEF full
        <5> QED BY <2>2, <4>1, ReadTravels
      <4> HIDE DEF full, buf
      <4> QED BY <1>2, <2>2, <4>3, <4>4, OnTheWayNatural
    <3>2. CASE ~reading
      <4>1. ring' = full /\ UNCHANGED ch
        BY <2>1, <3>2 DEF ServeReader
      <4>2. Polled(ring') = Polled(full) /\ Polled(ch') = Polled(ch)
        BY <4>1
      <4> HIDE DEF full, buf
      <4> QED BY <1>2, <2>2, <4>2, OnTheWayNatural
    <3> QED BY <3>1, <3>2
  <2>4. OnTheWay' = OnTheWay
    <3>1. Polled(line') = Polled(line) /\ Polled(holding') = Polled(holding)
      BY <1>1
    <3> HIDE DEF buf, full
    <3>2. /\ HowMany(outbox, AsPoll) = HowMany(outbox', AsPoll) + Polled(buf)
          /\ HowMany(outbox', AsPoll) \in Nat /\ Polled(buf) \in Nat
      BY <1>2
    <3> QED BY <2>3, <3>1, <3>2, OnTheWayNatural, OnTheWayLater
  <2> QED BY <2>4, OnTheWayNatural DEF Travels
<1> QED BY <1>3, <1>4

LEMMA OutStepsTravel == ASSUME OutInv, OutSteps PROVE Travels
<1>1. CASE OutStep(Same(Ask))
  <2> DEFINE m == [from |-> Xmt, buf |-> <<>>]
  <2>1. m \in Requests /\ m \notin AsPoll
    BY DEF Requests, AsPoll
  <2>2. outbox' = Append(outbox, m) /\ UNCHANGED <<line, holding, ch, ring>>
    BY <1>1 DEF OutStep, Same, Ask, uartVars
  <2>3. OnTheWay' = OnTheWay + IF m \in AsPoll THEN 1 ELSE 0
    <3> HIDE DEF m
    <3> QED BY <2>1, <2>2, SentTravels
  <2>4. OnTheWay' = OnTheWay
    BY <2>1, <2>3, OnTheWayNatural
  <2> QED BY <2>4, OnTheWayNatural DEF Travels
<1>2. CASE \/ OutStep(Same(AwaitXmt)) \/ OutStep(Same(CheckCts)) \/ OutStep(Same(CheckDrop))
           \/ OutStep(Same(AwaitRaise)) \/ OutStep(Same(AwaitDrop))
           \/ OutStep(Same(~RxPending /\ TxInterrupt)) \/ OutStep(Same(~RxPending /\ ModInterrupt))
  <2>1. UNCHANGED <<line, holding, ch, ring, outbox>>
    BY <1>2 DEF OutStep, Same, AwaitXmt, CheckCts, CheckDrop, AwaitRaise, AwaitDrop, AwaitCts,
                TxInterrupt, ModInterrupt, serverVars, uartVars
  <2> QED BY <2>1, StillTravels
<1> QED BY <1>1, <1>2, ByteTravels, ServeReadTravels, ServeWriteTravels DEF OutSteps
-----------------------------------------------------------------------------
(* Polls and answers are counted: no more polls than were sent, no more bytes of
   answers than the polls received ask for. *)
Counts ==
  /\ polls \in 0 .. MaxPolls /\ commands \in 0 .. MaxCommands /\ missing \in 0 .. AnswerSize
  /\ toAnswer \in Nat /\ answered \in Nat
  /\ Polled(wire) + OnTheWay <= polls
  /\ toAnswer + answered <= AnswerSize * Polled(wire)

LEMMA OneMore ==
  ASSUME NEW a \in Nat, NEW b \in Nat
  PROVE  a * (b + 1) = a * b + a /\ a * b \in Nat
OBVIOUS

LEMMA NoLess ==
  ASSUME NEW a \in Nat, NEW b \in Nat, NEW c \in Nat, b <= c
  PROVE  a * b <= a * c /\ a * b \in Nat /\ a * c \in Nat
<1>1. PICK d \in Nat : c = b + d
  <2>1. c - b \in Nat /\ c = b + (c - b)
    OBVIOUS
  <2> QED BY <2>1
<1>2. a * c = a * b + a * d /\ a * d \in Nat /\ a * b \in Nat
  BY <1>1
<1> QED BY <1>2

LEMMA LaterNatural ==
  ASSUME OutInv'
  PROVE  OnTheWay' \in Nat /\ Polled(wire') \in Nat
<1>1. outbox' \in Seq(Requests)
  BY DEF OutInv, OutTypeOK, Requests
<1>2. HowMany(outbox', AsPoll) \in 0 .. Len(outbox') /\ Len(outbox') \in Nat
  BY <1>1, CountNatural
<1>3. /\ line' \in Seq(Bytes) /\ holding' \in Seq(Bytes) /\ ch' \in Seq(Bytes)
      /\ ring' \in Seq(Bytes) /\ wire' \in Seq(Bytes)
  BY DEF OutInv, OutTypeOK
<1>4. /\ Polled(line') \in Nat /\ Polled(holding') \in Nat /\ Polled(ch') \in Nat
      /\ Polled(ring') \in Nat /\ Polled(wire') \in Nat
  BY <1>3, PolledNatural
<1> QED BY <1>2, <1>4, OnTheWayLater

LEMMA InitCounts == Init => Counts
<1> SUFFICES ASSUME Init PROVE Counts
  OBVIOUS
<1>1. /\ ring = <<>> /\ ch = <<>> /\ holding = <<>> /\ line = <<>> /\ outbox = <<>> /\ wire = <<>>
      /\ polls = 0 /\ commands = 0 /\ missing = 0 /\ toAnswer = 0 /\ answered = 0
  BY DEF Init, OutInit
<1>2. HowMany(outbox, AsPoll) = 0
  <2>1. <<>> \in Seq(Requests) /\ \A i \in DOMAIN <<>> : <<>>[i] \notin AsPoll
    OBVIOUS
  <2> QED BY <1>1, <2>1, CountNone
<1>3. /\ Polled(ring) = 0 /\ Polled(ch) = 0 /\ Polled(holding) = 0 /\ Polled(line) = 0
      /\ Polled(wire) = 0
  BY <1>1, PolledNone
<1>4. OnTheWay = 0
  BY <1>2, <1>3 DEF OnTheWay
<1>5. AnswerSize * 0 = 0
  BY Com1Assumption
<1> QED BY <1>1, <1>3, <1>4, <1>5, Com1Assumption DEF Counts

LEMMA SameCounts ==
  ASSUME OutInv, Counts, Travels, OutInv',
         UNCHANGED <<wire, polls>>, commands' \in 0 .. MaxCommands, missing' \in 0 .. AnswerSize,
         toAnswer' \in Nat, answered' \in Nat, toAnswer' + answered' = toAnswer + answered
  PROVE  Counts'
<1>1. Polled(wire') = Polled(wire) /\ polls' = polls
  OBVIOUS
<1>2. OnTheWay' \in Nat
  BY LaterNatural
<1>3. polls \in Nat /\ Polled(wire) \in Nat /\ OnTheWay \in Nat
  BY OnTheWayNatural, Com1Assumption DEF Counts
<1>4. Polled(wire') + OnTheWay' <= polls'
  BY <1>1, <1>2, <1>3 DEF Counts, Travels
<1>5. toAnswer' + answered' <= AnswerSize * Polled(wire')
  BY <1>1 DEF Counts
<1> QED BY <1>4, <1>5 DEF Counts

LEMMA PollCounts ==
  ASSUME OutInv, Counts, PollSensors
  PROVE  Counts' /\ OnTheWay' = OnTheWay + 1
<1> DEFINE m == [from |-> Slave, buf |-> <<Poll>>]
<1>1. m \in Requests /\ m \in AsPoll
  BY Com1Assumption DEF Requests, AsPoll
<1>2. /\ outbox' = Append(outbox, m) /\ UNCHANGED <<line, holding, ch, ring>>
      /\ UNCHANGED <<wire, toAnswer, answered, commands>>
      /\ polls < MaxPolls /\ polls' = polls + 1 /\ missing' = AnswerSize
  BY DEF PollSensors, Putcn, uartVars, lineVars
<1>3. OnTheWay' = OnTheWay + 1
  <2>1. OnTheWay' = OnTheWay + IF m \in AsPoll THEN 1 ELSE 0
    <3> HIDE DEF m
    <3> QED BY <1>1, <1>2, SentTravels
  <2> QED BY <1>1, <2>1
<1>4. Polled(wire') = Polled(wire) /\ Polled(wire) \in Nat /\ OnTheWay \in Nat
      /\ MaxPolls \in Nat /\ AnswerSize \in Nat
  BY <1>2, OnTheWayNatural, Com1Assumption
<1>5. polls' \in 0 .. MaxPolls /\ missing' \in 0 .. AnswerSize
  BY <1>2, <1>4 DEF Counts
<1>6. Polled(wire') + OnTheWay' <= polls'
  BY <1>2, <1>3, <1>4 DEF Counts
<1>7. toAnswer' + answered' <= AnswerSize * Polled(wire')
  BY <1>2, <1>4 DEF Counts
<1> QED BY <1>2, <1>3, <1>5, <1>6, <1>7 DEF Counts

LEMMA CommandTravels ==
  ASSUME OutInv, SendCommand
  PROVE  OnTheWay' = OnTheWay
<1>1. PICK w \in Writers : Putcn(w, Command)
  BY DEF SendCommand
<1> DEFINE m == [from |-> w, buf |-> Command]
<1>2. m \in Requests /\ m \notin AsPoll
  <2>1. Command # <<Poll>>
    <3>1. Command \in Seq(Bytes \ {Poll}) /\ Len(<<Poll>>) = 1 /\ <<Poll>>[1] = Poll
      BY Com1Assumption
    <3>2. Len(Command) = 1 => Command[1] \in Bytes \ {Poll}
      BY <3>1, ElementOfSeq
    <3> QED BY <3>1, <3>2
  <2>2. Command \in Seq(Bytes)
    BY CommandBytes
  <2> QED BY <2>1, <2>2 DEF Requests, AsPoll
<1>3. outbox' = Append(outbox, m) /\ UNCHANGED <<line, holding, ch, ring>>
  BY <1>1 DEF Putcn, uartVars
<1>4. OnTheWay' = OnTheWay + IF m \in AsPoll THEN 1 ELSE 0
  <2> HIDE DEF m
  <2> QED BY <1>2, <1>3, SentTravels
<1> QED BY <1>2, <1>4, OnTheWayNatural

LEMMA ArriveTravels ==
  ASSUME OutInv, Arrive
  PROVE  /\ OnTheWay = OnTheWay' + Polled(line) /\ Polled(wire') = Polled(wire) + Polled(line)
         /\ Polled(line) = IF line = <<Poll>> THEN 1 ELSE 0
<1>1. line' = <<>> /\ wire' = wire \o line /\ UNCHANGED <<holding, ch, ring, outbox>>
  BY DEF Arrive, serverVars
<1>2. Polled(wire') = Polled(wire) + Polled(line)
  BY <1>1, Bytewise, PolledOfTwo
<1>3. Polled(line') = 0 /\ UNCHANGED <<Polled(holding), Polled(ch), Polled(ring)>>
  BY <1>1, PolledNone
<1>4. HowMany(outbox', AsPoll) = HowMany(outbox, AsPoll)
  BY <1>1
<1>5. OnTheWay = OnTheWay' + Polled(line)
  BY <1>3, <1>4, OnTheWayNatural, OnTheWayLater
<1> QED BY <1>2, <1>5, PolledByte, Bytewise

LEMMA ArriveCounts ==
  ASSUME OutInv, Counts, Arrive, OutInv'
  PROVE  Counts'
<1>1. /\ OnTheWay = OnTheWay' + Polled(line) /\ Polled(wire') = Polled(wire) + Polled(line)
      /\ Polled(line) = IF line = <<Poll>> THEN 1 ELSE 0
  BY ArriveTravels
<1>2. /\ toAnswer' \in {toAnswer, toAnswer + AnswerSize}
      /\ toAnswer' # toAnswer => line = <<Poll>>
      /\ UNCHANGED <<polls, commands, missing, answered>>
  BY DEF Arrive, useVars
<1>3. /\ OnTheWay' \in Nat /\ Polled(wire') \in Nat /\ OnTheWay \in Nat /\ Polled(wire) \in Nat
      /\ AnswerSize \in Nat /\ toAnswer \in Nat /\ answered \in Nat /\ polls \in Nat
  BY LaterNatural, OnTheWayNatural, Com1Assumption DEF Counts
<1>4. AnswerSize * (Polled(wire) + 1) = AnswerSize * Polled(wire) + AnswerSize
      /\ AnswerSize * Polled(wire) \in Nat
  BY <1>3, OneMore
<1>5. toAnswer + answered <= AnswerSize * Polled(wire) /\ Polled(wire) + OnTheWay <= polls
  BY DEF Counts
<1>6. toAnswer' + answered' <= AnswerSize * Polled(wire')
  <2>1. CASE line = <<Poll>>
    <3>1. Polled(wire') = Polled(wire) + 1
      BY <1>1, <2>1
    <3>2. AnswerSize * Polled(wire') = AnswerSize * Polled(wire) + AnswerSize
      BY <1>4, <3>1
    <3> DEFINE all == AnswerSize * Polled(wire)
               now == AnswerSize * Polled(wire')
    <3>3. now = all + AnswerSize /\ all \in Nat /\ toAnswer + answered <= all
      BY <1>4, <1>5, <3>2
    <3> HIDE DEF all, now
    <3>4. toAnswer' + answered' <= now
      <4>1. CASE toAnswer' = toAnswer
        BY <1>2, <1>3, <3>3, <4>1
      <4>2. CASE toAnswer' = toAnswer + AnswerSize
        BY <1>2, <1>3, <3>3, <4>2
      <4> QED BY <1>2, <4>1, <4>2
    <3> QED BY <3>4 DEF now
  <2>2. CASE line # <<Poll>>
    <3>1. Polled(wire') = Polled(wire)
      BY <1>1, <1>3, <2>2
    <3> QED BY <1>2, <1>5, <2>2, <3>1
  <2> QED BY <2>1, <2>2
<1>7. toAnswer' \in Nat /\ answered' \in Nat
  BY <1>2, <1>3
<1>8. Polled(wire') + OnTheWay' <= polls'
  BY <1>1, <1>2, <1>3, <1>5
<1> QED BY <1>2, <1>6, <1>7, <1>8 DEF Counts

(* What the controller has sent is in range. *)
LEMMA AnswerInRange ==
  ASSUME OutInv, Counts
  PROVE  toAnswer + answered <= AnswerSize * MaxPolls /\ AnswerSize * MaxPolls \in Nat
<1>1. Polled(wire) <= MaxPolls /\ Polled(wire) \in Nat /\ MaxPolls \in Nat /\ AnswerSize \in Nat
  <2>1. /\ Polled(wire) \in Nat /\ OnTheWay \in Nat /\ MaxPolls \in Nat /\ AnswerSize \in Nat
        /\ polls \in 0 .. MaxPolls /\ Polled(wire) + OnTheWay <= polls
    BY OnTheWayNatural, Com1Assumption DEF Counts
  <2> QED BY <2>1
<1>2. AnswerSize * Polled(wire) <= AnswerSize * MaxPolls
      /\ AnswerSize * Polled(wire) \in Nat /\ AnswerSize * MaxPolls \in Nat
  BY <1>1, NoLess
<1> DEFINE a == AnswerSize * Polled(wire)
           b == AnswerSize * MaxPolls
<1>3. toAnswer \in Nat /\ answered \in Nat /\ toAnswer + answered <= a /\ a <= b /\ a \in Nat /\ b \in Nat
  BY <1>2 DEF Counts
<1> HIDE DEF a, b
<1>4. toAnswer + answered <= b
  BY <1>3
<1> QED BY <1>2, <1>4 DEF b

LEMMA NextCounts == OutInv /\ Counts /\ [Next]_vars => Counts'
<1> SUFFICES ASSUME OutInv, Counts, [Next]_vars PROVE Counts'
  OBVIOUS
<1>1. OutInv'
  BY NextOut
<1>2. UNCHANGED <<commands, missing, toAnswer, answered>>
      => /\ commands' \in 0 .. MaxCommands /\ missing' \in 0 .. AnswerSize
         /\ toAnswer' \in Nat /\ answered' \in Nat /\ toAnswer' + answered' = toAnswer + answered
  BY DEF Counts
<1>3. CASE OutSteps
  <2>1. UNCHANGED <<wire, toAnswer, answered, polls, commands, missing>>
    BY <1>3 DEF OutSteps, OutStep, lineVars, useVars
  <2>2. Travels
    BY <1>3, OutStepsTravel
  <2> QED BY <1>1, <1>2, <2>1, <2>2, SameCounts
<1>4. CASE InSteps \/ DropCts \/ RaiseCts \/ UNCHANGED vars
  <2>1. UNCHANGED <<wire, toAnswer, answered, polls, commands, missing, line, holding, ch, ring, outbox>>
    BY <1>4 DEF InSteps, InStep, DropCts, RaiseCts, Cts, vars, outVars, uartVars, serverVars,
                lineVars, useVars
  <2>2. Travels
    BY <2>1, StillTravels
  <2> QED BY <1>1, <1>2, <2>1, <2>2, SameCounts
<1>5. CASE ReadAnswer
  <2>1. /\ UNCHANGED <<wire, toAnswer, answered, polls, commands, line, holding, ch, ring, outbox>>
        /\ missing > 0 /\ missing' = missing - 1
    BY <1>5 DEF ReadAnswer, lineVars, outVars, uartVars, serverVars
  <2>2. Travels
    BY <2>1, StillTravels
  <2>3. missing' \in 0 .. AnswerSize
    BY <2>1, Com1Assumption DEF Counts
  <2>4. commands' \in 0 .. MaxCommands /\ toAnswer' \in Nat /\ answered' \in Nat
        /\ toAnswer' + answered' = toAnswer + answered
    BY <2>1 DEF Counts
  <2> QED BY <1>1, <2>1, <2>2, <2>3, <2>4, SameCounts
<1>6. CASE Answer
  <2>1. /\ UNCHANGED <<wire, polls, commands, missing, line, holding, ch, ring, outbox>>
        /\ toAnswer > 0 /\ toAnswer' = toAnswer - 1 /\ answered' = answered + 1
    BY <1>6 DEF Answer, outVars, uartVars, serverVars, useVars
  <2>2. Travels
    BY <2>1, StillTravels
  <2>3. toAnswer' \in Nat /\ answered' \in Nat /\ toAnswer' + answered' = toAnswer + answered
    BY <2>1 DEF Counts
  <2>4. commands' \in 0 .. MaxCommands /\ missing' \in 0 .. AnswerSize
    BY <2>1 DEF Counts
  <2> QED BY <1>1, <2>1, <2>2, <2>3, <2>4, SameCounts
<1>7. CASE SendCommand
  <2>1. /\ UNCHANGED <<wire, polls, missing, toAnswer, answered>>
        /\ commands < MaxCommands /\ commands' = commands + 1
    BY <1>7 DEF SendCommand, lineVars
  <2>2. Travels
    BY <1>7, CommandTravels, OnTheWayNatural DEF Travels
  <2>3. commands' \in 0 .. MaxCommands
    BY <2>1, Com1Assumption DEF Counts
  <2>4. /\ missing' \in 0 .. AnswerSize /\ toAnswer' \in Nat /\ answered' \in Nat
        /\ toAnswer' + answered' = toAnswer + answered
    BY <2>1 DEF Counts
  <2> QED BY <1>1, <2>1, <2>2, <2>3, <2>4, SameCounts
<1> QED BY <1>1, <1>3, <1>4, <1>5, <1>6, <1>7, PollCounts, ArriveCounts
        DEF Next, Goes, OutSteps, InSteps

-----------------------------------------------------------------------------
(* The way in. *)
InInv == InTypeOK /\ OneMessageEach /\ ByteToCopy

LEMMA NoneOrOne ==
  /\ \A s : s = <<>> => s \in Seq(Answers) /\ Len(s) <= 1
  /\ \A s, x : s = <<x>> /\ x \in Answers => s \in Seq(Answers) /\ Len(s) <= 1
<1>1. ASSUME NEW s, s = <<>> PROVE s \in Seq(Answers) /\ Len(s) <= 1
  <2>1. <<>> \in Seq(Answers) /\ Len(<<>>) = 0
    OBVIOUS
  <2> QED BY <1>1, <2>1
<1>2. ASSUME NEW s, NEW x \in Answers, s = <<x>> PROVE s \in Seq(Answers) /\ Len(s) <= 1
  <2>1. s \in Seq(Answers)
    BY <1>2
  <2>2. Len(s) = 1
    BY <1>2
  <2> QED BY <2>1, <2>2
<1> QED BY <1>1, <1>2

LEMMA InitIn == Init => InInv
<1> SUFFICES ASSUME Init PROVE InInv
  OBVIOUS
<1>1. /\ inRing = <<>> /\ waiter = FALSE /\ inbox = <<>> /\ copying = FALSE
      /\ reader = "running" /\ got = <<>> /\ late = {} /\ rcv = "idle" /\ rcvBuf = <<>>
      /\ rien = FALSE /\ data = <<>>
  BY DEF Init, InInit
<1>2. Len(<<>>) = 0 /\ <<>> \in Seq(Answers) /\ <<>> \in Seq({"READ", "WRITE"}) /\ InCapacity \in Nat
  BY Com1Assumption
<1>3. InTypeOK
  <2>1. /\ inRing \in Seq(Answers) /\ Len(inRing) <= InCapacity
        /\ inbox \in Seq({"READ", "WRITE"}) /\ got \in Seq(Answers)
    BY <1>1, <1>2
  <2>2. \A s \in {rcvBuf, data} : s \in Seq(Answers) /\ Len(s) <= 1
    BY <1>1, NoneOrOne
  <2> QED BY <1>1, <2>1, <2>2 DEF InTypeOK
<1>4. OneMessageEach /\ ByteToCopy
  BY <1>1 DEF OneMessageEach, ByteToCopy, Sent
<1> QED BY <1>3, <1>4 DEF InInv

LEMMA MessageSent ==
  ASSUME InInv, NEW type \in {"READ", "WRITE"}, ~Sent(type), inbox' = Append(inbox, type)
  PROVE  /\ inbox' \in Seq({"READ", "WRITE"})
         /\ \A i, j \in DOMAIN inbox' : inbox'[i] = inbox'[j] => i = j
         /\ \A t : Sent(t)' <=> Sent(t) \/ t = type
<1>1. inbox \in Seq({"READ", "WRITE"})
  BY DEF InInv, InTypeOK
<1>2. /\ inbox' \in Seq({"READ", "WRITE"})
      /\ DOMAIN inbox' = 1 .. Len(inbox) + 1 /\ DOMAIN inbox = 1 .. Len(inbox) /\ Len(inbox) \in Nat
      /\ \A i \in 1 .. Len(inbox) : inbox'[i] = inbox[i]
      /\ inbox'[Len(inbox) + 1] = type
  BY <1>1, Appended
<1>3. \A i \in DOMAIN inbox' : i = Len(inbox) + 1 \/ (i \in DOMAIN inbox /\ inbox'[i] = inbox[i])
  BY <1>2
<1>4. \A i \in DOMAIN inbox : i \in DOMAIN inbox' /\ inbox'[i] = inbox[i] /\ inbox[i] # type
  BY <1>2 DEF Sent
<1>5. Len(inbox) + 1 \in DOMAIN inbox'
  BY <1>2
<1>6. \A i, j \in DOMAIN inbox' : inbox'[i] = inbox'[j] => i = j
  <2> TAKE i, j \in DOMAIN inbox'
  <2>1. i \in DOMAIN inbox /\ j \in DOMAIN inbox => (inbox[i] = inbox[j] => i = j)
    BY DEF InInv, OneMessageEach
  <2> QED BY <1>2, <1>3, <1>4, <2>1
<1>7. \A t : Sent(t)' <=> Sent(t) \/ t = type
  BY <1>2, <1>3, <1>4, <1>5 DEF Sent
<1> QED BY <1>2, <1>6, <1>7

LEMMA MessageReceived ==
  ASSUME InInv, inbox # <<>>, inbox' = Tail(inbox)
  PROVE  /\ inbox' \in Seq({"READ", "WRITE"}) /\ Sent(Head(inbox))
         /\ \A i, j \in DOMAIN inbox' : inbox'[i] = inbox'[j] => i = j
         /\ \A t : Sent(t)' <=> Sent(t) /\ t # Head(inbox)
<1>1. inbox \in Seq({"READ", "WRITE"})
  BY DEF InInv, InTypeOK
<1>2. /\ inbox' \in Seq({"READ", "WRITE"})
      /\ DOMAIN inbox' = 1 .. Len(inbox) - 1 /\ DOMAIN inbox = 1 .. Len(inbox)
      /\ Len(inbox) \in Nat \ {0}
      /\ \A i \in 1 .. Len(inbox) - 1 : inbox'[i] = inbox[i + 1]
      /\ Head(inbox) = inbox[1]
  BY <1>1, Tailed
<1>3. \A i, j \in DOMAIN inbox : inbox[i] = inbox[j] => i = j
  BY DEF InInv, OneMessageEach
<1>4. 1 \in DOMAIN inbox
  BY <1>2
<1>5. \A i \in DOMAIN inbox' : /\ i + 1 \in DOMAIN inbox /\ inbox'[i] = inbox[i + 1]
                              /\ i + 1 # 1 /\ i \in Nat
  BY <1>2
<1>6. \A i \in DOMAIN inbox : i = 1 \/ (i - 1 \in DOMAIN inbox' /\ inbox'[i - 1] = inbox[i])
  BY <1>2
<1>7. \A i, j \in DOMAIN inbox' : inbox'[i] = inbox'[j] => i = j
  <2> TAKE i, j \in DOMAIN inbox'
  <2>1. inbox'[i] = inbox'[j] => i + 1 = j + 1
    BY <1>3, <1>5
  <2> QED BY <1>5, <2>1
<1>8. \A t : Sent(t)' <=> Sent(t) /\ t # Head(inbox)
  <2> SUFFICES ASSUME NEW t PROVE Sent(t)' <=> Sent(t) /\ t # Head(inbox)
    OBVIOUS
  <2>1. ASSUME NEW i \in DOMAIN inbox', inbox'[i] = t PROVE Sent(t) /\ t # Head(inbox)
    BY <1>2, <1>3, <1>4, <1>5, <2>1 DEF Sent
  <2>2. ASSUME NEW i \in DOMAIN inbox, inbox[i] = t, t # Head(inbox)
        PROVE  \E j \in DOMAIN inbox' : inbox'[j] = t
    BY <1>2, <1>6, <2>2
  <2> QED BY <2>1, <2>2 DEF Sent
<1>9. Sent(Head(inbox))
  BY <1>2, <1>4 DEF Sent
<1> QED BY <1>2, <1>7, <1>8, <1>9

LEMMA SameMessages ==
  ASSUME InInv, UNCHANGED inbox
  PROVE  /\ inbox' \in Seq({"READ", "WRITE"})
         /\ \A i, j \in DOMAIN inbox' : inbox'[i] = inbox'[j] => i = j
         /\ \A t : Sent(t)' <=> Sent(t)
BY DEF InInv, InTypeOK, OneMessageEach, Sent

LEMMA StillIn ==
  ASSUME InInv, UNCHANGED <<inVars, slow>>
  PROVE  InInv'
<1>1. InTypeOK'
  BY DEF InInv, InTypeOK, inVars
<1>2. OneMessageEach' /\ ByteToCopy'
  BY DEF InInv, OneMessageEach, ByteToCopy, Sent, inVars
<1> QED BY <1>1, <1>2 DEF InInv

LEMMA ReadAnswerIn ==
  ASSUME InInv, ReadAnswer
  PROVE  InInv'
<1>1. /\ reader = "running" /\ reader' = "waiting" /\ inbox' = Append(inbox, "READ")
      /\ UNCHANGED <<slow, inRing, waiter, copying, got, late, rcv, rcvBuf, rien, data>>
  BY DEF ReadAnswer, Getc, lineVars
<1>2. ~Sent("READ") /\ ~waiter
  BY <1>1 DEF InInv, OneMessageEach
<1>3. /\ inbox' \in Seq({"READ", "WRITE"})
      /\ \A i, j \in DOMAIN inbox' : inbox'[i] = inbox'[j] => i = j
      /\ \A t : Sent(t)' <=> Sent(t) \/ t = "READ"
  BY <1>1, <1>2, MessageSent
<1>4. Sent("WRITE")' <=> Sent("WRITE")
  BY <1>3
<1>5. OneMessageEach'
  BY <1>1, <1>2, <1>3, <1>4 DEF InInv, OneMessageEach
<1>6. InTypeOK'
  BY <1>1, <1>3 DEF InInv, InTypeOK
<1>7. ByteToCopy'
  BY <1>1 DEF InInv, ByteToCopy
<1> QED BY <1>5, <1>6, <1>7 DEF InInv

LEMMA ForwardIn ==
  ASSUME InInv, InStep(Forward)
  PROVE  InInv'
<1>1. /\ rcv = "woken" /\ rcv' = "waiting" /\ inbox' = Append(inbox, "WRITE")
      /\ UNCHANGED <<slow, inRing, waiter, copying, reader, got, late, rcvBuf, rien, data>>
  BY DEF InStep, Forward, lineVars
<1>2. ~Sent("WRITE")
  BY <1>1 DEF InInv, OneMessageEach
<1>3. /\ inbox' \in Seq({"READ", "WRITE"})
      /\ \A i, j \in DOMAIN inbox' : inbox'[i] = inbox'[j] => i = j
      /\ \A t : Sent(t)' <=> Sent(t) \/ t = "WRITE"
  BY <1>1, <1>2, MessageSent
<1>4. Sent("READ")' <=> Sent("READ")
  BY <1>3
<1>5. OneMessageEach'
  BY <1>1, <1>3, <1>4 DEF InInv, OneMessageEach
<1>6. InTypeOK'
  BY <1>1, <1>3 DEF InInv, InTypeOK
<1>7. ByteToCopy'
  BY <1>1 DEF InInv, ByteToCopy
<1> QED BY <1>5, <1>6, <1>7 DEF InInv

(* The reader has its byte. *)
LEMMA Given ==
  ASSUME InInv, NEW full \in Seq(Answers), full # <<>>, Len(full) <= InCapacity, Give(full)
  PROVE  /\ got' \in Seq(Answers) /\ inRing' \in Seq(Answers) /\ Len(inRing') <= InCapacity
         /\ reader' = "running" /\ Len(inRing') = Len(full) - 1 /\ Len(full) \in Nat
         /\ got' \o inRing' = got \o full
<1>1. /\ ReadOf(full, 1) \in Seq(Answers) /\ RestOf(full, 1) \in Seq(Answers)
      /\ Len(RestOf(full, 1)) = Len(full) - 1
  BY ReadOne
<1>2. got \in Seq(Answers)
  BY DEF InInv, InTypeOK
<1>3. got' = got \o ReadOf(full, 1) /\ inRing' = RestOf(full, 1) /\ reader' = "running"
  BY DEF Give
<1>4. got' \in Seq(Answers)
  BY <1>1, <1>2, <1>3, ConcatProperties
<1>5. Len(full) \in Nat /\ Len(inRing') = Len(full) - 1
  BY <1>1, <1>3, LenProperties
<1>6. Len(inRing') <= InCapacity
  BY <1>5, Com1Assumption
<1>7. got' \o inRing' = got \o full
  BY <1>2, <1>3, ReadThenRest
<1> QED BY <1>1, <1>3, <1>4, <1>5, <1>6, <1>7

LEMMA ServeGetcIn ==
  ASSUME InInv, InStep(ServeGetc)
  PROVE  InInv'
<1>1. /\ inbox # <<>> /\ Head(inbox) = "READ" /\ inbox' = Tail(inbox)
      /\ UNCHANGED <<slow, copying, late, rcv, rcvBuf, rien, data>>
      /\ \/ inRing = <<>> /\ waiter' = TRUE /\ UNCHANGED <<inRing, got, reader>>
         \/ inRing # <<>> /\ Give(inRing) /\ UNCHANGED waiter
  BY DEF InStep, ServeGetc, Receive, lineVars
<1>2. /\ inbox' \in Seq({"READ", "WRITE"}) /\ Sent("READ")
      /\ \A i, j \in DOMAIN inbox' : inbox'[i] = inbox'[j] => i = j
      /\ \A t : Sent(t)' <=> Sent(t) /\ t # "READ"
  BY <1>1, MessageReceived
<1>3. reader = "waiting" /\ ~waiter /\ ~Sent("READ")' /\ (Sent("WRITE")' <=> Sent("WRITE"))
  BY <1>2 DEF InInv, OneMessageEach
<1>4. /\ got' \in Seq(Answers) /\ inRing' \in Seq(Answers) /\ Len(inRing') <= InCapacity
      /\ reader' \in {"running", "waiting"} /\ waiter' \in BOOLEAN
      /\ waiter' => reader' = "waiting"
  <2>1. CASE inRing = <<>>
    BY <1>1, <1>3, <2>1 DEF InInv, InTypeOK
  <2>2. CASE inRing # <<>>
    <3>1. Give(inRing) /\ UNCHANGED waiter /\ inRing \in Seq(Answers) /\ Len(inRing) <= InCapacity
      BY <1>1, <2>2 DEF InInv, InTypeOK
    <3>2. /\ got' \in Seq(Answers) /\ inRing' \in Seq(Answers) /\ Len(inRing') <= InCapacity
          /\ reader' = "running"
      BY <2>2, <3>1, Given
    <3>3. waiter' \in BOOLEAN /\ ~waiter'
      BY <1>3, <3>1 DEF InInv, InTypeOK
    <3> QED BY <3>2, <3>3
  <2> QED BY <2>1, <2>2
<1>5. OneMessageEach'
  BY <1>1, <1>2, <1>3, <1>4 DEF InInv, OneMessageEach
<1>6. InTypeOK'
  BY <1>1, <1>2, <1>4 DEF InInv, InTypeOK
<1>7. ByteToCopy'
  BY <1>1 DEF InInv, ByteToCopy
<1> QED BY <1>5, <1>6, <1>7 DEF InInv

LEMMA AnswerHandlerIn ==
  ASSUME InInv, InStep(AnswerHandler)
  PROVE  InInv'
<1>1. /\ inbox # <<>> /\ Head(inbox) = "WRITE" /\ inbox' = Tail(inbox)
      /\ copying' = TRUE /\ rcv' = "idle"
      /\ UNCHANGED <<slow, inRing, waiter, reader, got, late, rcvBuf, rien, data>>
  BY DEF InStep, AnswerHandler, Receive, lineVars
<1>2. /\ inbox' \in Seq({"READ", "WRITE"}) /\ Sent("WRITE")
      /\ \A i, j \in DOMAIN inbox' : inbox'[i] = inbox'[j] => i = j
      /\ \A t : Sent(t)' <=> Sent(t) /\ t # "WRITE"
  BY <1>1, MessageReceived
<1>3. rcv = "waiting" /\ ~Sent("WRITE")' /\ (Sent("READ")' <=> Sent("READ"))
  BY <1>2 DEF InInv, OneMessageEach
<1>4. OneMessageEach'
  BY <1>1, <1>2, <1>3 DEF InInv, OneMessageEach
<1>5. InTypeOK'
  BY <1>1, <1>2 DEF InInv, InTypeOK
<1>6. ByteToCopy'
  BY <1>1, <1>3 DEF InInv, ByteToCopy
<1> QED BY <1>4, <1>5, <1>6 DEF InInv

LEMMA CopyIn ==
  ASSUME InInv, InStep(Copy)
  PROVE  InInv'
<1> DEFINE full == inRing \o rcvBuf
<1>1. /\ copying /\ copying' = FALSE
      /\ UNCHANGED <<slow, inbox, late, rcv, rcvBuf, rien, data>>
      /\ \/ Len(inRing) + 1 <= InCapacity /\ waiter /\ Give(full) /\ waiter' = FALSE
         \/ Len(inRing) + 1 <= InCapacity /\ inRing' = full /\ UNCHANGED <<got, reader, waiter>>
         \/ UNCHANGED <<inRing, waiter, got, reader>>
  BY DEF InStep, Copy, Store, Fits, lineVars
<1>2. /\ inRing \in Seq(Answers) /\ rcvBuf \in Seq(Answers) /\ Len(rcvBuf) = 1
  BY <1>1 DEF InInv, InTypeOK, ByteToCopy
<1>3. full \in Seq(Answers) /\ Len(full) = Len(inRing) + 1 /\ full # <<>>
  <2>1. full \in Seq(Answers) /\ Len(full) = Len(inRing) + Len(rcvBuf)
    BY <1>2, ConcatProperties
  <2>2. Len(inRing) \in Nat
    BY <1>2, LenProperties
  <2> HIDE DEF full
  <2>3. Len(full) = Len(inRing) + 1
    BY <1>2, <2>1, <2>2
  <2>4. full # <<>>
    BY <2>1, <2>2, <2>3, EmptySeq
  <2> QED BY <2>1, <2>3, <2>4
<1>4. /\ inbox' \in Seq({"READ", "WRITE"})
      /\ \A i, j \in DOMAIN inbox' : inbox'[i] = inbox'[j] => i = j
      /\ \A t : Sent(t)' <=> Sent(t)
  BY <1>1, SameMessages
<1> HIDE DEF full
<1>5. /\ got' \in Seq(Answers) /\ inRing' \in Seq(Answers) /\ Len(inRing') <= InCapacity
      /\ reader' \in {"running", "waiting"} /\ waiter' \in BOOLEAN
      /\ waiter' => waiter /\ reader' = "waiting"
      /\ reader = "waiting" /\ ~waiter => reader' = "waiting" /\ ~waiter'
  <2>1. CASE Len(inRing) + 1 <= InCapacity /\ waiter /\ Give(full) /\ waiter' = FALSE
    <3>1. /\ got' \in Seq(Answers) /\ inRing' \in Seq(Answers) /\ Len(inRing') <= InCapacity
          /\ reader' = "running"
      BY <1>3, <2>1, Given
    <3> QED BY <2>1, <3>1
  <2>2. CASE Len(inRing) + 1 <= InCapacity /\ inRing' = full /\ UNCHANGED <<got, reader, waiter>>
    BY <1>3, <2>2 DEF InInv, InTypeOK, OneMessageEach
  <2>3. CASE UNCHANGED <<inRing, waiter, got, reader>>
    BY <2>3 DEF InInv, InTypeOK, OneMessageEach
  <2> QED BY <1>1, <2>1, <2>2, <2>3
<1>6. OneMessageEach'
  BY <1>1, <1>4, <1>5 DEF InInv, OneMessageEach
<1>7. InTypeOK'
  BY <1>1, <1>4, <1>5 DEF InInv, InTypeOK
<1>8. ByteToCopy'
  BY <1>1 DEF InInv, ByteToCopy
<1> QED BY <1>6, <1>7, <1>8 DEF InInv

LEMMA RegisterIn ==
  ASSUME InInv, InStep(AwaitRcv) \/ InStep(RxInterrupt)
  PROVE  InInv'
<1>1. /\ UNCHANGED <<slow, inRing, waiter, inbox, copying, reader, got>> /\ rien' \in BOOLEAN
      /\ \/ rcv = "idle" /\ rcv' = "event RCV" /\ UNCHANGED <<rcvBuf, data, late>>
         \/ /\ rcv = "event RCV" /\ rcv' = "woken" /\ data # <<>> /\ rcvBuf' = data /\ data' = <<>>
            /\ late' \in {late, late \cup {data[1]}}
         \/ UNCHANGED <<rcv, rcvBuf, data, late>>
  BY DEF InStep, AwaitRcv, RxInterrupt, RxPending, lineVars, InInv, InTypeOK
<1>2. data # <<>> => Len(data) = 1 /\ data[1] \in Answers
  <2>1. data \in Seq(Answers) /\ Len(data) <= 1
    BY DEF InInv, InTypeOK
  <2> QED BY <2>1, AtMostOne
<1>3. /\ inbox' \in Seq({"READ", "WRITE"})
      /\ \A i, j \in DOMAIN inbox' : inbox'[i] = inbox'[j] => i = j
      /\ \A t : Sent(t)' <=> Sent(t)
  BY <1>1, SameMessages
<1>4. InTypeOK'
  <2>1. data' = <<>> => data' \in Seq(Answers) /\ Len(data') <= 1
    BY NoneOrOne
  <2>2. /\ rcvBuf \in Seq(Answers) /\ Len(rcvBuf) <= 1 /\ data \in Seq(Answers) /\ Len(data) <= 1
    BY DEF InInv, InTypeOK
  <2>3. /\ rcvBuf' \in Seq(Answers) /\ Len(rcvBuf') <= 1 /\ data' \in Seq(Answers) /\ Len(data') <= 1
    BY <1>1, <2>1, <2>2
  <2>4. rcv' \in {"idle", "event RCV", "woken", "waiting"}
    BY <1>1 DEF InInv, InTypeOK
  <2>5. /\ inRing' \in Seq(Answers) /\ Len(inRing') <= InCapacity /\ got' \in Seq(Answers)
        /\ {waiter', copying', rien'} \subseteq BOOLEAN /\ reader' \in {"running", "waiting"}
    BY <1>1 DEF InInv, InTypeOK
  <2>6. late' \subseteq Answers
    BY <1>1, <1>2 DEF InInv, InTypeOK
  <2> QED BY <1>3, <2>3, <2>4, <2>5, <2>6 DEF InTypeOK
<1>5. OneMessageEach'
  BY <1>1, <1>3 DEF InInv, OneMessageEach
<1>6. ByteToCopy'
  BY <1>1, <1>2 DEF InInv, ByteToCopy
<1> QED BY <1>4, <1>5, <1>6 DEF InInv

LEMMA AnswerIn ==
  ASSUME OutInv, Counts, InInv, Answer
  PROVE  InInv'
<1>1. /\ toAnswer > 0 /\ data' = <<answered + 1>>
      /\ UNCHANGED <<slow, inRing, waiter, inbox, copying, reader, got, late, rcv, rcvBuf, rien>>
  BY DEF Answer
<1>2. answered + 1 \in Answers
  <2>1. toAnswer + answered <= AnswerSize * MaxPolls /\ AnswerSize * MaxPolls \in Nat
    BY AnswerInRange
  <2>2. toAnswer \in Nat /\ answered \in Nat
    BY DEF Counts
  <2> DEFINE m == AnswerSize * MaxPolls
  <2>3. toAnswer + answered <= m /\ m \in Nat /\ toAnswer > 0
    BY <1>1, <2>1
  <2> HIDE DEF m
  <2>4. answered + 1 \in 1 .. m
    BY <2>2, <2>3
  <2> QED BY <2>4, Com1Assumption DEF m
<1>3. data' \in Seq(Answers) /\ Len(data') <= 1
  <2>1. data' = <<answered + 1>>
    BY <1>1
  <2> QED BY <1>2, <2>1, NoneOrOne
<1>4. InTypeOK'
  BY <1>1, <1>3 DEF InInv, InTypeOK
<1>5. OneMessageEach' /\ ByteToCopy'
  BY <1>1 DEF InInv, OneMessageEach, ByteToCopy, Sent
<1> QED BY <1>4, <1>5 DEF InInv

LEMMA NextIn == OutInv /\ Counts /\ InInv /\ [Next]_vars => InInv'
<1> SUFFICES ASSUME OutInv, Counts, InInv, [Next]_vars PROVE InInv'
  OBVIOUS
<1>1. CASE OutSteps \/ Arrive \/ DropCts \/ RaiseCts \/ PollSensors \/ SendCommand \/ UNCHANGED vars
  <2>1. UNCHANGED <<inVars, slow>>
    BY <1>1 DEF OutSteps, OutStep, Arrive, DropCts, RaiseCts, Cts, PollSensors, SendCommand, vars, lineVars
  <2> QED BY <2>1, StillIn
<1>2. CASE InSteps
  BY <1>2, ServeGetcIn, AnswerHandlerIn, CopyIn, ForwardIn, RegisterIn DEF InSteps
<1> QED BY <1>1, <1>2, ReadAnswerIn, AnswerIn DEF Next, Goes, OutSteps, InSteps

LEMMA LineInvariant == Spec => [](OutInv /\ Counts /\ InInv)
<1> QED BY InitOut, InitCounts, InitIn, NextOut, NextCounts, NextIn, PTL DEF Spec

(* Every variable keeps to its range; in particular the controller never sends
   more bytes than the polls it was sent ask for. *)
THEOREM LineTypeCorrect == Spec => []TypeOK
<1>1. OutInv /\ Counts /\ InInv => TypeOK
  <2> SUFFICES ASSUME OutInv, Counts, InInv PROVE TypeOK
    OBVIOUS
  <2>1. toAnswer + answered <= AnswerSize * MaxPolls /\ AnswerSize * MaxPolls \in Nat
    BY AnswerInRange
  <2>2. toAnswer \in Nat /\ answered \in Nat
    BY DEF Counts
  <2> DEFINE m == AnswerSize * MaxPolls
  <2>5. toAnswer + answered <= m /\ m \in Nat
    BY <2>1
  <2> HIDE DEF m
  <2>3. {toAnswer, answered} \subseteq 0 .. m
    BY <2>2, <2>5
  <2>4. {toAnswer, answered} \subseteq 0 .. AnswerSize * MaxPolls
    BY <2>3 DEF m
  <2> QED BY <2>4 DEF TypeOK, OutInv, Counts, InInv
<1> QED BY <1>1, LineInvariant, PTL

-----------------------------------------------------------------------------
(* Where an answer's bytes are: what Getc has returned, the ring, the handler and
   the register, in this order; how many are not yet returned; whether Getc waits. *)
AllBytes == ((got \o inRing) \o Pending) \o data
Held     == Len(data) + Len(Pending) + Len(inRing)
Getting  == IF reader = "waiting" THEN 1 ELSE 0

Copied  == IF copying THEN rcvBuf ELSE <<>>
Brought == IF rcv = "woken" \/ Sent("WRITE") THEN rcvBuf ELSE <<>>

(* The bytes that have come, when those of a set each overtook the one before. *)
Came(n, over) == [i \in 1 .. n |-> IF i + 1 \in over THEN i + 1 ELSE i]

(* A step that passes the bytes on: none is lost or overtakes another, and the
   reader is answered with one of them. *)
Counted == Held' + Getting = Held + Getting'
Moves   == AllBytes' = AllBytes /\ late' = late /\ Counted

LEMMA PendingIs ==
  Pending = Copied \o Brought /\ Pending' = Copied' \o Brought'
BY DEF Pending, Copied, Brought, Sent

(* One of the two parts is often missing. *)
LEMMA NoPart ==
  ASSUME NEW S, NEW s \in Seq(S)
  PROVE  s \o <<>> = s /\ <<>> \o s = s /\ <<>> \o <<>> = <<>>
<1>1. s \o <<>> = s /\ <<>> \o s = s
  BY ConcatEmptySeq
<1>2. <<>> \in Seq(S)
  OBVIOUS
<1>3. <<>> \o <<>> = <<>>
  BY <1>2, ConcatEmptySeq
<1> QED BY <1>1, <1>3

LEMMA InBytes ==
  ASSUME InInv
  PROVE  /\ got \in Seq(Answers) /\ inRing \in Seq(Answers) /\ Pending \in Seq(Answers)
         /\ data \in Seq(Answers) /\ rcvBuf \in Seq(Answers)
         /\ Len(data) \in Nat /\ Len(Pending) \in Nat /\ Len(inRing) \in Nat
         /\ Held \in Nat /\ Getting \in 0 .. 1
<1>1. /\ got \in Seq(Answers) /\ inRing \in Seq(Answers) /\ rcvBuf \in Seq(Answers)
      /\ data \in Seq(Answers)
  BY DEF InInv, InTypeOK
<1>2. Copied \in Seq(Answers) /\ Brought \in Seq(Answers)
  BY <1>1 DEF Copied, Brought
<1>3. Pending \in Seq(Answers)
  BY <1>2, PendingIs, ConcatProperties
<1>4. Len(data) \in Nat /\ Len(Pending) \in Nat /\ Len(inRing) \in Nat
  BY <1>1, <1>3, LenProperties
<1> QED BY <1>1, <1>3, <1>4 DEF Held, Getting

LEMMA StillMoves ==
  ASSUME InInv, UNCHANGED <<got, inRing, data, late, reader>>, Pending' = Pending
  PROVE  Moves
<1>1. AllBytes' = AllBytes
  BY DEF AllBytes
<1>2. Held' = Held /\ Getting' = Getting
  BY DEF Held, Getting
<1> QED BY <1>1, <1>2, InBytes DEF Moves, Counted

LEMMA ForwardMoves ==
  ASSUME InInv, InStep(Forward)
  PROVE  Moves
<1>1. /\ rcv = "woken" /\ rcv' = "waiting" /\ inbox' = Append(inbox, "WRITE")
      /\ UNCHANGED <<inRing, copying, reader, got, late, rcvBuf, data>>
  BY DEF InStep, Forward
<1>2. ~Sent("WRITE")
  BY <1>1 DEF InInv, OneMessageEach
<1>3. Sent("WRITE")'
  BY <1>1, <1>2, MessageSent
<1>4. Pending' = Pending
  BY <1>1, <1>3, PendingIs DEF Copied, Brought
<1> QED BY <1>1, <1>4, StillMoves

LEMMA AnswerHandlerMoves ==
  ASSUME InInv, InStep(AnswerHandler)
  PROVE  Moves
<1>1. /\ ~copying /\ inbox # <<>> /\ Head(inbox) = "WRITE" /\ inbox' = Tail(inbox)
      /\ copying' = TRUE /\ rcv' = "idle" /\ UNCHANGED <<inRing, reader, got, late, rcvBuf, data>>
  BY DEF InStep, AnswerHandler, Receive
<1>2. Sent("WRITE") /\ ~Sent("WRITE")'
  BY <1>1, MessageReceived
<1>3. /\ Copied = <<>> /\ Brought = rcvBuf
      /\ Copied' = rcvBuf /\ Brought' = <<>>
  BY <1>1, <1>2 DEF Copied, Brought
<1>4. Pending' = Pending
  BY <1>3, PendingIs, InBytes, NoPart
<1> QED BY <1>1, <1>4, StillMoves

LEMMA ServeGetcMoves ==
  ASSUME InInv, InStep(ServeGetc)
  PROVE  Moves
<1>1. /\ inbox # <<>> /\ Head(inbox) = "READ" /\ inbox' = Tail(inbox)
      /\ UNCHANGED <<copying, late, rcv, rcvBuf, data>>
      /\ \/ inRing = <<>> /\ UNCHANGED <<inRing, got, reader>>
         \/ inRing # <<>> /\ Give(inRing)
  BY DEF InStep, ServeGetc, Receive
<1>2. Sent("READ") /\ (Sent("WRITE")' <=> Sent("WRITE"))
  BY <1>1, MessageReceived
<1>3. Pending' = Pending
  BY <1>1, <1>2, PendingIs DEF Copied, Brought
<1>4. CASE inRing # <<>> /\ Give(inRing)
  <2>1. inRing \in Seq(Answers) /\ Len(inRing) <= InCapacity
    BY DEF InInv, InTypeOK
  <2>2. reader' = "running" /\ Len(inRing') = Len(inRing) - 1 /\ got' \o inRing' = got \o inRing
    BY <1>4, <2>1, Given
  <2>3. reader = "waiting"
    BY <1>2 DEF InInv, OneMessageEach
  <2>4. AllBytes' = AllBytes
    BY <1>1, <1>3, <2>2 DEF AllBytes
  <2>5. Len(data') = Len(data) /\ Len(Pending') = Len(Pending)
    BY <1>1, <1>3
  <2>6. Held' = Held - 1 /\ Getting = 1 /\ Getting' = 0
    BY <2>2, <2>3, <2>5, InBytes DEF Held, Getting
  <2> QED BY <1>1, <2>4, <2>6, InBytes DEF Moves, Counted
<1>5. CASE inRing = <<>> /\ UNCHANGED <<inRing, got, reader>>
  BY <1>1, <1>3, <1>5, StillMoves
<1> QED BY <1>1, <1>4, <1>5

(* The server has what it copies, before what the handler may have brought since. *)
LEMMA CopyMoves ==
  ASSUME InInv, InStep(Copy), ~panicked'
  PROVE  Moves
<1> DEFINE full == inRing \o rcvBuf
<1>1. /\ copying /\ copying' = FALSE /\ UNCHANGED <<inbox, late, rcv, rcvBuf, data>>
      /\ Len(inRing) + 1 <= InCapacity
      /\ \/ waiter /\ Give(full)
         \/ inRing' = full /\ UNCHANGED <<got, reader>>
  BY DEF InStep, Copy, Store, Fits
<1>2. Len(rcvBuf) = 1
  BY <1>1 DEF InInv, ByteToCopy
<1>3. Sent("WRITE")' <=> Sent("WRITE")
  BY <1>1, SameMessages
<1>4. /\ Copied = rcvBuf /\ Copied' = <<>> /\ Brought' = Brought
      /\ Brought \in Seq(Answers) /\ Len(Brought) \in Nat
  <2>1. Copied = rcvBuf /\ Copied' = <<>> /\ Brought' = Brought
    BY <1>1, <1>3 DEF Copied, Brought
  <2>2. Brought \in Seq(Answers)
    BY InBytes DEF Brought
  <2> QED BY <2>1, <2>2, LenProperties
<1>5. full \in Seq(Answers) /\ Len(full) = Len(inRing) + 1
  <2>1. full \in Seq(Answers) /\ Len(full) = Len(inRing) + Len(rcvBuf)
    BY InBytes, ConcatProperties
  <2> HIDE DEF full
  <2> QED BY <1>2, <2>1
<1>6. got' \o inRing' = got \o full /\ Len(inRing') + Getting = Len(full) + Getting'
  <2>1. CASE waiter /\ Give(full)
    <3>1. full # <<>> /\ Len(full) <= InCapacity
      <4> HIDE DEF full
      <4> QED BY <1>1, <1>5, InBytes, EmptySeq
    <3>2. /\ reader' = "running" /\ Len(inRing') = Len(full) - 1 /\ Len(full) \in Nat
          /\ got' \o inRing' = got \o full
      <4> HIDE DEF full
      <4> QED BY <1>5, <2>1, <3>1, Given
    <3>3. Getting = 1 /\ Getting' = 0
      BY <2>1, <3>2 DEF InInv, OneMessageEach, Getting
    <3> HIDE DEF full
    <3> QED BY <3>2, <3>3
  <2>2. CASE inRing' = full /\ UNCHANGED <<got, reader>>
    BY <2>2 DEF Getting
  <2> QED BY <1>1, <2>1, <2>2
<1>7. Pending = rcvBuf \o Brought /\ Pending' = Brought
  BY <1>4, PendingIs, NoPart
<1>8. (got' \o inRing') \o Pending' = (got \o inRing) \o Pending
  <2> DEFINE both == got \o inRing
  <2>1. /\ got \in Seq(Answers) /\ inRing \in Seq(Answers) /\ rcvBuf \in Seq(Answers)
        /\ Brought \in Seq(Answers)
    BY <1>4, InBytes
  <2>2. got \o (inRing \o rcvBuf) = (got \o inRing) \o rcvBuf
    BY <2>1, ConcatAssociative
  <2>3. both \in Seq(Answers)
    BY <2>1, ConcatProperties
  <2> HIDE DEF both
  <2>4. (both \o rcvBuf) \o Brought = both \o (rcvBuf \o Brought)
    BY <2>1, <2>3, ConcatAssociative
  <2> HIDE DEF full
  <2> QED BY <1>6, <1>7, <2>2, <2>4 DEF both, full
<1>9. AllBytes' = AllBytes
  BY <1>1, <1>8 DEF AllBytes
<1>10. Counted
  <2> DEFINE a == Len(data)
             b == Len(inRing)
             c == Len(inRing')
             d == Len(Brought)
             g == Getting
             h == Getting'
  <2>1. Len(data') = a /\ Len(Pending') = d
    BY <1>1, <1>7
  <2>2. Len(Pending) = 1 + d
    BY <1>2, <1>4, <1>7, InBytes, ConcatProperties
  <2>3. g \in 0 .. 1 /\ h \in 0 .. 1
    BY DEF Getting
  <2>4. c + g = b + 1 + h /\ c \in Nat
    <3>1. c + g = Len(full) + h /\ Len(full) = b + 1 /\ b \in Nat
      BY <1>5, <1>6, InBytes
    <3>2. c \in Nat
      <4>1. inRing' \in Seq(Answers)
        <5>1. CASE waiter /\ Give(full)
          <6>1. RestOf(full, 1) \in Seq(Answers)
            <7> HIDE DEF full
            <7> QED BY <1>5, ReadOne
          <6> QED BY <5>1, <6>1 DEF Give
        <5>2. CASE inRing' = full /\ UNCHANGED <<got, reader>>
          BY <1>5, <5>2
        <5> QED BY <1>1, <5>1, <5>2
      <4> QED BY <4>1, LenProperties
    <3> HIDE DEF full
    <3> QED BY <3>1, <3>2
  <2>5. /\ Held = a + (1 + d) + b /\ Held' = a + d + c
        /\ a \in Nat /\ b \in Nat /\ d \in Nat
    BY <1>4, <2>1, <2>2, InBytes DEF Held
  <2> HIDE DEF full, a, b, c, d, g, h
  <2>6. Held' + g = Held + h
    BY <2>3, <2>4, <2>5
  <2> QED BY <2>6 DEF Counted, g, h
<1> QED BY <1>1, <1>9, <1>10 DEF Moves

(* The handler takes the byte: it is the next one, if the server has copied the last;
   if not, the byte is now in both places. *)
Takes ==
  /\ rcv = "event RCV" /\ rcv' = "woken" /\ data # <<>> /\ rcvBuf' = data /\ data' = <<>>
  /\ UNCHANGED <<inRing, inbox, copying, reader, got>>
  /\ late' = IF copying THEN late \cup {data[1]} ELSE late

LEMMA TakesParts ==
  ASSUME InInv, Takes
  PROVE  /\ Pending = Copied /\ Brought' = data
         /\ Copied = IF copying THEN rcvBuf ELSE <<>>
         /\ Copied' = IF copying THEN data ELSE <<>>
         /\ Len(data) = 1 /\ data = <<data[1]>> /\ data[1] \in Answers
         /\ Counted
<1>1. Sent("WRITE")' <=> Sent("WRITE")
  BY SameMessages DEF Takes
<1>2. ~Sent("WRITE")
  BY DEF Takes, InInv, OneMessageEach
<1>3. /\ Copied = IF copying THEN rcvBuf ELSE <<>>
      /\ Copied' = IF copying THEN data ELSE <<>>
      /\ Brought = <<>> /\ Brought' = data
  BY <1>1, <1>2 DEF Takes, Copied, Brought
<1>4. Copied \in Seq(Answers)
  BY <1>3, InBytes
<1>5. Pending = Copied
  BY <1>3, <1>4, PendingIs, NoPart
<1>6. Len(data) = 1 /\ data = <<data[1]>> /\ data[1] \in Answers
  <2>1. data \in Seq(Answers) /\ Len(data) <= 1 /\ data # <<>>
    BY DEF InInv, InTypeOK, Takes
  <2> QED BY <2>1, AtMostOne
<1>7. Len(Pending') = Len(Pending) + 1 /\ Len(data') = 0
  <2>1. CASE copying
    <3>1. Pending' = data \o data
      BY <1>3, <2>1, PendingIs
    <3>2. data \in Seq(Answers) /\ Len(data \o data) = Len(data) + Len(data)
      BY InBytes, ConcatProperties
    <3>3. Len(Pending') = 2
      <4>1. Len(data) = 1
        BY <1>6
      <4> QED BY <3>1, <3>2, <4>1
    <3>4. Len(Pending) = 1
      BY <1>3, <1>5, <2>1 DEF InInv, ByteToCopy
    <3>5. Len(data') = 0
      BY DEF Takes
    <3> QED BY <3>3, <3>4, <3>5
  <2>2. CASE ~copying
    <3>1. Pending' = data
      BY <1>3, <2>2, PendingIs, InBytes, NoPart
    <3>2. Len(Pending) = 0
      BY <1>3, <1>5, <2>2
    <3>3. Len(data') = 0
      BY DEF Takes
    <3>4. Len(data) = 1
      BY <1>6
    <3> QED BY <3>1, <3>2, <3>3, <3>4
  <2> QED BY <2>1, <2>2
<1>8. Counted
  <2>1. Len(inRing') = Len(inRing) /\ Getting' = Getting
    BY DEF Takes, Getting
  <2>2. Held' = Held
    BY <1>6, <1>7, <2>1, InBytes DEF Held
  <2> QED BY <2>1, <2>2 DEF Counted
<1> QED BY <1>3, <1>5, <1>6, <1>8

LEMMA NextTaken ==
  ASSUME InInv, Takes, ~copying
  PROVE  Moves
<1>1. Pending = <<>> /\ Pending' = data
  BY TakesParts, PendingIs, InBytes, NoPart
<1> DEFINE both == got \o inRing
<1>2. both \in Seq(Answers) /\ both' = both
  BY InBytes, ConcatProperties DEF Takes
<1> HIDE DEF both
<1>3. (both \o <<>>) \o data = (both \o data) \o <<>>
  <2>1. both \o data \in Seq(Answers)
    BY <1>2, InBytes, ConcatProperties
  <2> QED BY <1>2, <2>1, ConcatEmptySeq
<1>4. AllBytes' = AllBytes
  BY <1>1, <1>2, <1>3 DEF AllBytes, Takes, both
<1> QED BY <1>4, TakesParts DEF Moves, Takes

LEMMA RegisterMoves ==
  ASSUME InInv, InStep(AwaitRcv) \/ InStep(RxInterrupt)
  PROVE  Moves \/ (Takes /\ copying)
<1>1. /\ UNCHANGED <<inRing, inbox, copying, reader, got>>
      /\ \/ rcv = "idle" /\ rcv' = "event RCV" /\ UNCHANGED <<rcvBuf, data, late>>
         \/ Takes
         \/ UNCHANGED <<rcv, rcvBuf, data, late>>
  BY DEF InStep, AwaitRcv, RxInterrupt, RxPending, Takes
<1>2. Sent("WRITE")' <=> Sent("WRITE")
  BY <1>1, SameMessages
<1>3. CASE (rcv = "idle" /\ rcv' = "event RCV") /\ UNCHANGED <<rcvBuf, data, late>>
  <2>1. Pending' = Pending
    BY <1>1, <1>2, <1>3, PendingIs DEF Copied, Brought
  <2> QED BY <1>1, <1>3, <2>1, StillMoves
<1>4. CASE UNCHANGED <<rcv, rcvBuf, data, late>>
  <2>1. Pending' = Pending
    BY <1>1, <1>2, <1>4, PendingIs DEF Copied, Brought
  <2> QED BY <1>1, <1>4, <2>1, StillMoves
<1> QED BY <1>1, <1>3, <1>4, NextTaken

LEMMA InStepsMove ==
  ASSUME InInv, InSteps, ~panicked'
  PROVE  Moves \/ (Takes /\ copying)
BY ForwardMoves, AnswerHandlerMoves, ServeGetcMoves, CopyMoves, RegisterMoves DEF InSteps

LEMMA OthersStill ==
  ASSUME InInv, UNCHANGED inVars
  PROVE  Moves
<1>1. Pending' = Pending
  BY DEF Pending, inVars
<1> QED BY <1>1, StillMoves DEF inVars

LEMMA ReadAnswerMoves ==
  ASSUME InInv, ReadAnswer
  PROVE  AllBytes' = AllBytes /\ late' = late /\ Held' = Held /\ Getting = 0 /\ Getting' = 1
<1>1. /\ reader = "running" /\ reader' = "waiting" /\ inbox' = Append(inbox, "READ")
      /\ UNCHANGED <<inRing, copying, got, late, rcv, rcvBuf, data>>
  BY DEF ReadAnswer, Getc
<1>2. ~Sent("READ")
  BY <1>1 DEF InInv, OneMessageEach
<1>3. Sent("WRITE")' <=> Sent("WRITE")
  BY <1>1, <1>2, MessageSent
<1>4. Pending' = Pending
  BY <1>1, <1>3, PendingIs DEF Copied, Brought
<1> QED BY <1>1, <1>4 DEF AllBytes, Held, Getting

(* The register fills. *)
LEMMA OneMoreByte ==
  ASSUME NEW n \in Nat, NEW over \in SUBSET (1 .. n)
  PROVE  Came(n, over) \o <<n + 1>> = Came(n + 1, over)
<1> DEFINE s == Came(n, over)
           t == <<n + 1>>
           u == Came(n + 1, over)
           F(i) == IF i + 1 \in over THEN i + 1 ELSE i
<1>1. s \in Seq(Nat) /\ Len(s) = n /\ \A i \in 1 .. n : s[i] = F(i)
  BY DEF Came
<1>2. t \in Seq(Nat) /\ Len(t) = 1 /\ t[1] = n + 1
  OBVIOUS
<1>3. u \in Seq(Nat) /\ Len(u) = n + 1 /\ \A i \in 1 .. n + 1 : u[i] = F(i)
  BY DEF Came
<1>4. F(n + 1) = n + 1
  OBVIOUS
<1> HIDE DEF s, t, u, F
<1>5. /\ s \o t \in Seq(Nat) /\ Len(s \o t) = Len(s) + Len(t)
      /\ \A i \in 1 .. Len(s) + Len(t) : (s \o t)[i] = IF i <= Len(s) THEN s[i] ELSE t[i - Len(s)]
  BY <1>1, <1>2, ConcatProperties
<1> DEFINE v == s \o t
<1>6. v \in Seq(Nat) /\ Len(v) = n + 1
  BY <1>1, <1>2, <1>5
<1>7. \A i \in 1 .. n + 1 : v[i] = F(i)
  <2> TAKE i \in 1 .. n + 1
  <2>1. v[i] = IF i <= n THEN s[i] ELSE t[i - n]
    BY <1>1, <1>2, <1>5
  <2>2. CASE i <= n
    BY <1>1, <2>1, <2>2
  <2>3. CASE i > n
    <3>1. i = n + 1 /\ i - n = 1
      BY <2>3
    <3> QED BY <1>2, <1>4, <2>1, <2>3, <3>1
  <2>4. i <= n \/ i > n
    OBVIOUS
  <2> QED BY <2>2, <2>3, <2>4
<1> HIDE DEF v
<1>8. v = u
  BY <1>3, <1>6, <1>7, SeqEqual
<1> QED BY <1>8 DEF s, t, u, v

LEMMA AnswerMoves ==
  ASSUME InInv, Counts, Answer
  PROVE  /\ Held' = Held + 1 /\ Getting' = Getting
         /\ late' = late /\ answered' = answered + 1 /\ answered \in Nat
         /\ AllBytes' = AllBytes \o <<answered + 1>>
<1>1. /\ data = <<>> /\ data' = <<answered + 1>> /\ answered' = answered + 1
      /\ UNCHANGED <<got, inRing, inbox, copying, reader, late, rcv, rcvBuf>>
  BY DEF Answer
<1>2. Pending' = Pending
  BY <1>1 DEF Pending
<1>3. Len(data) = 0 /\ Len(data') = 1
  BY <1>1
<1>4. Held' = Held + 1 /\ Getting' = Getting
  <2>1. Len(Pending') = Len(Pending) /\ Len(inRing') = Len(inRing)
    BY <1>1, <1>2
  <2>2. Getting' = Getting
    BY <1>1 DEF Getting
  <2> QED BY <1>3, <2>1, <2>2, InBytes DEF Held
<1> DEFINE all == (got \o inRing) \o Pending
<1>5. all \in Seq(Answers)
  <2>1. got \o inRing \in Seq(Answers)
    BY InBytes, ConcatProperties
  <2> QED BY <2>1, InBytes, ConcatProperties
<1>6. AllBytes = all \o <<>>
  BY <1>1 DEF AllBytes
<1>7. AllBytes' = all \o <<answered + 1>>
  BY <1>1, <1>2 DEF AllBytes
<1> HIDE DEF all
<1>8. AllBytes = all
  BY <1>5, <1>6, ConcatEmptySeq
<1>9. answered \in Nat
  BY DEF Counts
<1> QED BY <1>1, <1>4, <1>7, <1>8, <1>9

(* Two elements at the end. *)
LEMMA TwoMore ==
  ASSUME NEW S, NEW p \in Seq(S), NEW b \in S, NEW d \in S
  PROVE  LET s == p \o (<<b>> \o <<d>>)
         IN  /\ s \in Seq(S) /\ Len(s) = Len(p) + 2 /\ Len(p) \in Nat
             /\ \A i \in 1 .. Len(p) : s[i] = p[i]
             /\ s[Len(p) + 1] = b /\ s[Len(p) + 2] = d
<1> DEFINE e == <<b>> \o <<d>>
           n == Len(p)
<1>1. e \in Seq(S) /\ Len(e) = 2 /\ e[1] = b /\ e[2] = d
  OBVIOUS
<1> HIDE DEF e
<1>2. /\ p \o e \in Seq(S) /\ Len(p \o e) = n + 2 /\ n \in Nat
      /\ \A i \in 1 .. n + 2 : (p \o e)[i] = IF i <= n THEN p[i] ELSE e[i - n]
  BY <1>1, ConcatProperties, LenProperties
<1> DEFINE s == p \o e
<1>3. \A i \in 1 .. n + 2 : s[i] = IF i <= n THEN p[i] ELSE e[i - n]
  BY <1>2
<1>4. s \in Seq(S) /\ Len(s) = n + 2 /\ n \in Nat
  BY <1>2
<1> HIDE DEF n, s
<1>5. \A i \in 1 .. n : s[i] = p[i]
  BY <1>3, <1>4
<1>6. s[n + 1] = e[(n + 1) - n] /\ s[n + 2] = e[(n + 2) - n]
  BY <1>3, <1>4
<1>7. (n + 1) - n = 1 /\ (n + 2) - n = 2
  BY <1>4
<1>8. s[n + 1] = b /\ s[n + 2] = d
  BY <1>1, <1>6, <1>7
<1> QED BY <1>4, <1>5, <1>8 DEF n, s, e

(* The handler takes a byte while the server has the last one to copy. *)
LEMMA Overtakes ==
  ASSUME InInv, Takes, copying, NEW n \in Nat, late \subseteq 1 .. n, AllBytes = Came(n, late)
  PROVE  late' \subseteq 1 .. n /\ AllBytes' = Came(n, late')
<1> DEFINE p == got \o inRing
           b == rcvBuf[1]
           d == data[1]
           k == Len(p)
           s == p \o (<<b>> \o <<d>>)
           t == p \o (<<d>> \o <<d>>)
           F(i) == IF i + 1 \in late THEN i + 1 ELSE i
           G(i) == IF i + 1 \in late' THEN i + 1 ELSE i
<1>1. p \in Seq(Answers) /\ p' = p
  BY InBytes, ConcatProperties DEF Takes
<1>2. /\ Pending = rcvBuf /\ data = <<d>> /\ d \in Answers
      /\ Pending' = data \o data /\ data' = <<>> /\ late' = late \cup {d}
  BY TakesParts, PendingIs DEF Takes
<1>3. rcvBuf = <<b>> /\ b \in Answers
  <2>1. Len(rcvBuf) = 1
    BY DEF InInv, ByteToCopy
  <2> QED BY <2>1, InBytes, JustOne
<1> HIDE DEF p, b, d
<1>4. AllBytes = s
  <2>1. (p \o <<b>>) \o <<d>> = p \o (<<b>> \o <<d>>)
    <3>1. <<b>> \in Seq(Answers) /\ <<d>> \in Seq(Answers)
      BY <1>2, <1>3
    <3> QED BY <1>1, <3>1, ConcatAssociative
  <2> QED BY <1>2, <1>3, <2>1 DEF AllBytes, p
<1>5. AllBytes' = t
  <2>1. AllBytes' = (p \o (<<d>> \o <<d>>)) \o <<>>
    BY <1>1, <1>2 DEF AllBytes, p
  <2>2. t \in Seq(Answers)
    BY <1>1, <1>2, TwoMore
  <2> HIDE DEF t
  <2>3. t \o <<>> = t
    BY <2>2, ConcatEmptySeq
  <2> QED BY <2>1, <2>3 DEF t
<1>6. /\ s \in Seq(Answers) /\ Len(s) = k + 2 /\ k \in Nat
      /\ \A i \in 1 .. k : s[i] = p[i]
      /\ s[k + 1] = b /\ s[k + 2] = d
  BY <1>1, <1>2, <1>3, TwoMore
<1>7. /\ t \in Seq(Answers) /\ Len(t) = k + 2
      /\ \A i \in 1 .. k : t[i] = p[i]
      /\ t[k + 1] = d /\ t[k + 2] = d
  BY <1>1, <1>2, TwoMore
<1>8. Len(s) = n /\ \A i \in 1 .. n : s[i] = F(i)
  BY <1>4 DEF Came
<1> HIDE DEF s, t, k
<1>9. n = k + 2
  BY <1>6, <1>8
<1>10. d = n
  <2>1. n \in 1 .. n /\ n + 1 \notin late
    BY <1>6, <1>9
  <2>2. F(n) = n
    BY <2>1
  <2> HIDE DEF F
  <2>3. s[n] = n
    BY <1>8, <2>1, <2>2
  <2> QED BY <1>6, <1>9, <2>3
<1>11. late' \subseteq 1 .. n
  BY <1>2, <1>6, <1>9, <1>10
<1>12. \A i \in 1 .. n : t[i] = G(i)
  <2> TAKE i \in 1 .. n
  <2>1. CASE i <= k
    <3>1. i + 1 # n
      BY <1>6, <1>9, <2>1
    <3>2. G(i) = F(i)
      BY <1>2, <1>10, <3>1
    <3> HIDE DEF F, G
    <3> QED BY <1>6, <1>7, <1>8, <1>9, <2>1, <3>2
  <2>2. CASE i = k + 1
    <3>1. i + 1 = n /\ i + 1 \in late'
      BY <1>2, <1>6, <1>9, <1>10, <2>2
    <3>2. G(i) = n
      BY <3>1
    <3> QED BY <1>7, <1>10, <2>2, <3>2
  <2>3. CASE i = k + 2
    <3>1. i = n /\ n + 1 \notin late'
      BY <1>9, <1>11, <2>3
    <3>2. G(i) = n
      BY <3>1
    <3> QED BY <1>7, <1>10, <2>3, <3>2
  <2>4. i <= k \/ i = k + 1 \/ i = k + 2
    BY <1>6, <1>9
  <2> QED BY <2>1, <2>2, <2>3, <2>4
<1>13. t = Came(n, late')
  <2> DEFINE u == Came(n, late')
  <2>1. u \in Seq(Nat) /\ Len(u) = n /\ \A i \in 1 .. n : u[i] = G(i)
    BY DEF Came
  <2>2. Seq(Nat) \subseteq Seq(Nat \cup Answers) /\ Seq(Answers) \subseteq Seq(Nat \cup Answers)
    BY SeqMonotonic
  <2> HIDE DEF u, G
  <2>3. t = u
    BY <1>7, <1>9, <1>12, <2>1, <2>2, SeqEqual
  <2> QED BY <2>3 DEF u
<1> QED BY <1>5, <1>11, <1>13

(* Nothing runs once the machine has stopped. *)
LEMMA PanicStops == [Next]_vars /\ ~panicked' => ~panicked
<1> SUFFICES ASSUME [Next]_vars, ~panicked' PROVE ~panicked
  OBVIOUS
<1>1. CASE UNCHANGED vars
  BY <1>1 DEF vars, outVars, serverVars
<1>2. CASE OutSteps \/ InSteps
  <2>1. CASE OutSteps
    BY <2>1 DEF OutSteps, OutStep
  <2>2. CASE InSteps
    BY <2>2 DEF InSteps, InStep
  <2> QED BY <1>2, <2>1, <2>2
<1>3. CASE ReadAnswer \/ Answer
  BY <1>3 DEF ReadAnswer, Answer
<1>4. CASE Arrive \/ DropCts \/ RaiseCts
  BY <1>4 DEF Arrive, DropCts, RaiseCts, Cts
<1>5. CASE PollSensors \/ SendCommand
  BY <1>5 DEF PollSensors, SendCommand
<1> QED BY <1>1, <1>2, <1>3, <1>4, <1>5 DEF Next, Goes, OutSteps, InSteps

(* The bytes that overtook another have come. *)
FirstInv == ~panicked => late \subseteq 1 .. answered /\ AllBytes = Came(answered, late)

LEMMA NextFirst ==
  OutInv /\ Counts /\ InInv /\ FirstInv /\ [Next]_vars => FirstInv'
<1> SUFFICES ASSUME OutInv, Counts, InInv, FirstInv, [Next]_vars, ~panicked'
             PROVE  late' \subseteq 1 .. answered' /\ AllBytes' = Came(answered', late')
  BY DEF FirstInv
<1>1. late \subseteq 1 .. answered /\ AllBytes = Came(answered, late) /\ answered \in Nat
  BY PanicStops DEF FirstInv, Counts
<1>2. ASSUME AllBytes' = AllBytes, UNCHANGED <<late, answered>>
      PROVE  late' \subseteq 1 .. answered' /\ AllBytes' = Came(answered', late')
  BY <1>1, <1>2
<1>3. CASE OutSteps \/ Arrive \/ DropCts \/ RaiseCts \/ PollSensors \/ SendCommand \/ UNCHANGED vars
  <2>1. UNCHANGED <<inVars, answered>>
    BY <1>3 DEF OutSteps, OutStep, Arrive, DropCts, RaiseCts, Cts, PollSensors, SendCommand, vars, lineVars
  <2>2. AllBytes' = AllBytes /\ late' = late
    BY <2>1, OthersStill DEF Moves
  <2> QED BY <1>2, <2>1, <2>2
<1>4. CASE InSteps
  <2>1. UNCHANGED answered
    BY <1>4 DEF InSteps, InStep, lineVars
  <2>2. CASE Moves
    BY <1>2, <2>1, <2>2 DEF Moves
  <2>3. CASE Takes /\ copying
    BY <1>1, <2>1, <2>3, Overtakes
  <2> QED BY <1>4, <2>2, <2>3, InStepsMove
<1>5. CASE ReadAnswer
  <2>1. UNCHANGED answered
    BY <1>5 DEF ReadAnswer, lineVars
  <2> QED BY <1>2, <1>5, <2>1, ReadAnswerMoves
<1>6. CASE Answer
  <2>1. /\ late' = late /\ answered' = answered + 1
        /\ AllBytes' = Came(answered, late) \o <<answered + 1>>
    BY <1>1, <1>6, AnswerMoves
  <2>2. AllBytes' = Came(answered', late')
    BY <1>1, <2>1, OneMoreByte
  <2> QED BY <1>1, <2>1, <2>2
<1> QED BY <1>3, <1>4, <1>5, <1>6 DEF Next, Goes, OutSteps, InSteps

LEMMA InitFirst == Init => FirstInv
<1> SUFFICES ASSUME Init PROVE FirstInv
  OBVIOUS
<1>1. got = <<>> /\ inRing = <<>> /\ data = <<>> /\ answered = 0 /\ late = {}
      /\ Copied = <<>> /\ Brought = <<>>
  BY DEF Init, InInit, Copied, Brought, Sent
<1>2. Came(0, {}) = <<>>
  <2> DEFINE s == Came(0, {})
  <2>1. s \in Seq(Nat) /\ Len(s) = 0
    BY DEF Came
  <2> HIDE DEF s
  <2>2. s = <<>>
    BY <2>1, EmptySeq
  <2> QED BY <2>2 DEF s
<1>3. <<>> \o <<>> = <<>>
  <2>1. <<>> \in Seq(Nat)
    OBVIOUS
  <2> QED BY <2>1, ConcatEmptySeq
<1>4. AllBytes = <<>>
  BY <1>1, <1>3, PendingIs DEF AllBytes
<1> QED BY <1>1, <1>2, <1>4 DEF FirstInv

(* Getc returns the controller's bytes in the order they came, each once, with one
   exception: a byte that the receive handler stores after the InputServer has
   answered it and before the server has copied the last one is read in that one's
   place too.  Nothing else doubles, loses or overtakes a byte, on any line. *)
THEOREM FirstUnreturnedCorrect == Spec => []FirstUnreturned
<1>1. FirstInv => FirstUnreturned
  BY DEF FirstInv, FirstUnreturned, AllBytes, Came
<1> QED BY <1>1, InitFirst, NextFirst, LineInvariant, PTL DEF Spec


(* The two ends, with the polls counted where they are. *)
InStepInv ==
  (slow /\ ~panicked) => missing + Getting = AnswerSize * OnTheWay + toAnswer + Held

LEMMA InStepIs ==
  ASSUME OutInv, Counts, InInv
  PROVE  InStepInv <=> AnswersInStep
<1> DEFINE owed == AnswerSize * OnTheWay
<1>1. PollsOut = OnTheWay
  BY PollsOutIs
<1>2. OnTheWay \in Nat /\ AnswerSize \in Nat /\ owed \in Nat /\ toAnswer \in Nat
  BY OnTheWayNatural, Com1Assumption, OneMore DEF Counts
<1>3. AnswersInStep <=>
        ((slow /\ ~panicked) =>
           missing + Getting = owed + toAnswer + Len(data) + Len(Pending) + Len(inRing))
  BY <1>1 DEF AnswersInStep, Getting
<1>4. InStepInv <=> ((slow /\ ~panicked) => missing + Getting = owed + toAnswer + Held)
  BY DEF InStepInv
<1> HIDE DEF owed
<1>5. owed + toAnswer + Held = owed + toAnswer + Len(data) + Len(Pending) + Len(inRing)
  BY <1>2, InBytes DEF Held
<1> QED BY <1>3, <1>4, <1>5

LEMMA NextInStep ==
  OutInv /\ Counts /\ InInv /\ InStepInv /\ [Next]_vars => InStepInv'
<1> SUFFICES ASSUME OutInv, Counts, InInv, InStepInv, [Next]_vars, slow', ~panicked'
             PROVE  missing' + Getting' = AnswerSize * OnTheWay' + toAnswer' + Held'
  BY DEF InStepInv
<1>1. slow /\ ~panicked
  BY PanicStops DEF Next, Goes, OutStep, InStep, ReadAnswer, Arrive, DropCts, RaiseCts, Cts, Answer,
         PollSensors, SendCommand, lineVars, vars
<1> DEFINE owed == AnswerSize * OnTheWay
<1>2. missing + Getting = owed + toAnswer + Held
  BY <1>1 DEF InStepInv
<1>3. /\ OnTheWay \in Nat /\ AnswerSize \in Nat /\ owed \in Nat /\ toAnswer \in Nat
      /\ missing \in Nat /\ Held \in Nat /\ Getting \in 0 .. 1
  <2>1. OnTheWay \in Nat /\ AnswerSize \in Nat
    BY OnTheWayNatural, Com1Assumption
  <2>2. owed \in Nat
    BY <2>1, OneMore
  <2> QED BY <2>1, <2>2, InBytes DEF Counts
<1>4. InInv' /\ OutInv'
  BY NextIn, NextOut
<1>5. Held' \in Nat /\ Getting' \in 0 .. 1
  <2>1. /\ inRing' \in Seq(Answers) /\ rcvBuf' \in Seq(Answers) /\ data' \in Seq(Answers)
    BY <1>4 DEF InInv, InTypeOK
  <2>2. Pending' \in Seq(Answers)
    <3>1. Copied' \in Seq(Answers) /\ Brought' \in Seq(Answers)
      BY <2>1 DEF Copied, Brought
    <3> QED BY <3>1, PendingIs, ConcatProperties
  <2>3. Len(data') \in Nat /\ Len(Pending') \in Nat /\ Len(inRing') \in Nat
    BY <2>1, <2>2, LenProperties
  <2> QED BY <2>3 DEF Held, Getting
<1>6. ASSUME OnTheWay' = OnTheWay, UNCHANGED <<missing, toAnswer>>, Counted
      PROVE  missing' + Getting' = AnswerSize * OnTheWay' + toAnswer' + Held'
  <2>1. AnswerSize * OnTheWay' = owed
    BY <1>6
  <2>2. Held' + Getting = Held + Getting' /\ missing' = missing /\ toAnswer' = toAnswer
    BY <1>6 DEF Counted
  <2> HIDE DEF owed
  <2>3. missing' + Getting' = owed + toAnswer' + Held'
    BY <1>2, <1>3, <1>5, <2>2
  <2> QED BY <2>1, <2>3
<1>7. CASE OutSteps
  <2>1. UNCHANGED <<inVars, missing, toAnswer>>
    BY <1>7 DEF OutSteps, OutStep, lineVars, useVars
  <2>2. OnTheWay' = OnTheWay
    BY <1>7, OutStepsTravel DEF Travels
  <2>3. Counted
    BY <2>1, OthersStill DEF Moves
  <2> QED BY <1>6, <2>1, <2>2, <2>3
<1>8. CASE DropCts \/ RaiseCts \/ UNCHANGED vars
  <2>1. UNCHANGED <<inVars, missing, toAnswer, line, holding, ch, ring, outbox>>
    BY <1>8 DEF DropCts, RaiseCts, Cts, vars, outVars, uartVars, serverVars, lineVars, useVars
  <2>2. OnTheWay' = OnTheWay
    BY <2>1 DEF OnTheWay
  <2>3. Counted
    BY <2>1, OthersStill DEF Moves
  <2> QED BY <1>6, <2>1, <2>2, <2>3
<1>9. CASE InSteps
  <2>1. UNCHANGED <<missing, toAnswer, line, holding, ch, ring, outbox>>
    BY <1>9 DEF InSteps, InStep, uartVars, lineVars, useVars
  <2>2. OnTheWay' = OnTheWay
    BY <2>1 DEF OnTheWay
  <2>3. Counted
    BY <1>9, InStepsMove, TakesParts DEF Moves
  <2> QED BY <1>6, <2>1, <2>2, <2>3
<1>10. CASE SendCommand
  <2>1. UNCHANGED <<inVars, missing, toAnswer>>
    BY <1>10 DEF SendCommand, lineVars
  <2>2. Counted
    BY <2>1, OthersStill DEF Moves
  <2> QED BY <1>6, <1>10, <2>1, <2>2, CommandTravels
<1>11. CASE PollSensors
  <2>1. UNCHANGED <<inVars, toAnswer>> /\ missing = 0 /\ reader = "running" /\ missing' = AnswerSize
    BY <1>11 DEF PollSensors, lineVars
  <2>2. OnTheWay' = OnTheWay + 1
    BY <1>11, PollCounts
  <2>3. AnswerSize * OnTheWay' = owed + AnswerSize
    BY <1>3, <2>2, OneMore
  <2>4. Held' = Held /\ Getting = 0 /\ Getting' = 0
    <3>1. Pending' = Pending
      BY <2>1 DEF Pending, inVars
    <3> QED BY <2>1, <3>1 DEF Held, Getting, inVars
  <2> HIDE DEF owed
  <2>5. missing' + Getting' = (owed + AnswerSize) + toAnswer' + Held'
    BY <1>2, <1>3, <2>1, <2>4
  <2> QED BY <2>3, <2>5
<1>12. CASE ReadAnswer
  <2>1. missing' = missing - 1
        /\ UNCHANGED <<toAnswer, line, holding, ch, ring, outbox>>
    BY <1>12 DEF ReadAnswer, outVars, uartVars, serverVars, lineVars
  <2>2. OnTheWay' = OnTheWay
    BY <2>1 DEF OnTheWay
  <2>3. Held' = Held /\ Getting = 0 /\ Getting' = 1
    BY <1>12, ReadAnswerMoves
  <2>4. AnswerSize * OnTheWay' = owed
    BY <2>2
  <2> HIDE DEF owed
  <2>5. missing' + Getting' = owed + toAnswer' + Held'
    BY <1>2, <1>3, <2>1, <2>3
  <2> QED BY <2>4, <2>5
<1>13. CASE Answer
  <2>1. toAnswer > 0 /\ toAnswer' = toAnswer - 1
        /\ UNCHANGED <<missing, line, holding, ch, ring, outbox>>
    BY <1>13 DEF Answer, outVars, uartVars, serverVars, useVars
  <2>2. OnTheWay' = OnTheWay
    BY <2>1 DEF OnTheWay
  <2>3. Held' = Held + 1 /\ Getting' = Getting
    BY <1>13, AnswerMoves
  <2>4. AnswerSize * OnTheWay' = owed
    BY <2>2
  <2> HIDE DEF owed
  <2>5. missing' + Getting' = owed + toAnswer' + Held'
    BY <1>2, <1>3, <2>1, <2>3
  <2> QED BY <2>4, <2>5
<1>14. CASE Arrive
  <2>1. /\ line # <<>> /\ UNCHANGED <<inVars, missing>>
        /\ toAnswer' = IF line = <<Poll>> /\ controller = "ready" THEN toAnswer + AnswerSize
                                                                   ELSE toAnswer
    BY <1>14 DEF Arrive, useVars
  <2>2. controller = "ready"
    BY <1>1, <2>1 DEF OutInv, InBeat, Quiet
  <2>4. OnTheWay' \in Nat
    BY <1>4, LaterNatural
  <2>3. /\ line = <<Poll>> => OnTheWay = OnTheWay' + 1
        /\ line # <<Poll>> => OnTheWay = OnTheWay'
    <3>1. /\ OnTheWay = OnTheWay' + Polled(line)
          /\ line = <<Poll>> => Polled(line) = 1
          /\ line # <<Poll>> => Polled(line) = 0
      BY <1>14, ArriveTravels
    <3> QED BY <2>4, <3>1
  <2>5. Held' = Held /\ Getting' = Getting
    <3>1. Pending' = Pending
      BY <2>1 DEF Pending, inVars
    <3> QED BY <2>1, <3>1 DEF Held, Getting, inVars
  <2> DEFINE left == AnswerSize * OnTheWay'
  <2>6. CASE line = <<Poll>>
    <3>1. OnTheWay = OnTheWay' + 1
      BY <2>3, <2>6
    <3>2. owed = left + AnswerSize /\ left \in Nat
      BY <1>3, <2>4, <3>1, OneMore
    <3>3. toAnswer' = toAnswer + AnswerSize /\ missing' = missing
      BY <2>1, <2>2, <2>6
    <3> HIDE DEF owed, left
    <3>4. missing' + Getting' = left + toAnswer' + Held'
      BY <1>2, <1>3, <2>5, <3>2, <3>3
    <3> QED BY <3>4 DEF left
  <2>7. CASE line # <<Poll>>
    <3>1. OnTheWay = OnTheWay'
      BY <2>3, <2>4, <2>7
    <3>2. owed = left
      BY <3>1
    <3>3. toAnswer' = toAnswer /\ missing' = missing
      BY <2>1, <2>7
    <3> HIDE DEF owed, left
    <3>4. missing' + Getting' = left + toAnswer' + Held'
      BY <1>2, <1>3, <2>5, <3>2, <3>3
    <3> QED BY <3>4 DEF left
  <2> QED BY <2>6, <2>7
<1> QED BY <1>7, <1>8, <1>9, <1>10, <1>11, <1>12, <1>13, <1>14 DEF Next, Goes, OutSteps, InSteps

LEMMA InitInStep == Init => InStepInv
<1> SUFFICES ASSUME Init PROVE InStepInv
  OBVIOUS
<1>1. /\ inRing = <<>> /\ data = <<>> /\ Pending = <<>> /\ missing = 0 /\ toAnswer = 0
      /\ reader = "running" /\ polls = 0
  BY DEF Init, InInit, Pending
<1>2. OnTheWay = 0
  <2>1. OnTheWay \in Nat /\ Polled(wire) \in Nat
    BY InitOut, OnTheWayNatural
  <2> QED BY <1>1, <2>1, InitCounts DEF Counts
<1>3. Len(<<>>) = 0
  OBVIOUS
<1>4. Held = 0 /\ Getting = 0
  <2>1. Len(data) = 0 /\ Len(Pending) = 0 /\ Len(inRing) = 0
    BY <1>1
  <2> QED BY <1>1, <2>1 DEF Held, Getting
<1>5. AnswerSize * OnTheWay = 0
  BY <1>2, Com1Assumption
<1> QED BY <1>1, <1>4, <1>5 DEF InStepInv

(* On a slow line the sensor server's slave and the controller never lose step: what the
   slave has still to read is what the polls on their way ask for and what is on its
   way back, so that an answer is never read as part of another; a byte that is read
   in the place of the one before it does not change their number. *)
THEOREM AnswersInStepCorrect == Spec => []AnswersInStep
<1>1. OutInv /\ Counts /\ InInv /\ InStepInv => AnswersInStep
  BY InStepIs
<1> QED BY <1>1, InitInStep, NextInStep, LineInvariant, PTL DEF Spec

=============================================================================
