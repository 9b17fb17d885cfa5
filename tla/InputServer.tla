---------------------------- MODULE InputServer ----------------------------
(***************************************************************************)
(* COM1, inwards: the InputServer and its notifier Uart1RCVHandler         *)
(* (servers/uart.c), the receive interrupt (interrupt.c) and the receive   *)
(* register.  There is one reader, the sensor server's slave.              *)
(*                                                                         *)
(* The handler sends the address of its own buf.  The server answers       *)
(* before it copies the byte from there, and the handler, whose priority   *)
(* is higher, may meanwhile have stored the next one.                      *)
(***************************************************************************)
EXTENDS Ring

CONSTANTS
  InCapacity, (* size of cbuf[COM1]   *)
  Answers     (* what is received     *)

VARIABLES
  inRing,   (* cbuf[COM1]                                                     *)
  waiter,   (* requestQueue[COM1].tid >= 0: the reader is remembered          *)
  inbox,    (* messages sent to the server and not yet received               *)
  copying,  (* the server has answered the handler and not copied its byte    *)
  reader,   (* the slave: "running", or "waiting" in Getc                     *)
  got,      (* history: what Getc has returned so far                         *)
  late,     (* history: the bytes stored between the Reply and the copy        *)
  rcv,      (* where the handler is                                           *)
  rcvBuf,   (* the handler's buf                                               *)
  rien,     (* the enable bit of the interrupt                                *)
  data      (* the receive register                                           *)

inVars == <<inRing, waiter, inbox, copying, reader, got, late, rcv, rcvBuf, rien, data>>

InTypeOK ==
  /\ inRing \in Seq(Answers) /\ Len(inRing) <= InCapacity
  /\ {waiter, copying, rien} \subseteq BOOLEAN
  /\ inbox \in Seq({"READ", "WRITE"})
  /\ reader \in {"running", "waiting"}
  /\ got \in Seq(Answers) /\ late \subseteq Answers
  /\ rcv \in {"idle", "event RCV", "woken", "waiting"}
  /\ \A s \in {rcvBuf, data} : s \in Seq(Answers) /\ Len(s) <= 1

InInit ==
  /\ inRing = <<>> /\ waiter = FALSE /\ inbox = <<>> /\ copying = FALSE
  /\ reader = "running" /\ got = <<>> /\ late = {}
  /\ rcv = "idle" /\ rcvBuf = <<>>
  /\ rien = FALSE /\ data = <<>>
-----------------------------------------------------------------------------
Getc ==
  /\ reader = "running"
  /\ reader' = "waiting"
  /\ inbox' = Append(inbox, "READ")
  /\ UNCHANGED <<inRing, waiter, copying, got, late, rcv, rcvBuf, rien, data, panicked>>

(* The reader gets the first byte of the ring. *)
Give(full) ==
  /\ got' = got \o ReadOf(full, 1)
  /\ inRing' = RestOf(full, 1)
  /\ reader' = "running"

Receive(type) ==
  /\ ~copying /\ inbox # <<>> /\ Head(inbox) = type
  /\ inbox' = Tail(inbox)

ServeGetc ==
  /\ Receive("READ")
  /\ IF inRing = <<>>
     THEN waiter' = TRUE /\ UNCHANGED <<inRing, got, reader>>
     ELSE Give(inRing) /\ UNCHANGED waiter
  /\ UNCHANGED <<copying, late, rcv, rcvBuf, rien, data, panicked>>

(* The handler is answered, then its byte is copied. *)
AnswerHandler ==
  /\ Receive("WRITE")
  /\ copying' = TRUE
  /\ rcv' = "idle"
  /\ UNCHANGED <<inRing, waiter, reader, got, late, rcvBuf, rien, data, panicked>>

(* The byte goes into the ring, and a reader that waits gets its own; a mutant
   that forgets to forget the reader. *)
StoreKept(full) ==
  IF waiter THEN Give(full) /\ UNCHANGED waiter
            ELSE inRing' = full /\ UNCHANGED <<got, reader, waiter>>

Store(full) ==
  IF waiter THEN Give(full) /\ waiter' = FALSE
            ELSE inRing' = full /\ UNCHANGED <<got, reader, waiter>>

Copy ==
  /\ copying /\ copying' = FALSE
  /\ IF Fits(inRing, 1, InCapacity)
     THEN Store(inRing \o rcvBuf) /\ UNCHANGED panicked
     ELSE panicked' = TRUE /\ UNCHANGED <<inRing, waiter, got, reader>>
  /\ UNCHANGED <<inbox, late, rcv, rcvBuf, rien, data>>
-----------------------------------------------------------------------------
(* The handler's loop; mutants that do not wait for the server's answer, and that
   leave the interrupt as it is. *)
AwaitRcvMasked ==
  /\ rcv = "idle" /\ rcv' = "event RCV"
  /\ UNCHANGED <<inRing, waiter, inbox, copying, reader, got, late, rcvBuf, rien, data, panicked>>

AwaitRcvAtOnce ==
  /\ rcv \in {"idle", "waiting"} /\ rcv' = "event RCV"
  /\ rien' = TRUE
  /\ UNCHANGED <<inRing, waiter, inbox, copying, reader, got, late, rcvBuf, data, panicked>>

AwaitRcv ==
  /\ rcv = "idle" /\ rcv' = "event RCV"
  /\ rien' = TRUE
  /\ UNCHANGED <<inRing, waiter, inbox, copying, reader, got, late, rcvBuf, data, panicked>>

Forward ==
  /\ rcv = "woken" /\ rcv' = "waiting"
  /\ inbox' = Append(inbox, "WRITE")
  /\ UNCHANGED <<inRing, waiter, copying, reader, got, late, rcvBuf, rien, data, panicked>>

(* The interrupt gives the byte to the handler, if it waits; otherwise it is
   masked and the byte stays. *)
RxPending == rien /\ data # <<>>

RxInterrupt ==
  /\ RxPending
  /\ \/ /\ rcv = "event RCV" /\ rcv' = "woken"
        /\ rcvBuf' = data /\ data' = <<>>
        /\ late' = IF copying THEN late \cup {data[1]} ELSE late
        /\ UNCHANGED rien
     \/ /\ rcv # "event RCV"
        /\ rien' = FALSE
        /\ UNCHANGED <<rcv, rcvBuf, data, late>>
  /\ UNCHANGED <<inRing, waiter, inbox, copying, reader, got, panicked>>

=============================================================================
