---------------------------- MODULE OutputServer ----------------------------
(***************************************************************************)
(* COM1, outwards: the OutputServer and its notifier Uart1XMTHandler       *)
(* (servers/uart.c), the transmit and modem-status interrupts              *)
(* (interrupt.c), and the UART they drive.                                 *)
(*                                                                         *)
(* The UART is external: a holding register, the byte on the line, the CTS *)
(* signal and a latch that remembers that CTS has changed.                 *)
(***************************************************************************)
EXTENDS Ring

CONSTANTS
  Writers,     (* tasks that call Putcn on COM1      *)
  Xmt,         (* the task Uart1XMTHandler           *)
  OutCapacity, (* size of cbuf[COM1]                 *)
  Bytes        (* what is written                    *)

VARIABLES
  ring,     (* cbuf[COM1]                                                     *)
  reading,  (* requestQueue[COM1].tid >= 0: the handler waits for a byte      *)
  outbox,   (* messages sent to the server and not yet received               *)
  writer,   (* whether each writer runs or waits for its reply                *)
  xmt,      (* where the handler is                                           *)
  ch,       (* its byte, once the server has replied                          *)
  tien, msien, (* the enable bits of the two interrupts                       *)
  holding,  (* the transmit register                                          *)
  line,     (* the byte on the wire                                           *)
  cts, changed (* CTS, and the latch MIS of its changes                       *)

serverVars == <<ring, reading, outbox, writer, panicked>>
uartVars   == <<tien, msien, holding, line, cts, changed>>
outVars    == <<serverVars, uartVars, xmt, ch>>

Places == {"idle", "event XMT", "check", "CTS low", "event CTS", "ask", "asked", "put",
          "put done", "CTS high", "event CTS drop"}

OutTypeOK ==
  /\ ring \in Seq(Bytes) /\ Len(ring) <= OutCapacity
  /\ reading \in BOOLEAN /\ panicked \in BOOLEAN
  /\ outbox \in Seq([from : Writers \cup {Xmt}, buf : Seq(Bytes)])
  /\ writer \in [Writers -> {"running", "waiting"}]
  /\ xmt \in Places
  /\ \A s \in {ch, holding, line} : s \in Seq(Bytes) /\ Len(s) <= 1
  /\ {tien, msien, cts, changed} \subseteq BOOLEAN

OutInit ==
  /\ ring = <<>> /\ reading = FALSE /\ outbox = <<>> /\ panicked = FALSE
  /\ writer = [w \in Writers |-> "running"]
  /\ xmt = "idle" /\ ch = <<>>
  /\ tien = FALSE /\ msien = FALSE
  /\ holding = <<>> /\ line = <<>>
  /\ cts = TRUE /\ changed = FALSE
-----------------------------------------------------------------------------
(* Putcn. *)
Putcn(w, buf) ==
  /\ writer[w] = "running"
  /\ writer' = [writer EXCEPT ![w] = "waiting"]
  /\ outbox' = Append(outbox, [from |-> w, buf |-> buf])
  /\ UNCHANGED <<ring, reading, panicked, uartVars, xmt, ch>>

(* The server.  READ: nothing to read, and the handler is remembered. *)
Reply(b, left) == ch' = b /\ ring' = left /\ xmt' = "put"

ServeRead ==
  /\ outbox # <<>> /\ Head(outbox).from = Xmt
  /\ outbox' = Tail(outbox)
  /\ IF ring = <<>>
     THEN reading' = TRUE /\ UNCHANGED <<ch, ring, xmt>>
     ELSE Reply(ReadOf(ring, 1), RestOf(ring, 1)) /\ UNCHANGED reading
  /\ UNCHANGED <<writer, panicked, uartVars>>

(* WRITE: the whole buffer goes in, and a handler that waits gets its byte; a
   mutant that forgets to forget the handler. *)
ServeKept(full) ==
  /\ IF reading
     THEN Reply(ReadOf(full, 1), RestOf(full, 1))
     ELSE ring' = full /\ UNCHANGED <<ch, xmt>>
  /\ UNCHANGED reading

ServeReader(full) ==
  /\ IF reading
     THEN Reply(ReadOf(full, 1), RestOf(full, 1))
     ELSE ring' = full /\ UNCHANGED <<ch, xmt>>
  /\ reading' = FALSE

ServeWrite ==
  /\ outbox # <<>> /\ Head(outbox).from \in Writers
  /\ outbox' = Tail(outbox)
  /\ IF Fits(ring, Len(Head(outbox).buf), OutCapacity)
     THEN /\ ServeReader(ring \o Head(outbox).buf)
          /\ writer' = [writer EXCEPT ![Head(outbox).from] = "running"]
          /\ UNCHANGED panicked
     ELSE /\ panicked' = TRUE
          /\ UNCHANGED <<ring, reading, writer, xmt, ch>>
  /\ UNCHANGED uartVars
-----------------------------------------------------------------------------
(* The handler's loop. *)
HandlerGoes(from, to) == xmt = from /\ xmt' = to

(* AwaitEvent enables the interrupt it waits for. *)
AwaitXmt ==
  /\ HandlerGoes("idle", "event XMT")
  /\ tien' = TRUE
  /\ UNCHANGED <<serverVars, msien, holding, line, cts, changed, ch>>

(* It reads the flag, and only then waits for CTS to change. *)
CheckCts ==
  /\ HandlerGoes("check", IF cts THEN "ask" ELSE "CTS low")
  /\ UNCHANGED <<serverVars, uartVars, ch>>

AwaitCts(from, to) ==
  /\ HandlerGoes(from, to)
  /\ msien' = TRUE
  /\ UNCHANGED <<serverVars, tien, holding, line, cts, changed, ch>>

AwaitRaise == AwaitCts("CTS low", "event CTS")
AwaitDrop  == AwaitCts("CTS high", "event CTS drop")

Ask ==
  /\ HandlerGoes("ask", "asked")
  /\ outbox' = Append(outbox, [from |-> Xmt, buf |-> <<>>])
  /\ UNCHANGED <<ring, reading, writer, panicked, uartVars, ch>>

Put ==
  /\ HandlerGoes("put", "put done")
  /\ holding' = ch
  /\ ch' = <<>>
  /\ UNCHANGED <<serverVars, tien, msien, line, cts, changed>>

(* Waits for CTS to drop, unless it has; a mutant that does not wait. *)
DropUnseen == "idle"

DropSeen == IF cts THEN "CTS high" ELSE "idle"

CheckDrop ==
  /\ HandlerGoes("put done", DropSeen)
  /\ UNCHANGED <<serverVars, uartVars, ch>>
-----------------------------------------------------------------------------
(* Interrupts, TIS before MIS.  One that finds nobody waiting is masked; a
   change of CTS stays latched until someone has waited for it; a mutant that
   clears it whether somebody waits or not, as the comment in Uart1XMTHandler
   warns. *)
TxPending == tien /\ holding = <<>>

TxInterrupt ==
  /\ TxPending
  /\ tien' = FALSE
  /\ xmt' = IF xmt = "event XMT" THEN "check" ELSE xmt
  /\ UNCHANGED <<serverVars, msien, holding, line, cts, changed, ch>>

ModInterruptCleared ==
  /\ msien /\ changed /\ ~TxPending
  /\ changed' = FALSE
  /\ xmt' = CASE xmt = "event CTS" -> "ask" [] xmt = "event CTS drop" -> "idle" [] OTHER -> xmt
  /\ UNCHANGED <<serverVars, tien, msien, holding, line, cts, ch>>

ModInterrupt ==
  /\ msien /\ changed /\ ~TxPending
  /\ \/ /\ xmt = "event CTS" /\ xmt' = "ask" /\ changed' = FALSE /\ UNCHANGED msien
     \/ /\ xmt = "event CTS drop" /\ xmt' = "idle" /\ changed' = FALSE /\ UNCHANGED msien
     \/ /\ xmt \notin {"event CTS", "event CTS drop"}
        /\ msien' = FALSE /\ UNCHANGED <<xmt, changed>>
  /\ UNCHANGED <<serverVars, tien, holding, line, cts, ch>>

(* The UART shifts its byte out. *)
Shift ==
  /\ holding # <<>> /\ line = <<>>
  /\ line' = holding /\ holding' = <<>>
  /\ UNCHANGED <<serverVars, tien, msien, cts, changed, xmt, ch>>

=============================================================================
