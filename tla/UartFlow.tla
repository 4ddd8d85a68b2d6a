------------------------------ MODULE UartFlow ------------------------------
(***************************************************************************)
(* uart.c, the port commands come in by (SERIAL_PORT_UART): its two        *)
(* interrupt handlers, the main loop as their user, and a host that obeys  *)
(* XON and XOFF.  Received bytes are only counted: RingBuffer shows that   *)
(* the buffers keep them.                                                  *)
(***************************************************************************)
EXTENDS Integers, Sequences

CONSTANTS RxSize,      \* UART_RX_BUFFER_SIZE
          TxSize,      \* UART_TX_BUFFER_SIZE
          HostFifo,    \* bytes a host still sends after it has seen XOFF
          ReplyLength  \* characters of `OK <free entries>' and of the errors

ASSUME SizesAssumption == RxSize \in Nat /\ RxSize >= 8 /\ TxSize \in Nat /\ TxSize >= 2
ASSUME PeerAssumption  == HostFifo \in Nat \ {0} /\ ReplyLength \in Nat \ {0}

VARIABLES
  rx,          \* UART_RX_BUFFER_used()
  tx,          \* UART_TX_BUFFER
  XOFF_STATE,  \* the set of its flags
  udrie,       \* UDRIE1: is the transmit interrupt enabled?
  wire,        \* UDR1 and the shift register behind it
  pc,          \* main: "poll" or "read"
  reply,       \* characters main still has to put
  host,        \* "go" or "stopped"
  out,         \* bytes the host has on the way
  sinceSent,   \* bytes received since the transmitter finished its last one
  killed       \* kill() was called

vars == <<rx, tx, XOFF_STATE, udrie, wire, pc, reply, host, out, sinceSent, killed>>

Flags == {"REQUEST_SENDING_XOFF", "XOFF_SEND", "REQUEST_SENDING_XON"}
Chars == {"XON", "XOFF", "reply"}

(* After uart_init, which ends with uart_putchar(XON).  The host may have  *)
(* been stopped before a restart.                                          *)
Init ==
  /\ rx = 0 /\ tx = <<"XON">>
  /\ XOFF_STATE = {"REQUEST_SENDING_XON"} /\ udrie = TRUE
  /\ wire = <<>>
  /\ pc = "poll" /\ reply = 0
  /\ host \in {"go", "stopped"} /\ out = 0 /\ sinceSent = 0
  /\ killed = FALSE
-----------------------------------------------------------------------------
(* Main.  loop() only calls uart_getchar after uart_available said that    *)
(* there is a byte, so uart_getchar never finds the buffer empty.          *)

(* Mutant of AsksForMore: the host asked at a full buffer, not an empty one. *)
AsksWhenFull == "XOFF_SEND" \in XOFF_STATE /\ rx = RxSize - 1

AsksForMore == "XOFF_SEND" \in XOFF_STATE /\ rx = 0

(* uart_available. *)
Available ==
  /\ ~killed /\ pc = "poll" /\ reply = 0
  /\ XOFF_STATE' = IF AsksForMore THEN XOFF_STATE \cup {"REQUEST_SENDING_XON"}
                                  ELSE XOFF_STATE
  /\ udrie' = (udrie \/ AsksForMore)
  /\ pc' = IF rx > 0 THEN "read" ELSE "poll"
  /\ UNCHANGED <<rx, tx, wire, reply, host, out, sinceSent, killed>>

(* uart_getchar, and process_char: a reply at the end of a command. *)
Getchar ==
  /\ ~killed /\ pc = "read"
  /\ rx' = rx - 1
  /\ reply' \in {0, ReplyLength}
  /\ pc' = "poll"
  /\ UNCHANGED <<tx, XOFF_STATE, udrie, wire, host, out, sinceSent, killed>>

TxRoom == Len(tx) < TxSize - 1

(* Mutant of Putchar: the transmit interrupt not enabled. *)
PutcharSilent ==
  /\ ~killed /\ reply > 0
  /\ TxRoom
  /\ tx' = Append(tx, "reply")
  /\ reply' = reply - 1
  /\ UNCHANGED <<rx, XOFF_STATE, udrie, wire, pc, host, out, sinceSent, killed>>

(* uart_putchar waits for room; the rest is a critical section. *)
Putchar ==
  /\ ~killed /\ reply > 0
  /\ TxRoom
  /\ tx' = Append(tx, "reply")
  /\ udrie' = TRUE
  /\ reply' = reply - 1
  /\ UNCHANGED <<rx, XOFF_STATE, wire, pc, host, out, sinceSent, killed>>
-----------------------------------------------------------------------------
(* USART1_UDRE_vect: one of its four branches. *)
Udre ==
  /\ ~killed /\ udrie /\ Len(wire) < 2
  /\ \/ /\ "REQUEST_SENDING_XOFF" \in XOFF_STATE
        /\ wire' = Append(wire, "XOFF") /\ XOFF_STATE' = {"XOFF_SEND"}
        /\ UNCHANGED <<tx, udrie>>
     \/ /\ "REQUEST_SENDING_XOFF" \notin XOFF_STATE
        /\ "REQUEST_SENDING_XON" \in XOFF_STATE
        /\ wire' = Append(wire, "XOFF") /\ XOFF_STATE' = {}
        /\ UNCHANGED <<tx, udrie>>
     \/ /\ XOFF_STATE \subseteq {"XOFF_SEND"} /\ tx = <<>>
        /\ udrie' = FALSE
        /\ UNCHANGED <<tx, wire, XOFF_STATE>>
     \/ /\ XOFF_STATE \subseteq {"XOFF_SEND"} /\ tx # <<>>
        /\ wire' = Append(wire, Head(tx)) /\ tx' = Tail(tx)
        /\ UNCHANGED <<udrie, XOFF_STATE>>
  /\ UNCHANGED <<rx, pc, reply, host, out, sinceSent, killed>>

(* Mutant of QuiteFull: XOFF only with the last free place. *)
NearlyFull == rx > RxSize - 3

QuiteFull == rx > RxSize \div 4

(* Both directions have the same baud rate: while there is something to    *)
(* send, no more than one byte comes in for each one that goes out.        *)
Sending == udrie \/ wire # <<>>

(* USART1_RX_vect. *)
Receive ==
  /\ ~killed /\ out > 0
  /\ Sending => sinceSent = 0
  /\ out' = out - 1
  /\ sinceSent' = IF Sending THEN 1 ELSE 0
  /\ XOFF_STATE' = IF QuiteFull /\ "XOFF_SEND" \notin XOFF_STATE
                   THEN XOFF_STATE \cup {"REQUEST_SENDING_XOFF"} ELSE XOFF_STATE
  /\ udrie' = (udrie \/ (QuiteFull /\ "XOFF_SEND" \notin XOFF_STATE))
  /\ killed' = (rx = RxSize - 1)
  /\ rx' = IF rx = RxSize - 1 THEN rx ELSE rx + 1
  /\ UNCHANGED <<tx, wire, pc, reply, host>>
-----------------------------------------------------------------------------
(* The host. *)
HostSends ==
  /\ host = "go" /\ out < HostFifo
  /\ out' = out + 1
  /\ UNCHANGED <<rx, tx, XOFF_STATE, udrie, wire, pc, reply, host, sinceSent, killed>>

HostReceives ==
  /\ wire # <<>>
  /\ wire' = Tail(wire)
  /\ host' = IF Head(wire) = "XOFF" THEN "stopped"
             ELSE IF Head(wire) = "XON" THEN "go" ELSE host
  /\ sinceSent' = 0
  /\ UNCHANGED <<rx, tx, XOFF_STATE, udrie, pc, reply, out, killed>>

Main == Available \/ Getchar \/ Putchar

Next == Main \/ Udre \/ Receive \/ HostSends \/ HostReceives

(* Handlers and wires do not wait for ever, nor does main between two      *)
(* handlers.  The host need not send anything.                             *)
Fairness == WF_vars(Main) /\ WF_vars(Udre) /\ WF_vars(Receive) /\ WF_vars(HostReceives)

Spec == Init /\ [][Next]_vars
FairSpec == Spec /\ Fairness
-----------------------------------------------------------------------------
TypeOK ==
  /\ rx \in 0 .. RxSize - 1
  /\ tx \in Seq(Chars) /\ Len(tx) < TxSize
  /\ XOFF_STATE \subseteq Flags /\ udrie \in BOOLEAN
  /\ wire \in Seq(Chars) /\ Len(wire) <= 2
  /\ pc \in {"poll", "read"} /\ reply \in 0 .. ReplyLength
  /\ host \in {"go", "stopped"} /\ out \in 0 .. HostFifo
  /\ sinceSent \in 0 .. 1 /\ killed \in BOOLEAN

(* Whatever waits to be sent, a character or a request of a handler, the   *)
(* transmit interrupt is enabled for it: no order of main and the two      *)
(* handlers loses the enabling (uart.c:42, 63, 81-84, 108).                *)
NoLostWakeup ==
  tx # <<>> \/ XOFF_STATE \cap {"REQUEST_SENDING_XOFF", "REQUEST_SENDING_XON"} # {}
    => udrie

(* XOFF is sent early enough: with what the transmitter and the host have  *)
(* under way at that moment, the buffer does not run over into kill()      *)
(* (uart.c:102-116).                                                       *)
NoOverrun == ~killed

(* Once everything is read, the host's permission is asked for (by         *)
(* uart_available), and the request leaves the machine.                    *)
AsksToResume ==
  "XOFF_SEND" \in XOFF_STATE ~> "XOFF_SEND" \notin XOFF_STATE \/ killed

(* uart.c:60: the request is `initate sending XON'.  Refuted: the branch   *)
(* of the handler that serves it sends XOFF (line 80), and a stopped host  *)
(* is never told to go on.                                                 *)
HostResumes == host = "stopped" ~> host = "go"
=============================================================================
