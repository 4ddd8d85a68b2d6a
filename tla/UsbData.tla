------------------------------ MODULE UsbData -------------------------------
(***************************************************************************)
(* The data endpoints of usb_serial.c: characters to the host in packets   *)
(* of two banks, characters from it, the start-of-frame interrupt that     *)
(* flushes what is left, and main, which calls the functions platform.h    *)
(* gives it.  The functions of main and both interrupts choose the         *)
(* endpoint they work on in one register, UENUM, which nobody restores.    *)
(*                                                                         *)
(* The controller's side is as usb_serial.c uses it: a bank is filled and  *)
(* released, the host takes or fills one at a time.  Characters are        *)
(* numbered from the last change of configuration.                         *)
(***************************************************************************)
EXTENDS Integers, Sequences

CONSTANTS CDC_TX_SIZE, CDC_RX_SIZE, Banks,
          TRANSMIT_FLUSH_TIMEOUT, TRANSMIT_TIMEOUT,
          Frames,          \* values of UDFNUML
          MaxChars         \* bound: characters of a session

ASSUME UsbDataAssumption ==
  /\ CDC_TX_SIZE \in Nat \ {0} /\ CDC_RX_SIZE \in Nat \ {0} /\ Banks \in Nat \ {0}
  /\ TRANSMIT_FLUSH_TIMEOUT \in Nat \ {0} /\ MaxChars \in Nat
  /\ Frames \in Nat \ {0} /\ TRANSMIT_TIMEOUT \in 1 .. Frames - 1

VARIABLES usb_configuration,
          transmit_flush_timer, transmit_previous_timeout,
          UENUM, UDINT, UDFNUML,
          tx,      \* [on, busy: packets released, bank: the one being filled]
          rx,      \* [on, packets: banks the host has filled]
          gen,     \* USB_GEN_vect: the copy of UDINT it has read, or none
          com,     \* USB_COM_vect: where it waits for the host
          main,    \* [pc, timeout, fresh: looked at UDFNUML in this frame]
          host,    \* [listening, resets and what the control transfers keep]
          seen     \* what really happened, for the properties

CDC_RX_ENDPOINT == 3
CDC_TX_ENDPOINT == 4

NoCopy == {"none"}

Interruptible == gen = NoCopy /\ com.pc = "none"
-----------------------------------------------------------------------------
(* The controller. *)
Room(t) == t.on /\ Len(t.busy) < Banks

(* RWAL of the endpoint for sending; that of endpoint 0 is undefined. *)
RWAL(endpoint) == IF endpoint = CDC_TX_ENDPOINT THEN {Room(tx) /\ Len(tx.bank) < CDC_TX_SIZE} ELSE BOOLEAN

(* FIFOCON cleared: the bank is sent, empty or not, if there is one. *)
Release(t) == IF Room(t) THEN [t EXCEPT !.busy = Append(@, t.bank), !.bank = <<>>] ELSE t

Empty == [on |-> FALSE, busy |-> <<>>, bank |-> <<>>]
NoInput == [on |-> FALSE, packets |-> <<>>]
Ready == [Empty EXCEPT !.on = TRUE]
ReadyForInput == [NoInput EXCEPT !.on = TRUE]
NewOutput(s) == [s EXCEPT !.accepted = 0, !.got = 0, !.open = FALSE, !.skipped = FALSE]
NewInput(s) == [s EXCEPT !.sent = 0, !.read = 0]

(* A frame is long: unless USB_COM_vect waits for the host, interrupts     *)
(* have been served and main, waiting, has looked at the frame number.     *)
(* The number is counted only while main waits: nobody else looks at it.   *)
Frame ==
  /\ com.pc = "none" => gen = NoCopy /\ UDINT = {} /\ (main.pc # "idle" => main.fresh)
  /\ UDFNUML' = IF main.pc = "idle" THEN UDFNUML ELSE (UDFNUML + 1) % Frames
  /\ UDINT' = UDINT \cup {"SOFI"}
  /\ main' = [main EXCEPT !.fresh = FALSE]
  /\ UNCHANGED <<usb_configuration, transmit_flush_timer, transmit_previous_timeout, UENUM,
                 tx, rx, gen, com, host, seen>>

(* The host reads a packet; a short one ends its transfer.  A device that  *)
(* it has given configuration 0 it asks for nothing.                       *)
HostReads ==
  /\ host.listening /\ usb_configuration # 0 /\ tx.on /\ tx.busy # <<>>
  /\ tx' = [tx EXCEPT !.busy = Tail(@)]
  /\ seen' = [seen EXCEPT !.got = @ + Len(Head(tx.busy)),
                          !.open = Len(Head(tx.busy)) = CDC_TX_SIZE]
  /\ UNCHANGED <<usb_configuration, transmit_flush_timer, transmit_previous_timeout, UENUM,
                 UDINT, UDFNUML, rx, gen, com, main, host>>

(* The host writes a packet, which may be empty. *)
HostWrites ==
  /\ usb_configuration # 0 /\ rx.on /\ Len(rx.packets) < Banks
  /\ \E n \in 0 .. CDC_RX_SIZE :
       /\ seen.sent + n <= MaxChars
       /\ rx' = [rx EXCEPT !.packets = Append(@, [i \in 1 .. n |-> seen.sent + i])]
       /\ seen' = [seen EXCEPT !.sent = @ + n]
  /\ UNCHANGED <<usb_configuration, transmit_flush_timer, transmit_previous_timeout, UENUM,
                 UDINT, UDFNUML, tx, gen, com, main, host>>
-----------------------------------------------------------------------------
(* USB_GEN_vect reads the flags and clears them all a little later. *)
ReadFlags ==
  /\ Interruptible /\ UDINT # {}
  /\ gen' = UDINT
  /\ UNCHANGED <<usb_configuration, transmit_flush_timer, transmit_previous_timeout, UENUM,
                 UDINT, UDFNUML, tx, rx, com, main, host, seen>>

Configured == usb_configuration # 0 /\ "EORSTI" \notin gen

(* A release of a bank that is not there is remembered in seen. *)
Flushed(s) == [s EXCEPT !.skipped = @ \/ ~Room(tx)]

(* Mutant of Expire: the timer runs down and nothing is sent. *)
ExpireUnsent == UNCHANGED <<tx, seen, UENUM>>

Expire ==
  /\ UENUM' = CDC_TX_ENDPOINT
  /\ tx' = Release(tx)
  /\ seen' = Flushed(seen)

USB_GEN_vect ==
  /\ gen # NoCopy
  /\ UDINT' = {} /\ gen' = NoCopy
  /\ usb_configuration' = IF "EORSTI" \in gen THEN 0 ELSE usb_configuration
  /\ IF "SOFI" \in gen /\ Configured /\ transmit_flush_timer > 0
     THEN /\ transmit_flush_timer' = transmit_flush_timer - 1
          /\ IF transmit_flush_timer = 1 THEN Expire
             ELSE /\ UNCHANGED <<tx, seen>>
                  /\ UENUM' = IF "EORSTI" \in gen THEN 0 ELSE UENUM
     ELSE /\ UNCHANGED <<transmit_flush_timer, tx, seen>>
          /\ UENUM' = IF "EORSTI" \in gen THEN 0 ELSE UENUM
  /\ UNCHANGED <<transmit_previous_timeout, UDFNUML, rx, com, main, host>>
-----------------------------------------------------------------------------
(* usb_serial_putchar and usb_serial_putchar_nowait: main's part between   *)
(* two points where interrupts are on is one step.                         *)
Leave == main' = [main EXCEPT !.pc = "idle", !.timeout = 0, !.fresh = FALSE]
Fail == Leave /\ UNCHANGED <<tx, transmit_flush_timer, seen>>

(* Mutant of Armed: the timer runs only if a packet is left open. *)
ArmedIfOpen(t) == IF t.bank = <<>> THEN 0 ELSE TRANSMIT_FLUSH_TIMEOUT

Armed(t) == TRANSMIT_FLUSH_TIMEOUT

Filled(t, n) ==
  LET f == [t EXCEPT !.bank = Append(@, n)]
  IN IF Len(f.bank) = CDC_TX_SIZE THEN Release(f) ELSE f

(* The character goes to the endpoint UENUM names. *)
Put(endpoint) ==
  /\ seen' = [seen EXCEPT !.accepted = @ + 1, !.skipped = FALSE]
  /\ tx' = IF endpoint = CDC_TX_ENDPOINT THEN Filled(tx, seen.accepted + 1) ELSE tx
  /\ transmit_flush_timer' = Armed(tx')
  /\ Leave

(* usb_configuration is looked at before interrupts are off. *)
Call(function) ==
  /\ main.pc = "idle" /\ usb_configuration # 0 /\ seen.accepted < MaxChars
  /\ main' = [main EXCEPT !.pc = function]
  /\ UNCHANGED <<usb_configuration, transmit_flush_timer, transmit_previous_timeout, UENUM,
                 UDINT, UDFNUML, tx, rx, gen, com, host, seen>>

Unchanged == UNCHANGED <<usb_configuration, UDINT, UDFNUML, rx, gen, com, host>>

PutcharNowait ==
  /\ main.pc = "nowait" /\ Interruptible
  /\ UENUM' = CDC_TX_ENDPOINT
  /\ IF RWAL(CDC_TX_ENDPOINT) = {TRUE} THEN Put(CDC_TX_ENDPOINT) ELSE Fail
  /\ Unchanged /\ UNCHANGED transmit_previous_timeout

(* Mutant of Deadline: the frame number not cut to the register's width. *)
DeadlineUncut == UDFNUML + TRANSMIT_TIMEOUT

Deadline == (UDFNUML + TRANSMIT_TIMEOUT) % Frames

PutcharStart ==
  /\ main.pc = "putchar" /\ Interruptible
  /\ UENUM' = CDC_TX_ENDPOINT
  /\ IF RWAL(CDC_TX_ENDPOINT) = {TRUE} THEN Put(CDC_TX_ENDPOINT) /\ transmit_previous_timeout' = FALSE
     ELSE IF transmit_previous_timeout THEN Fail /\ UNCHANGED transmit_previous_timeout
     ELSE /\ main' = [main EXCEPT !.pc = "expired", !.timeout = Deadline]
          /\ UNCHANGED <<tx, transmit_flush_timer, transmit_previous_timeout, seen>>
  /\ Unchanged

PutcharExpired ==
  /\ main.pc = "expired" /\ Interruptible
  /\ IF UDFNUML = main.timeout
     THEN Leave /\ transmit_previous_timeout' = TRUE
     ELSE main' = [main EXCEPT !.pc = "online", !.fresh = TRUE]
          /\ UNCHANGED transmit_previous_timeout
  /\ Unchanged /\ UNCHANGED <<UENUM, tx, transmit_flush_timer, seen>>

PutcharOnline ==
  /\ main.pc = "online" /\ Interruptible
  /\ IF usb_configuration = 0 THEN Leave ELSE main' = [main EXCEPT !.pc = "again"]
  /\ Unchanged
  /\ UNCHANGED <<UENUM, tx, transmit_flush_timer, transmit_previous_timeout, seen>>

(* Mutant of Selected: the endpoint chosen before the loop only. *)
SelectedBefore == UENUM

Selected == CDC_TX_ENDPOINT

PutcharAgain ==
  /\ main.pc = "again" /\ Interruptible
  /\ UENUM' = Selected
  /\ \E ready \in RWAL(UENUM') :
       IF ready THEN Put(UENUM')
       ELSE /\ main' = [main EXCEPT !.pc = "expired"]
            /\ UNCHANGED <<tx, transmit_flush_timer, seen>>
  /\ Unchanged /\ UNCHANGED transmit_previous_timeout

usb_serial_flush_output ==
  /\ main.pc = "idle" /\ Interruptible /\ transmit_flush_timer > 0
  /\ UENUM' = CDC_TX_ENDPOINT
  /\ tx' = Release(tx)
  /\ seen' = Flushed(seen)
  /\ transmit_flush_timer' = 0
  /\ Unchanged /\ UNCHANGED <<transmit_previous_timeout, main>>

Waiting == PutcharExpired \/ PutcharOnline \/ PutcharAgain
Sending ==
  \/ Call("putchar") \/ Call("nowait")
  \/ PutcharNowait \/ PutcharStart \/ Waiting \/ usb_serial_flush_output
-----------------------------------------------------------------------------
(* loop() with cmd_available and cmd_getchar. *)
Poll ==
  /\ main.pc = "idle" /\ usb_configuration # 0
  /\ main' = [main EXCEPT !.pc = "available"]
  /\ Unchanged
  /\ UNCHANGED <<UENUM, tx, transmit_flush_timer, transmit_previous_timeout, seen>>

(* RXOUTI without RWAL: a packet with nothing left in it. *)
Drained(p) == p # <<>> /\ Head(p) = <<>>

Dropped(p) == IF Drained(p) THEN Tail(p) ELSE p

usb_serial_available ==
  /\ main.pc = "available" /\ Interruptible
  /\ LET n == IF usb_configuration # 0 /\ rx.packets # <<>> THEN Len(Head(rx.packets)) ELSE 0
     IN /\ main' = [main EXCEPT !.pc = IF n > 0 THEN "getchar" ELSE "idle"]
        /\ rx' = IF usb_configuration # 0 /\ n = 0 THEN [rx EXCEPT !.packets = Dropped(@)] ELSE rx
  /\ UENUM' = IF usb_configuration # 0 THEN CDC_RX_ENDPOINT ELSE UENUM
  /\ UNCHANGED <<usb_configuration, UDINT, UDFNUML, gen, com, host,
                 tx, transmit_flush_timer, transmit_previous_timeout, seen>>

(* The packets from the first that is not empty on, if there is one. *)
Skip(p) ==
  LET full == {i \in 1 .. Len(p) : p[i] # <<>>}
  IN IF full = {} THEN <<>> ELSE SubSeq(p, CHOOSE i \in full : \A j \in full : i <= j, Len(p))

(* One character taken, and the packet released if it was its last. *)
Taken(p) == IF Len(Head(p)) = 1 THEN Tail(p) ELSE <<Tail(Head(p))>> \o Tail(p)

usb_serial_getchar ==
  /\ main.pc = "getchar" /\ Interruptible
  /\ main' = [main EXCEPT !.pc = "idle"]
  /\ LET p == Skip(rx.packets)
     IN IF usb_configuration = 0 THEN UNCHANGED <<rx, seen, UENUM>>
        ELSE /\ UENUM' = CDC_RX_ENDPOINT
             /\ rx' = [rx EXCEPT !.packets = IF p = <<>> THEN <<>> ELSE Taken(p)]
             /\ seen' = IF p = <<>> THEN seen
                        ELSE [seen EXCEPT !.read = IF Head(Head(p)) = @ + 1 THEN @ + 1 ELSE -1]
  /\ UNCHANGED <<usb_configuration, UDINT, UDFNUML, gen, com, host,
                 tx, transmit_flush_timer, transmit_previous_timeout>>

Receiving == Poll \/ usb_serial_available \/ usb_serial_getchar
=============================================================================
