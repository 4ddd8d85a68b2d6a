-------------------------------- MODULE Usb ---------------------------------
(***************************************************************************)
(* The USB port as a whole: the data endpoints of UsbData with endpoint 0, *)
(* on which the host asks for descriptors, gives the device its address    *)
(* and configures it (USB_COM_vect).  The handler waits for the host with  *)
(* interrupts off.                                                         *)
(*                                                                         *)
(* One of three jobs is looked at: sending, receiving, or control alone.   *)
(***************************************************************************)
EXTENDS UsbData

CONSTANTS ENDPOINT0_SIZE,
          Requests(_),     \* what the host may ask for in each job
          MaxRequests, MaxResets   \* bounds

Jobs == {"send", "receive", "control"}
Reads == {"GET_DESCRIPTOR", "GET_CONFIGURATION", "CDC_GET_LINE_CODING", "GET_STATUS"}
Writes == {"CDC_SET_LINE_CODING"}
Others == {"SET_ADDRESS", "SET_CONFIGURATION", "CLEAR_FEATURE", "SET_INTERFACE",
           "CDC_SET_CONTROL_LINE_STATE"}

(* wValue, or the descriptor it names, and wLength. *)
ASSUME RequestAssumption ==
  /\ ENDPOINT0_SIZE \in Nat \ {0}
  /\ \A job \in Jobs : Requests(job) \subseteq [request : Reads \cup Writes \cup Others, value : Nat, length : Nat]

VARIABLES ep0,     \* [setup, in: size of the packet to send or -1, out: RXOUTI, stall]
          UDADDR

control_vars == <<ep0, UDADDR>>
data_vars == <<usb_configuration, transmit_flush_timer, transmit_previous_timeout, UENUM, UDINT,
               UDFNUML, tx, rx, gen, com, main, host, seen>>
vars == <<data_vars, control_vars>>

MAX_ENDPOINT == 4

Least(a, b) == IF a < b THEN a ELSE b

(* descriptor_list: the length of each descriptor.                         *)
Lengths == <<18, 9 + 9 + 5 + 5 + 4 + 5 + 7 + 9 + 7 + 7, 4, 16, 40, 8>>

NoRequest == [request |-> "none", value |-> 0, length |-> 0]
Returned == [pc |-> "none", len |-> 0, value |-> 0]
QuietEp0 == [setup |-> NoRequest, in |-> -1, out |-> FALSE, stall |-> FALSE]

(* A configured device that sends or receives, or one just attached.       *)
Init ==
  /\ \E job \in Jobs, listening \in BOOLEAN :
       /\ job # "send" => listening
       /\ host = [job |-> job, listening |-> listening, resets |-> 0, requests |-> 0, stage |-> "none",
                  request |-> NoRequest, got |-> 0, address |-> 0]
       /\ usb_configuration = IF job = "control" THEN 0 ELSE 1
       /\ tx = IF job = "control" THEN Empty ELSE Ready
       /\ rx = IF job = "control" THEN NoInput ELSE ReadyForInput
  /\ transmit_flush_timer = 0 /\ transmit_previous_timeout = FALSE
  /\ UENUM = CDC_TX_ENDPOINT /\ UDINT = {} /\ UDFNUML = Frames - 1 /\ UDADDR = 0
  /\ gen = NoCopy /\ com = Returned /\ ep0 = QuietEp0
  /\ main = [pc |-> "idle", timeout |-> 0, fresh |-> FALSE]
  /\ seen = [accepted |-> 0, got |-> 0, open |-> FALSE, skipped |-> FALSE, sent |-> 0, read |-> 0]
-----------------------------------------------------------------------------
(* The host on endpoint 0.  It speaks to the address it has given.         *)
Heard == UDADDR = host.address

HostOnly == UNCHANGED <<usb_configuration, transmit_flush_timer, transmit_previous_timeout, UENUM,
                        UDINT, UDFNUML, tx, rx, gen, com, main, seen, UDADDR>>

Finished(h) == [h EXCEPT !.stage = "none", !.request = NoRequest, !.got = 0]

HostSetup ==
  /\ host.stage = "none" /\ host.requests < MaxRequests[host.job] /\ Heard
  /\ \E r \in Requests(host.job) :
       /\ ep0' = [ep0 EXCEPT !.setup = r, !.in = -1, !.stall = FALSE]
       /\ host' = [host EXCEPT !.requests = @ + 1, !.request = r, !.got = 0,
                     !.stage = IF r.request \in Reads THEN "data"
                               ELSE IF r.request \in Writes THEN "data_out" ELSE "status_in"]
  /\ HostOnly

(* Data end with a short packet or when there are as many as asked for.    *)
HostTakes ==
  /\ host.stage = "data" /\ ep0.setup = NoRequest /\ ep0.in >= 0 /\ Heard
  /\ ep0' = [ep0 EXCEPT !.in = -1]
  /\ host' = [host EXCEPT !.got = @ + ep0.in,
                !.stage = IF ep0.in < ENDPOINT0_SIZE \/ host.got + ep0.in >= host.request.length
                          THEN "status_out" ELSE "data"]
  /\ HostOnly

HostEnds ==
  /\ host.stage = "status_out" /\ Heard
  /\ ep0' = [ep0 EXCEPT !.out = TRUE]
  /\ host' = Finished(host)
  /\ HostOnly

(* The host has seen enough of a descriptor. *)
HostAborts ==
  /\ host.stage = "data" /\ host.request.request = "GET_DESCRIPTOR" /\ ep0.setup = NoRequest /\ Heard
  /\ ep0' = [ep0 EXCEPT !.out = TRUE]
  /\ host' = Finished(host)
  /\ HostOnly

HostSendsData ==
  /\ host.stage = "data_out" /\ ep0.setup = NoRequest /\ ~ep0.out /\ Heard
  /\ ep0' = [ep0 EXCEPT !.out = TRUE]
  /\ host' = [host EXCEPT !.stage = "status_in"]
  /\ HostOnly

HostTakesStatus ==
  /\ host.stage = "status_in" /\ ep0.setup = NoRequest /\ ep0.in >= 0 /\ Heard
  /\ ep0' = [ep0 EXCEPT !.in = -1]
  /\ host' = [Finished(host) EXCEPT
                !.address = IF host.request.request = "SET_ADDRESS" THEN host.request.value ELSE @]
  /\ HostOnly

HostStalled ==
  /\ host.stage # "none" /\ ep0.setup = NoRequest /\ ep0.stall /\ Heard
  /\ host' = Finished(host)
  /\ UNCHANGED ep0 /\ HostOnly

(* A bus reset, between two requests: the controller forgets address and   *)
(* endpoints, the firmware learns of it in USB_GEN_vect.                   *)
HostReset ==
  /\ host.stage = "none" /\ com.pc = "none" /\ host.resets < MaxResets
  /\ host' = [host EXCEPT !.resets = @ + 1, !.address = 0]
  /\ UDINT' = UDINT \cup {"EORSTI"}
  /\ tx' = Empty /\ rx' = NoInput /\ ep0' = QuietEp0 /\ UDADDR' = 0
  /\ seen' = NewInput(NewOutput(seen))
  /\ UNCHANGED <<usb_configuration, transmit_flush_timer, transmit_previous_timeout, UENUM,
                 UDFNUML, gen, com, main>>

HostFinishes ==
  HostTakes \/ HostEnds \/ HostSendsData \/ HostTakesStatus \/ HostStalled
-----------------------------------------------------------------------------
(* USB_COM_vect.  The other interrupt comes first if both are pending.     *)
(* Acknowledged: setup and RXOUTI cleared, the bank free for a packet.     *)
Acknowledged == [ep0 EXCEPT !.setup = NoRequest, !.out = FALSE, !.in = -1]
Sent(n) == [Acknowledged EXCEPT !.in = n]
Stalled == [Acknowledged EXCEPT !.stall = TRUE]

DataKept == UNCHANGED <<usb_configuration, transmit_flush_timer, tx, rx, seen>>
WaitAt(pc, len, value) == com' = [pc |-> pc, len |-> len, value |-> value]

(* Mutant of Asked: the whole descriptor whatever is asked for. *)
AskedWhole(r) == Lengths[r.value]

Asked(r) == Least(IF r.length < 256 THEN r.length ELSE 255, Lengths[r.value])

GetDescriptor(r) ==
  IF r.value \in DOMAIN Lengths
  THEN WaitAt("packets", Asked(r), 0) /\ ep0' = Acknowledged
  ELSE com' = Returned /\ ep0' = Stalled

(* The number of bytes of the other answers. *)
AnswerSize(request) ==
  CASE request = "GET_CONFIGURATION" -> 1
    [] request = "GET_STATUS" -> 2
    [] request = "CDC_GET_LINE_CODING" -> 7
    [] request = "CDC_SET_CONTROL_LINE_STATE" -> 0

(* Enabled and reset whatever the configuration, 0 included.               *)
ResetEndpoints == tx' = Ready /\ rx' = ReadyForInput

SetConfiguration(r) ==
  /\ usb_configuration' = r.value
  /\ transmit_flush_timer' = 0
  /\ ResetEndpoints
  /\ seen' = NewInput(NewOutput(seen))
  /\ ep0' = Sent(0) /\ com' = Returned

ClearFeature(r) ==
  /\ com' = Returned
  /\ ep0' = IF r.value \in 1 .. MAX_ENDPOINT THEN Sent(0) ELSE Stalled
  /\ tx' = IF r.value = CDC_TX_ENDPOINT THEN [Ready EXCEPT !.on = tx.on] ELSE tx
  /\ rx' = IF r.value = CDC_RX_ENDPOINT THEN [ReadyForInput EXCEPT !.on = rx.on] ELSE rx
  /\ seen' = IF r.value = CDC_TX_ENDPOINT THEN NewOutput(seen)
             ELSE IF r.value = CDC_RX_ENDPOINT THEN NewInput(seen) ELSE seen
  /\ UNCHANGED <<usb_configuration, transmit_flush_timer>>

SetAddress(r) == WaitAt("address", 0, r.value) /\ ep0' = Sent(0) /\ UNCHANGED UDADDR

Selects(r) ==
  IF r.request = "SET_CONFIGURATION" THEN CDC_TX_ENDPOINT
  ELSE IF r.request = "CLEAR_FEATURE" /\ r.value \in 1 .. MAX_ENDPOINT THEN r.value ELSE 0

USB_COM_vect ==
  /\ Interruptible /\ UDINT = {} /\ ep0.setup # NoRequest
  /\ LET r == ep0.setup IN
     /\ UENUM' = Selects(r)
     /\ \/ r.request = "GET_DESCRIPTOR" /\ GetDescriptor(r) /\ DataKept /\ UNCHANGED UDADDR
        \/ r.request = "SET_ADDRESS" /\ SetAddress(r) /\ DataKept
        \/ r.request = "SET_CONFIGURATION" /\ SetConfiguration(r) /\ UNCHANGED UDADDR
        \/ r.request = "CLEAR_FEATURE" /\ ClearFeature(r) /\ UNCHANGED UDADDR
        \/ /\ r.request \in {"GET_CONFIGURATION", "GET_STATUS", "CDC_GET_LINE_CODING",
                             "CDC_SET_CONTROL_LINE_STATE"}
           /\ WaitAt("answer", AnswerSize(r.request), 0) /\ ep0' = Acknowledged
           /\ DataKept /\ UNCHANGED UDADDR
        \/ /\ r.request = "CDC_SET_LINE_CODING" /\ WaitAt("line", 0, 0) /\ ep0' = Acknowledged
           /\ DataKept /\ UNCHANGED UDADDR
        \/ /\ r.request = "SET_INTERFACE" /\ com' = Returned /\ ep0' = Stalled
           /\ DataKept /\ UNCHANGED UDADDR
  /\ UNCHANGED <<transmit_previous_timeout, UDINT, UDFNUML, gen, main, host>>

Handling ==
  /\ DataKept
  /\ UNCHANGED <<transmit_previous_timeout, UENUM, UDINT, UDFNUML, gen, main, host>>

(* Mutant of LastPacket: the empty packet after a full one forgotten. *)
LastWhenNothingLeft(n) == com.len = n

(* A packet that is not full is the last. *)
LastPacket(n) == com.len = n /\ n < ENDPOINT0_SIZE

SendPackets ==
  /\ com.pc = "packets" /\ (ep0.out \/ ep0.in = -1)
  /\ LET n == Least(com.len, ENDPOINT0_SIZE) IN
       IF ep0.out THEN com' = Returned /\ UNCHANGED ep0
       ELSE /\ ep0' = [ep0 EXCEPT !.in = n]
            /\ com' = IF LastPacket(n) THEN Returned ELSE [com EXCEPT !.len = @ - n]
  /\ Handling /\ UNCHANGED UDADDR

Answer ==
  /\ com.pc = "answer" /\ ep0.in = -1
  /\ ep0' = [ep0 EXCEPT !.in = com.len]
  /\ com' = Returned
  /\ Handling /\ UNCHANGED UDADDR

TakeAddress ==
  /\ com.pc = "address" /\ ep0.in = -1
  /\ UDADDR' = com.value
  /\ com' = Returned
  /\ Handling /\ UNCHANGED ep0

ReceiveLineCoding ==
  /\ com.pc = "line" /\ ep0.out
  /\ ep0' = [ep0 EXCEPT !.out = FALSE, !.in = 0]
  /\ com' = Returned
  /\ Handling /\ UNCHANGED UDADDR

Com == USB_COM_vect \/ SendPackets \/ Answer \/ TakeAddress \/ ReceiveLineCoding
-----------------------------------------------------------------------------
Main ==
  /\ \/ host.job = "send" /\ Sending
     \/ host.job = "receive" /\ Receiving
  /\ UNCHANGED control_vars
MainReturns == (PutcharNowait \/ PutcharStart \/ Waiting) /\ UNCHANGED control_vars
NextFrame ==
  /\ com.pc = "none" => ep0.setup = NoRequest
  /\ Frame /\ UNCHANGED control_vars
Gen == (ReadFlags \/ USB_GEN_vect) /\ UNCHANGED control_vars
HostData ==
  /\ \/ host.job = "send" /\ HostReads
     \/ host.job = "receive" /\ HostWrites
  /\ UNCHANGED control_vars

Next ==
  \/ Main \/ NextFrame \/ Gen \/ HostData
  \/ Com \/ HostSetup \/ HostAborts \/ HostReset \/ HostFinishes

Spec == Init /\ [][Next]_vars

(* The firmware goes on, frames come, the host finishes what it has begun  *)
(* and reads as long as it listens.                                        *)
FairSpec ==
  /\ Spec
  /\ WF_vars(Gen \/ Com) /\ WF_vars(MainReturns) /\ WF_vars(NextFrame)
  /\ WF_vars(HostFinishes \/ (HostReads /\ UNCHANGED control_vars))
-----------------------------------------------------------------------------
(* What functions have accepted and the host has not got is in the banks,  *)
(* in order, and what the host has sent and loop() has not read is, too:   *)
(* no character is lost, doubled or left over from an earlier              *)
(* configuration, whichever endpoint the interrupts have chosen between.   *)
Flat(packets) ==
  LET join[n \in 0 .. Len(packets)] == IF n = 0 THEN <<>> ELSE join[n - 1] \o packets[n] IN join[Len(packets)]
InOrder ==
  /\ Flat(tx.busy) \o tx.bank = [i \in 1 .. seen.accepted - seen.got |-> seen.got + i]
  /\ Flat(rx.packets) = [i \in 1 .. seen.sent - seen.read |-> seen.read + i]

(* A packet that is not full does not wait for ever: the timer runs.  And  *)
(* when all is sent, a short packet or an empty one has told the host that *)
(* no more is to come (usb_serial.c:72-78), unless both banks were full    *)
(* when the timer ran out or main flushed: then none is ever sent.         *)
NothingLeftBehind ==
  /\ tx.bank # <<>> => transmit_flush_timer > 0
  /\ tx.on /\ tx.busy = <<>> /\ transmit_flush_timer = 0 /\ ~seen.skipped => ~seen.open

(* The host gets as much of a descriptor as there is and as it asked for.  *)
DescriptorWhole ==
  [][host.stage = "status_out" /\ host.request.request = "GET_DESCRIPTOR" /\ host'.stage = "none"
       /\ ~ep0.stall => host.got = Least(host.request.length, Lengths[host.request.value])]_vars

(* A request to endpoint 0 comes to its end, with data or a stall.         *)
RequestsEnd == host.stage # "none" ~> host.stage = "none"

(* usb_serial_putchar returns, whether the host reads or not, as long as   *)
(* there are frames.                                                       *)
CallReturns == main.pc \in {"putchar", "nowait"} ~> main.pc = "idle"

(* What is accepted reaches a host that listens, or is lost with the       *)
(* configuration.  A character that passed the look at usb_configuration   *)
(* (usb_serial.c:424, 474) before configuration 0 was set is accepted      *)
(* after it, and stays: nobody counts its timer (usb_serial.c:747).        *)
Arrives ==
  seen.accepted > seen.got
    ~> (seen.accepted = seen.got \/ ~host.listening \/ usb_configuration = 0)
=============================================================================
