------------------------------ MODULE UsbDevice ------------------------------
(***************************************************************************)
(* The USB device core of LUFA as the two programs link it: the interrupt  *)
(* USB_GEN_vect, the control requests of USB_USBTask, the CDC class        *)
(* driver's sending, and the waits of the bootloader's CDC_Task. The       *)
(* bootloader calls the task from its main loop, after CDC_Task, the       *)
(* firmware from the time tick's interrupt handler, that is with the USB   *)
(* interrupt masked. The task polls: every wait of the code is a place of  *)
(* pc here, and what the code does between two waits is one step.          *)
(*                                                                         *)
(* The controller and the host are external. The host takes a transfer     *)
(* through its stages, breaks one off, suspends or resets the bus, or is   *)
(* unplugged.                                                              *)
(***************************************************************************)
EXTENDS Integers, Sequences, FiniteSetsExt

CONSTANTS
  Contexts,                 \* which of the two programs
  USB_ControlEndpointSize,  \* bytes of a packet on the control endpoint
  CDC_TXRX_EPSIZE,          \* bytes of a packet of the data endpoints
  USB_STREAM_TIMEOUT_MS,
  Size,                     \* bytes of each descriptor the device has, a sequence
  LineSize,                 \* sizeof LineEncoding
  Asked,                    \* values of wLength
  Command,                  \* bytes each of the bootloader's commands takes, and answers
  MaxFaults                 \* bound: transfers broken off, suspensions, resets, unpluggings

ASSUME ContextAssumption == Contexts \subseteq {"loop", "tick"}
\* A status of two bytes and the line encoding fit a packet; a host that asks
\* for data asks for at least one byte.
ASSUME SizeAssumption ==
  /\ USB_ControlEndpointSize \in Nat
  /\ 2 < USB_ControlEndpointSize
  /\ LineSize \in 1 .. USB_ControlEndpointSize - 1
  /\ Size \in Seq(Nat \ {0})
  /\ Asked \subseteq Nat \ {0}
  /\ CDC_TXRX_EPSIZE \in Nat \ {0}
  /\ Command \subseteq [takes : Nat \ {0}, answers : Nat]
  /\ USB_STREAM_TIMEOUT_MS \in Nat /\ MaxFaults \in Nat

VARIABLES
  context,    \* never changes
  \* the controller
  link,       \* is the cable in, and the bus active?
  flags, enabled,            \* interrupts that have occurred, and enabled ones
  address,    \* UDADDR; None while ADDEN is clear
  setup,      \* the request on the control endpoint, None unless RXSTPI
  out,        \* bytes of the packet received, None unless RXOUTI
  in,         \* bytes handed over to be sent, None while TXINI
  stalled,    \* STALLRQ of the control endpoint
  uenum,      \* the endpoint that is selected
  tx, halted, \* the data IN endpoint: Disabled, Sent or its bytes; is it stalled?
  rx,         \* the data OUT endpoint: Disabled, None or the bytes left of a packet
  \* the library
  USB_DeviceState, USB_ConfigurationNumber,
  BaudRateBPS,               \* has the host set a line encoding for the class driver?
  pc,         \* where the task waits
  request,    \* USB_ControlRequest
  left,       \* bytes left of a stream; milliseconds left of a wait
  LastPacketFull,
  PrevEndpoint,
  command,    \* bytes the bootloader's command still takes, and still answers
  \* the host
  host,       \* stage, request and bytes received of its transfer
  hostAddress,
  faults,
  disturbed   \* history: a transfer broken off, or an unplugging that leaves one behind

controller == <<address, setup, out, in, stalled>>
bus == <<link, flags, enabled>>
library == <<USB_DeviceState, USB_ConfigurationNumber, BaudRateBPS>>
task == <<pc, request, left, LastPacketFull, PrevEndpoint>>
peer == <<host, hostAddress, faults, disturbed>>
vars == <<context, command, controller, bus, library, task, peer, uenum, tx, rx, halted>>

None == -1
Device == -1
Control == 0
CDC_NOTIFICATION_EPNUM == 2
CDC_TX_EPNUM == 3
CDC_RX_EPNUM == 4
Disabled == -2
Sent == -1

Req(kind, arg, len) == [kind |-> kind, arg |-> arg, wLength |-> len]
NoRequest == Req("none", None, 0)
NoCommand == [takes |-> 0, answers |-> 0]

\* arg is a descriptor (0 for one the device does not have), a recipient, an
\* address or a configuration. "Other" is any request that nobody handles.
Request ==
  {Req("GetDescriptor", d, n) : d \in 0 .. Len(Size), n \in Asked}
    \cup {Req("GetStatus", e, 2) : e \in {Device, CDC_TX_EPNUM}}
    \cup {Req("SetFeature", e, 0) : e \in {Device, Control, CDC_TX_EPNUM}}
    \cup {Req("ClearFeature", CDC_TX_EPNUM, 0)}
    \cup {Req("SetAddress", a, 0) : a \in {0, 1}}
    \cup {Req("GetConfiguration", None, 1)}
    \cup {Req("SetConfiguration", c, 0) : c \in 0 .. 2}
    \cup {Req("GetLineEncoding", None, LineSize), Req("SetLineEncoding", None, LineSize)}
    \cup {Req(k, None, 0) : k \in {"SetControlLineState", "Other"}}

DeviceToHost == {"GetDescriptor", "GetStatus", "GetConfiguration", "GetLineEncoding"}

ControlWaits == {"stream", "streamOut", "statusOut", "statusIn", "setAddress", "read", "readIn"}
DataWaits == {"flush", "send"}
AnswerWaits == {"respond", "zlp", "sent"}
CommandWaits == {"fetch"} \cup AnswerWaits
InSetAddress == pc \in {"statusIn", "setAddress"} /\ request.kind = "SetAddress"

\* Is USB_GEN_vect kept out: by the handler the task runs in, or by the
\* ATOMIC_BLOCK of SetAddress?
Masked == InSetAddress \/ (context = "tick" /\ pc # "idle")

\* In the main loop a pending interrupt comes first. In the tick's handler the
\* task may have been entered before it was pending.
Settled == Masked \/ flags \cap enabled = {}
Running == context = "tick" \/ Settled

Unattached == USB_DeviceState = "Unattached"
Gone == USB_DeviceState \in {"Unattached", "Suspended"}
-----------------------------------------------------------------------------
\* USB_DeviceTask finds a request, or one of these kinds. In the main loop
\* CDC_Task has been through before, and a request comes long after the reset
\* whose interrupt could have selected the control endpoint since.
Arrived(kinds) ==
  /\ Running /\ pc = "idle" /\ ~ Unattached /\ setup.kind \in kinds
  /\ context = "loop" => uenum = CDC_RX_EPNUM

\* The request is taken (Endpoint_ClearSETUP) and the task goes on to wait.
TakeAndWait(place) ==
  /\ pc' = place
  /\ request' = setup /\ setup' = NoRequest
  /\ PrevEndpoint' = uenum /\ uenum' = Control
  /\ UNCHANGED <<context, command, bus, peer, address, out, stalled, USB_DeviceState, BaudRateBPS>>

\* Endpoint_ClearIN on the control endpoint, n bytes written.
ClearIN(n) == in' = IF in = None THEN n ELSE in

\* The end of USB_Device_ProcessControlRequest and of USB_DeviceTask. A request
\* that is there again (the host broke off and sent another) is answered with a
\* stall, if the control endpoint is the selected one.
Finish(selected) ==
  /\ IF selected = Control /\ setup # NoRequest
     THEN setup' = NoRequest /\ stalled' = TRUE
     ELSE UNCHANGED <<setup, stalled>>
  /\ uenum' = PrevEndpoint
  /\ pc' = "idle" /\ request' = NoRequest
  /\ left' = 0 /\ LastPacketFull' = FALSE /\ PrevEndpoint' = Control
  /\ UNCHANGED <<context, command, bus, peer>>

\* Nobody takes the request: it is stalled.
Refuses(r) ==
  \/ r.kind = "GetDescriptor" /\ r.arg = 0
  \/ r.kind = "SetFeature" /\ r.arg = Control
  \/ r.kind \in {"SetFeature", "GetStatus"} /\ r.arg = Device /\ context = "loop"
  \/ r.kind = "SetConfiguration" /\ r.arg > 1
  \/ r.kind = "SetControlLineState" /\ context = "loop"
  \/ r.kind = "Other"

Refuse ==
  /\ Arrived({setup.kind}) /\ setup # NoRequest /\ Refuses(setup)
  /\ setup' = NoRequest /\ stalled' = TRUE
  /\ UNCHANGED <<context, command, bus, library, task, peer, address, out, in, uenum, tx, rx, halted>>

\* USB_Device_GetDescriptor and GetLineEncoding: the stream is cut to wLength.
Length(r) == IF r.kind = "GetDescriptor" THEN Size[r.arg] ELSE LineSize

\* slip: wLength is not looked at
LengthOnly(r) == Length(r)
Streamed(r) == IF Length(r) > r.wLength THEN r.wLength ELSE Length(r)

WriteControlStream ==
  /\ Arrived({"GetDescriptor", "GetLineEncoding"}) /\ ~ Refuses(setup)
  /\ TakeAndWait("stream")
  /\ left' = Streamed(setup) /\ LastPacketFull' = FALSE
  /\ UNCHANGED <<in, tx, rx, halted, USB_ConfigurationNumber>>

USB_Device_GetStatus ==
  /\ Arrived({"GetStatus"}) /\ ~ Refuses(setup)
  /\ TakeAndWait("statusOut")
  /\ ClearIN(2)
  /\ UNCHANGED <<left, LastPacketFull, tx, rx, halted, USB_ConfigurationNumber>>

USB_Device_GetConfiguration ==
  /\ Arrived({"GetConfiguration"})
  /\ TakeAndWait("statusOut")
  /\ ClearIN(1)
  /\ UNCHANGED <<left, LastPacketFull, tx, rx, halted, USB_ConfigurationNumber>>

USB_Device_ClearSetFeature ==
  /\ Arrived({"SetFeature", "ClearFeature"}) /\ ~ Refuses(setup)
  /\ TakeAndWait("statusIn")
  /\ IF setup.arg = CDC_TX_EPNUM /\ tx # Disabled
     THEN /\ halted' = (setup.kind = "SetFeature")
          /\ tx' = IF setup.kind = "SetFeature" THEN tx ELSE 0
     ELSE UNCHANGED <<tx, halted>>
  /\ UNCHANGED <<in, rx, left, LastPacketFull, USB_ConfigurationNumber>>

USB_Device_SetAddress ==
  /\ Arrived({"SetAddress"})
  /\ TakeAndWait("statusIn")
  /\ UNCHANGED <<in, left, LastPacketFull, tx, rx, halted, USB_ConfigurationNumber>>

USB_Device_SetConfiguration ==
  /\ Arrived({"SetConfiguration"}) /\ ~ Refuses(setup)
  /\ TakeAndWait("statusIn")
  /\ USB_ConfigurationNumber' = setup.arg
  /\ UNCHANGED <<in, left, LastPacketFull, tx, rx, halted>>

SetControlLineState ==
  /\ Arrived({"SetControlLineState"}) /\ ~ Refuses(setup)
  /\ TakeAndWait("statusIn")
  /\ UNCHANGED <<in, left, LastPacketFull, tx, rx, halted, USB_ConfigurationNumber>>

SetLineEncoding ==
  /\ Arrived({"SetLineEncoding"})
  /\ TakeAndWait("read")
  /\ UNCHANGED <<in, left, LastPacketFull, tx, rx, halted, USB_ConfigurationNumber>>
-----------------------------------------------------------------------------
\* Endpoint_Write_Control_Stream.

\* slip: a full last packet is not followed by an empty one
SendPacketWithoutEmpty ==
  LET n == Min({left, USB_ControlEndpointSize}) IN
  /\ Running /\ pc = "stream" /\ ~ Gone /\ setup = NoRequest /\ out = None /\ in = None
  /\ ClearIN(n)
  /\ left' = left - n
  /\ LastPacketFull' = FALSE
  /\ pc' = IF left' > 0 THEN "stream" ELSE "streamOut"
  /\ UNCHANGED <<context, command, bus, library, peer, address, setup, out, stalled, uenum, tx, rx, halted, request, PrevEndpoint>>

SendPacket ==
  LET n == Min({left, USB_ControlEndpointSize}) IN
  /\ Running /\ pc = "stream" /\ ~ Gone /\ setup = NoRequest /\ out = None /\ in = None
  /\ ClearIN(n)
  /\ left' = left - n
  /\ LastPacketFull' = (n = USB_ControlEndpointSize)
  /\ pc' = IF left' > 0 \/ LastPacketFull' THEN "stream" ELSE "streamOut"
  /\ UNCHANGED <<context, command, bus, library, peer, address, setup, out, stalled, uenum, tx, rx, halted, request, PrevEndpoint>>

\* Also when the host is satisfied early, has broken off or is gone; the
\* caller's ClearOUT included.
EndStream ==
  /\ Running
  /\ \/ pc = "stream" /\ (Gone \/ setup # NoRequest \/ out # None)
     \/ pc = "streamOut" /\ (Gone \/ out # None)
  /\ out' = None
  /\ Finish(Control)
  /\ UNCHANGED <<library, address, in, tx, rx, halted>>

\* Endpoint_Read_Control_Stream into LineEncoding, and the caller's ClearIN. The
\* bootloader's has no reader but GetLineEncoding.
ReadPacket ==
  /\ Running /\ pc = "read" /\ ~ Gone /\ setup = NoRequest /\ out # None
  /\ out' = None
  /\ BaudRateBPS' = (context = "tick")
  /\ pc' = "readIn"
  /\ UNCHANGED <<context, command, bus, peer, address, setup, in, stalled, uenum, tx, rx, halted, request, left,
                 LastPacketFull, PrevEndpoint, USB_DeviceState, USB_ConfigurationNumber>>

EndRead ==
  /\ Running
  /\ \/ pc = "read" /\ (Gone \/ setup # NoRequest)
     \/ pc = "readIn" /\ (Gone \/ in = None)
  /\ ClearIN(0)
  /\ Finish(Control)
  /\ UNCHANGED <<library, address, out, tx, rx, halted>>

\* Endpoint_ClearStatusStage: the host's packet, or ours and what follows it.
StatusOut ==
  /\ Running /\ pc = "statusOut" /\ (Unattached \/ out # None)
  /\ out' = None
  /\ Finish(Control)
  /\ UNCHANGED <<library, address, in, tx, rx, halted>>

StatusIn ==
  /\ Running /\ pc = "statusIn" /\ (Unattached \/ in = None)
  /\ ClearIN(0)

StatusThenFinish ==
  /\ StatusIn
  /\ request.kind \notin {"SetAddress", "SetConfiguration"}
  /\ Finish(Control)
  /\ UNCHANGED <<library, address, out, tx, rx, halted>>

\* slip: the address is taken before the host has its status packet
StatusThenWaitSkipped ==
  /\ StatusIn
  /\ request.kind = "SetAddress"
  /\ USB_DeviceState' = IF request.arg # 0 THEN "Addressed" ELSE "Default"
  /\ address' = request.arg
  /\ Finish(Control)
  /\ UNCHANGED <<out, tx, rx, halted, USB_ConfigurationNumber, BaudRateBPS>>

StatusThenWait ==
  /\ StatusIn
  /\ request.kind = "SetAddress"
  /\ pc' = "setAddress"
  /\ UNCHANGED <<context, command, bus, library, peer, address, setup, out, stalled, uenum, tx, rx, halted,
                 request, left, LastPacketFull, PrevEndpoint>>

USB_Device_SetDeviceAddress ==
  /\ pc = "setAddress" /\ in = None
  /\ USB_DeviceState' = IF request.arg # 0 THEN "Addressed" ELSE "Default"
  /\ address' = request.arg
  /\ Finish(Control)
  /\ UNCHANGED <<out, in, tx, rx, halted, USB_ConfigurationNumber, BaudRateBPS>>

\* EVENT_USB_Device_ConfigurationChanged leaves the last endpoint it configured
\* selected. The firmware's also clears the line encoding.
StatusThenConfigure ==
  /\ StatusIn
  /\ request.kind = "SetConfiguration"
  /\ USB_DeviceState' = IF USB_ConfigurationNumber # 0 \/ address # None THEN "Configured" ELSE "Powered"
  /\ tx' = 0 /\ rx' = None
  /\ BaudRateBPS' = FALSE
  /\ Finish(CDC_RX_EPNUM)
  /\ UNCHANGED <<address, out, halted, USB_ConfigurationNumber>>

USB_Device_ProcessControlRequest ==
  \/ Refuse \/ WriteControlStream \/ USB_Device_GetStatus \/ USB_Device_GetConfiguration
  \/ USB_Device_ClearSetFeature \/ USB_Device_SetAddress \/ USB_Device_SetConfiguration
  \/ SetControlLineState \/ SetLineEncoding
  \/ SendPacket \/ EndStream \/ ReadPacket \/ EndRead \/ StatusOut
  \/ StatusThenFinish \/ StatusThenWait \/ USB_Device_SetDeviceAddress \/ StatusThenConfigure
-----------------------------------------------------------------------------
\* The CDC class driver, called by UsbSerial::process before the task.

Ready == context = "tick" /\ pc = "idle" /\ USB_DeviceState = "Configured" /\ BaudRateBPS

\* Endpoint_WaitUntilReady is entered with the packet handed over.
HandOver(place) ==
  /\ tx' = IF tx = CDC_TXRX_EPSIZE THEN Sent ELSE tx
  /\ pc' = place /\ left' = USB_STREAM_TIMEOUT_MS

\* slip: a full packet takes another byte
CDC_Device_SendByteTooMany ==
  /\ Ready
  /\ uenum' = CDC_TX_EPNUM
  /\ IF tx \in 0 .. CDC_TXRX_EPSIZE
     THEN tx' = tx + 1 /\ UNCHANGED <<pc, left>>
     ELSE HandOver("send")
  /\ UNCHANGED <<context, command, controller, bus, library, peer, rx, halted, request, LastPacketFull, PrevEndpoint>>

CDC_Device_SendByte ==
  /\ Ready
  /\ uenum' = CDC_TX_EPNUM
  /\ IF tx \in 0 .. CDC_TXRX_EPSIZE - 1
     THEN tx' = tx + 1 /\ UNCHANGED <<pc, left>>
     ELSE HandOver("send")
  /\ UNCHANGED <<context, command, controller, bus, library, peer, rx, halted, request, LastPacketFull, PrevEndpoint>>

CDC_Device_Flush ==
  /\ Ready
  /\ uenum' = CDC_TX_EPNUM
  /\ CASE tx = CDC_TXRX_EPSIZE -> HandOver("flush")
       [] tx \in 1 .. CDC_TXRX_EPSIZE - 1 -> tx' = Sent /\ UNCHANGED <<pc, left>>
       [] OTHER -> UNCHANGED <<tx, pc, left>>
  /\ UNCHANGED <<context, command, controller, bus, library, peer, rx, halted, request, LastPacketFull, PrevEndpoint>>

\* The wait is over: the host has read; or the device or the endpoint is out of
\* use; or a frame begins and the time is up.
WaitSucceeds ==
  /\ pc \in DataWaits /\ tx = 0
  /\ tx' = IF pc = "flush" THEN Sent ELSE 1
  /\ pc' = "idle" /\ left' = 0
  /\ UNCHANGED <<context, command, controller, bus, library, peer, uenum, rx, halted, request, LastPacketFull, PrevEndpoint>>

WaitFails ==
  /\ pc \in DataWaits /\ tx # 0
  /\ Gone \/ halted
  /\ pc' = "idle" /\ left' = 0
  /\ UNCHANGED <<context, command, controller, bus, library, peer, uenum, tx, rx, halted, request, LastPacketFull, PrevEndpoint>>

\* slip: the time is not counted
WaitFrameUncounted ==
  /\ pc \in DataWaits /\ tx # 0 /\ ~ (Gone \/ halted)
  /\ link = "active"
  /\ UNCHANGED vars

WaitFrame ==
  /\ pc \in DataWaits /\ tx # 0 /\ ~ (Gone \/ halted)
  /\ link = "active"
  /\ IF left = 0
     THEN pc' = "idle" /\ UNCHANGED left
     ELSE left' = left - 1 /\ UNCHANGED pc
  /\ UNCHANGED <<context, command, controller, bus, library, peer, uenum, tx, rx, halted, request, LastPacketFull, PrevEndpoint>>

Endpoint_WaitUntilReady == WaitSucceeds \/ WaitFails \/ WaitFrame
-----------------------------------------------------------------------------
\* The bootloader's CDC_Task, called from its main loop before the task. What a
\* command does to the memory is left out; it takes bytes from the data OUT
\* endpoint and answers bytes on the data IN endpoint, and each of its waits
\* polls the endpoint that is selected, unless the device is unattached.

OUTReceived == IF uenum = Control THEN out # None ELSE rx \notin {None, Disabled}
INReady == IF uenum = Control THEN in = None ELSE tx \notin {Sent, Disabled}

Commanded(place) ==
  /\ context = "loop" /\ Running /\ pc = place
  /\ UNCHANGED <<context, bus, library, peer, address, setup, out, stalled, halted,
                 request, left, LastPacketFull, PrevEndpoint>>

\* WriteNextResponseByte for n bytes, and, when they are in the bank, the
\* Endpoint_ClearIN that sends the last packet.
Answers(n) ==
  LET room == IF tx \in {Sent, Disabled} THEN 0 ELSE CDC_TXRX_EPSIZE - tx IN
  /\ uenum' = CDC_TX_EPNUM
  /\ tx' = IF tx = Disabled THEN tx ELSE Sent
  /\ IF n > room
     THEN pc' = "respond" /\ command' = [takes |-> 0, answers |-> n - room]
     ELSE pc' = (IF n = room THEN "zlp" ELSE "sent") /\ command' = NoCommand

\* FetchNextCommandByte, as long as the packet lasts, then the answer.
Fetches(c) ==
  IF rx < c.takes
  THEN /\ rx' = None /\ uenum' = CDC_RX_EPNUM
       /\ pc' = "fetch" /\ command' = [c EXCEPT !.takes = @ - rx]
       /\ UNCHANGED tx
  ELSE rx' = rx - c.takes /\ Answers(c.answers)

FindNoCommand ==
  /\ Commanded("idle")
  /\ rx \in {None, Disabled}
  /\ uenum' = CDC_RX_EPNUM
  /\ UNCHANGED <<command, pc, in, tx, rx>>

BeginCommand(c) ==
  /\ Commanded("idle")
  /\ rx \notin {None, Disabled}
  /\ Fetches(c)
  /\ UNCHANGED in

FetchNextCommandByte ==
  /\ Commanded("fetch")
  /\ uenum = CDC_RX_EPNUM /\ OUTReceived
  /\ Fetches(command)
  /\ UNCHANGED in

\* After a bus reset the byte goes astray into the control endpoint's bank,
\* where the next SETUP takes its place.
WriteNextResponseByte ==
  /\ Commanded("respond")
  /\ INReady
  /\ Answers(IF uenum = Control THEN command.answers - 1 ELSE command.answers)
  /\ UNCHANGED <<in, rx>>

SendEmptyPacket ==
  /\ Commanded("zlp")
  /\ INReady
  /\ IF uenum = Control THEN in' = 0 /\ UNCHANGED tx ELSE tx' = Sent /\ UNCHANGED in
  /\ pc' = "sent"
  /\ UNCHANGED <<command, uenum, rx>>

AcknowledgeCommand ==
  /\ Commanded("sent")
  /\ INReady
  /\ rx' = (IF rx = Disabled THEN rx ELSE None)
  /\ uenum' = CDC_RX_EPNUM /\ pc' = "idle"
  /\ UNCHANGED <<command, in, tx>>

\* slip: only the wait for the command's bytes looks at the device's state
GiveUpFetching ==
  /\ Commanded("fetch") /\ Unattached /\ ~ OUTReceived
  /\ tx' = IF tx # Disabled THEN Sent ELSE tx
  /\ uenum' = CDC_TX_EPNUM
  /\ pc' = "idle" /\ command' = NoCommand
  /\ UNCHANGED <<in, rx>>

\* The device is unattached, so every wait that is left is over at once. The
\* answer of a command that had not come whole is still written, and handed over.
GiveUp ==
  /\ Commanded(pc) /\ Unattached
  /\ \/ pc = "fetch" /\ ~ OUTReceived
     \/ pc \in AnswerWaits /\ ~ INReady
  /\ tx' = IF pc = "fetch" /\ tx # Disabled THEN Sent ELSE tx
  /\ uenum' = IF pc \in {"zlp", "sent"} THEN uenum ELSE CDC_TX_EPNUM
  /\ pc' = "idle" /\ command' = NoCommand
  /\ UNCHANGED <<in, rx>>

CDC_Task ==
  \/ FindNoCommand \/ \E c \in Command : BeginCommand(c)
  \/ FetchNextCommandByte \/ WriteNextResponseByte \/ SendEmptyPacket
  \/ AcknowledgeCommand \/ GiveUp
-----------------------------------------------------------------------------
\* USB_GEN_vect: every interrupt that has occurred and is enabled, in this
\* order, on what the ones before it left.

OnVBUS(r) ==
  IF "VBUS" \in r.flags
  THEN [r EXCEPT !.flags = @ \ {"VBUS"},
                 !.state = IF link = "none" THEN "Unattached" ELSE "Powered"]
  ELSE r

OnSUSPI(r) ==
  IF "SUSPI" \in r.flags \cap r.enabled
  THEN [r EXCEPT !.flags = @ \ {"SUSPI"},
                 !.enabled = (@ \ {"SUSPI"}) \cup {"WAKEUPI"},
                 !.state = "Suspended"]
  ELSE r

OnWAKEUPI(r) ==
  IF "WAKEUPI" \in r.flags \cap r.enabled
  THEN [r EXCEPT !.flags = @ \ {"WAKEUPI"},
                 !.enabled = (@ \ {"WAKEUPI"}) \cup {"SUSPI"},
                 !.state = IF USB_ConfigurationNumber # 0 \/ address # None
                           THEN "Configured" ELSE "Powered"]
  ELSE r

OnEORSTI(r) ==
  IF "EORSTI" \in r.flags
  THEN [r EXCEPT !.flags = @ \ {"EORSTI", "SUSPI"},
                 !.enabled = (@ \ {"SUSPI"}) \cup {"WAKEUPI"},
                 !.state = "Default"]
  ELSE r

\* slip: whatever has interrupted, the control endpoint is selected
USB_GEN_vectSelects ==
  /\ ~ Masked
  /\ flags \cap enabled # {}
  /\ LET r == OnEORSTI(OnWAKEUPI(OnSUSPI(OnVBUS(
                [flags |-> flags, enabled |-> enabled, state |-> USB_DeviceState]))))
     IN flags' = r.flags /\ enabled' = r.enabled /\ USB_DeviceState' = r.state
  /\ USB_ConfigurationNumber' = IF "EORSTI" \in flags THEN 0 ELSE USB_ConfigurationNumber
  /\ uenum' = Control
  /\ UNCHANGED <<context, command, link, controller, tx, rx, halted, BaudRateBPS, task, peer>>

USB_GEN_vect ==
  /\ ~ Masked
  /\ flags \cap enabled # {}
  /\ LET r == OnEORSTI(OnWAKEUPI(OnSUSPI(OnVBUS(
                [flags |-> flags, enabled |-> enabled, state |-> USB_DeviceState]))))
     IN flags' = r.flags /\ enabled' = r.enabled /\ USB_DeviceState' = r.state
  /\ IF "EORSTI" \in flags
     THEN USB_ConfigurationNumber' = 0 /\ uenum' = Control
     ELSE UNCHANGED <<USB_ConfigurationNumber, uenum>>
  /\ UNCHANGED <<context, command, link, controller, tx, rx, halted, BaudRateBPS, task, peer>>
-----------------------------------------------------------------------------
\* The host (external). The bus is slow: nothing happens on it while an
\* interrupt that may be served is pending, and the next SETUP comes after the
\* few instructions between the end of a transfer and the end of the task.

Reached == link = "active" /\ Settled /\ hostAddress = (IF address = None THEN 0 ELSE address)
Busy == host.stage \in {"dataIn", "dataOut", "statusIn", "statusOut"}

FirstStage(r) ==
  CASE r.kind \in DeviceToHost -> "dataIn"
    [] r.kind = "SetLineEncoding" -> "dataOut"
    [] OTHER -> "statusIn"

Sends(r) ==
  /\ Reached
  /\ setup' = r /\ out' = None /\ in' = None /\ stalled' = FALSE
  /\ host' = [stage |-> FirstStage(r), request |-> r, got |-> 0]
  /\ UNCHANGED <<context, command, address, bus, library, task, uenum, tx, rx, halted, hostAddress>>

HostSetup(r) ==
  /\ host.stage = "idle" /\ pc \notin ControlWaits
  /\ ~ (pc \in AnswerWaits /\ uenum = Control /\ INReady)
  /\ Sends(r)
  /\ UNCHANGED <<faults, disturbed>>

\* It breaks off when it has waited long enough, so not in the instant between
\* a request and the status packet.
HostBreaksOff(r) ==
  /\ Busy /\ pc # "statusIn"
  /\ faults < MaxFaults
  /\ Sends(r)
  /\ faults' = faults + 1 /\ disturbed' = TRUE

\* Packets are not exchanged before the request is taken.
Exchange(stage) == host.stage = stage /\ Reached /\ setup = NoRequest /\ ~ stalled

NowAt(stage) == host' = [host EXCEPT !.stage = stage]

HostReads ==
  /\ Exchange("dataIn") /\ in # None
  /\ in' = None
  /\ LET got == host.got + in IN
     host' = [host EXCEPT !.got = got,
                          !.stage = IF in < USB_ControlEndpointSize \/ got >= host.request.wLength
                                    THEN "statusOut" ELSE "dataIn"]
  /\ UNCHANGED <<context, command, address, setup, out, stalled, bus, library, task, uenum, tx, rx, halted,
                 hostAddress, faults, disturbed>>

HostAcknowledges ==
  /\ Exchange("statusOut") /\ out = None
  /\ out' = 0
  /\ host' = [stage |-> "idle", request |-> NoRequest, got |-> 0]
  /\ UNCHANGED <<context, command, address, setup, in, stalled, bus, library, task, uenum, tx, rx, halted,
                 hostAddress, faults, disturbed>>

HostWrites ==
  /\ Exchange("dataOut") /\ out = None
  /\ out' = host.request.wLength
  /\ NowAt("statusIn")
  /\ UNCHANGED <<context, command, address, setup, in, stalled, bus, library, task, uenum, tx, rx, halted,
                 hostAddress, faults, disturbed>>

HostGetsStatus ==
  /\ Exchange("statusIn") /\ in = 0
  /\ in' = None
  /\ hostAddress' = IF host.request.kind = "SetAddress" THEN host.request.arg ELSE hostAddress
  /\ host' = [stage |-> "idle", request |-> NoRequest, got |-> 0]
  /\ UNCHANGED <<context, command, address, setup, out, stalled, bus, library, task, uenum, tx, rx, halted,
                 faults, disturbed>>

HostGetsStall ==
  /\ Busy /\ Reached /\ stalled
  /\ host' = [stage |-> "idle", request |-> NoRequest, got |-> 0]
  /\ UNCHANGED <<context, command, controller, bus, library, task, uenum, tx, rx, halted,
                 hostAddress, faults, disturbed>>

HostReadsData ==
  /\ Reached /\ host.stage # "off" /\ tx = Sent /\ ~ halted
  /\ tx' = 0
  /\ UNCHANGED <<context, command, controller, bus, library, task, peer, uenum, rx, halted>>

\* A command for the bootloader, or a part of one.
HostSendsData ==
  /\ Reached /\ host.stage # "off" /\ context = "loop" /\ rx = None
  /\ rx' \in 1 .. CDC_TXRX_EPSIZE
  /\ UNCHANGED <<context, command, controller, bus, library, task, peer, uenum, tx, halted>>

\* The cable and the bus.
Off == [stage |-> "off", request |-> NoRequest, got |-> 0]

Plug ==
  /\ link = "none" /\ Settled
  /\ link' = "active"
  /\ flags' = flags \cup {"VBUS"}
  /\ UNCHANGED <<context, command, enabled, controller, library, task, peer, uenum, tx, rx, halted>>

Unplug ==
  /\ link # "none" /\ Settled
  /\ faults < MaxFaults
  /\ link' = "none"
  /\ flags' = flags \cup {"VBUS"}
  /\ host' = Off
  /\ faults' = faults + 1
  /\ disturbed' = (disturbed \/ Masked \/ setup # NoRequest)
  /\ UNCHANGED <<context, command, enabled, controller, library, task, hostAddress, uenum, tx, rx, halted>>

\* A reset disables the data endpoints and the address.
Reset ==
  /\ link' = "active"
  /\ flags' = flags \cup {"EORSTI", "WAKEUPI"}
  /\ address' = None /\ hostAddress' = 0
  /\ setup' = NoRequest /\ out' = None /\ in' = None /\ stalled' = FALSE
  /\ tx' = Disabled /\ rx' = Disabled /\ halted' = FALSE
  /\ host' = [Off EXCEPT !.stage = "idle"]
  /\ UNCHANGED <<context, command, enabled, library, task, uenum>>

FirstReset ==
  /\ link = "active" /\ host.stage = "off" /\ Settled
  /\ Reset
  /\ UNCHANGED <<faults, disturbed>>

ResetAgain ==
  /\ link # "none" /\ host.stage # "off" /\ Settled
  /\ faults < MaxFaults
  /\ Reset
  /\ faults' = faults + 1
  /\ disturbed' = (disturbed \/ Busy \/ pc \in ControlWaits)

Suspend ==
  /\ link = "active" /\ Settled
  /\ faults < MaxFaults
  /\ link' = "suspended"
  /\ flags' = flags \cup {"SUSPI"}
  /\ faults' = faults + 1
  /\ disturbed' = (disturbed \/ Busy \/ pc \in ControlWaits)
  /\ UNCHANGED <<context, command, enabled, controller, library, task, host, hostAddress, uenum, tx, rx, halted>>

Resume ==
  /\ link = "suspended" /\ Settled
  /\ link' = "active"
  /\ flags' = flags \cup {"WAKEUPI"}
  /\ UNCHANGED <<context, command, enabled, controller, library, task, peer, uenum, tx, rx, halted>>

Transfer == HostReads \/ HostAcknowledges \/ HostWrites \/ HostGetsStatus \/ HostGetsStall
HostStep ==
  \/ Transfer \/ HostReadsData \/ HostSendsData \/ \E r \in Request : HostSetup(r) \/ HostBreaksOff(r)
  \/ Plug \/ Unplug \/ FirstReset \/ ResetAgain \/ Suspend \/ Resume
-----------------------------------------------------------------------------
\* USB_Init, with the cable not yet in.
Init ==
  /\ context \in Contexts
  /\ link = "none" /\ flags = {} /\ enabled = {"VBUS", "SUSPI", "EORSTI"}
  /\ address = None /\ setup = NoRequest /\ out = None /\ in = None /\ stalled = FALSE
  /\ uenum = Control /\ tx = Disabled /\ rx = Disabled /\ halted = FALSE
  /\ USB_DeviceState = "Unattached" /\ USB_ConfigurationNumber = 0 /\ BaudRateBPS = FALSE
  /\ pc = "idle" /\ request = NoRequest /\ left = 0 /\ LastPacketFull = FALSE /\ PrevEndpoint = Control
  /\ command = NoCommand
  /\ host = Off /\ hostAddress = 0 /\ faults = 0 /\ disturbed = FALSE

Next ==
  \/ USB_Device_ProcessControlRequest
  \/ CDC_Device_SendByte \/ CDC_Device_Flush \/ Endpoint_WaitUntilReady
  \/ CDC_Task
  \/ USB_GEN_vect
  \/ HostStep

\* Every call of UsbSerial::process, however long it sent, ends with the task,
\* which goes on polling; the main loop of the bootloader goes round, by CDC_Task
\* and by the task in turn, as long as neither waits; a pending interrupt is
\* served between two ticks; a host goes on with its transfer. Nothing obliges it
\* to read data, to send the rest of a command, to begin anything, or to stay.
Fairness ==
  /\ SF_vars(USB_Device_ProcessControlRequest)
  /\ SF_vars(CDC_Task)
  /\ WF_vars(Endpoint_WaitUntilReady)
  /\ SF_vars(USB_GEN_vect)
  /\ WF_vars(Transfer)
Spec == Init /\ [][Next]_vars /\ Fairness
-----------------------------------------------------------------------------
\* Types: what the library's variables and the controller's registers can hold.
TypeOK ==
  /\ context \in Contexts
  /\ link \in {"none", "active", "suspended"}
  /\ flags \subseteq {"VBUS", "SUSPI", "WAKEUPI", "EORSTI"}
  /\ enabled \in {{"VBUS", "EORSTI", i} : i \in {"SUSPI", "WAKEUPI"}}
  /\ address \in {None, 0, 1} /\ hostAddress \in {0, 1}
  /\ setup \in Request \cup {NoRequest} /\ request \in Request \cup {NoRequest}
  /\ out \in {None, 0, LineSize} /\ in \in {None} \cup 0 .. USB_ControlEndpointSize
  /\ stalled \in BOOLEAN /\ LastPacketFull \in BOOLEAN /\ BaudRateBPS \in BOOLEAN
  /\ uenum \in {Control, CDC_TX_EPNUM, CDC_RX_EPNUM}
  /\ PrevEndpoint \in {Control, CDC_TX_EPNUM, CDC_RX_EPNUM}
  /\ tx \in {Disabled, Sent} \cup 0 .. CDC_TXRX_EPSIZE /\ halted \in BOOLEAN
  /\ rx \in {Disabled, None} \cup 0 .. CDC_TXRX_EPSIZE
  /\ command \in [takes : Nat, answers : Nat]
  /\ USB_DeviceState \in {"Unattached", "Powered", "Default", "Addressed", "Configured", "Suspended"}
  /\ USB_ConfigurationNumber \in 0 .. 1
  /\ pc \in {"idle"} \cup ControlWaits \cup DataWaits \cup CommandWaits
  /\ left \in Nat
  /\ host.stage \in {"off", "idle", "dataIn", "dataOut", "statusIn", "statusOut"}
  /\ host.request \in Request \cup {NoRequest} /\ host.got \in Nat
  /\ faults \in 0 .. MaxFaults /\ disturbed \in BOOLEAN

\* Device and host mean the same address whenever the device is not in the
\* middle of SetAddress: USB_Device_SetAddress takes the new one only when the
\* host has its status packet, which is sent from the old one.
AddressAgreed ==
  link = "active" /\ host.stage # "off" /\ ~ InSetAddress /\ ~ disturbed =>
    hostAddress = IF address = None THEN 0 ELSE address

\* A host that believes it has all the data it will get has all of the
\* descriptor, or as much of it as it asked for: no packet is short too early,
\* none too long, however often transfers are broken off.
DataWhole ==
  host.stage = "statusOut" /\ host.request.kind \in {"GetDescriptor", "GetLineEncoding"} =>
    host.got = Min({Length(host.request), host.request.wLength})

\* A wait polls the endpoint it is about: each request that selects another
\* endpoint selects the control endpoint again before it waits, and the
\* interrupt selects the control endpoint under a wait of the bootloader's
\* command for no event but the bus reset that disables the endpoint waited for.
EndpointKept ==
  /\ pc \in ControlWaits => uenum = Control
  /\ pc \in DataWaits => uenum = CDC_TX_EPNUM
  /\ pc = "fetch" => uenum = CDC_RX_EPNUM \/ (uenum = Control /\ rx = Disabled)
  /\ pc \in AnswerWaits => uenum = CDC_TX_EPNUM \/ (uenum = Control /\ tx = Disabled)

\* As long as the bootloader's CDC_Task comes back again and again, the device
\* answers a transfer, with what was asked for or with a stall, unless the host
\* breaks it off or is unplugged where the interrupt is masked: no wait of the
\* task waits for what the host will only do afterwards.
CommandsEnd == []<>(pc \notin CommandWaits)
TransfersEnd ==
  CommandsEnd => ((link = "active" /\ Busy) ~> (link # "active" \/ ~ Busy \/ disturbed))

\* A task in the main loop comes back after the cable is pulled: every wait
\* but SetAddress's looks at USB_DeviceState, which the interrupt sets.
UnplugEndsWait ==
  (context = "loop" /\ link = "none" /\ ~ InSetAddress) ~> (link # "none" \/ pc = "idle")

\* A wait for the data endpoint is over at the latest when
\* USB_STREAM_TIMEOUT_MS + 1 frames have begun, whether the host reads or not.
WaitTimesOut == (pc \in DataWaits) ~> (pc = "idle" \/ link # "active")
-----------------------------------------------------------------------------
\* USBTask.h:159 "This task may be executed inside an RTOS, fast timer ISR or
\* the main user application loop": then it has to come back after the cable is
\* pulled, in any of them.
TaskEnds == (link = "none") ~> (link # "none" \/ pc = "idle")
=============================================================================
