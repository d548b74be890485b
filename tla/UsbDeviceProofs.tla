--------------------------- MODULE UsbDeviceProofs ---------------------------
(***************************************************************************)
(* Proofs about UsbDevice for every packet size, every set of descriptors, *)
(* every length a host may ask for and any number of faults.               *)
(***************************************************************************)
EXTENDS UsbDevice, TLAPS

USE ContextAssumption, SizeAssumption

Stage == {"off", "idle", "dataIn", "dataOut", "statusIn", "statusOut"}
State == {"Unattached", "Powered", "Default", "Addressed", "Configured", "Suspended"}
Interrupt == {"VBUS", "SUSPI", "WAKEUPI", "EORSTI"}

\* Which place belongs to which program and which request.
PlaceInv ==
  /\ pc = "setAddress" => request.kind = "SetAddress"
  /\ pc \in DataWaits => context = "tick"
  /\ pc \in CommandWaits => context = "loop"
  /\ host \in [stage : Stage, request : Request \cup {NoRequest}, got : Nat]
  /\ host.stage = "dataOut" => host.request.kind = "SetLineEncoding"

TypeInv == TypeOK /\ PlaceInv

HostIdle == setup = NoRequest /\ host.stage \in {"off", "idle"}

\* Of a bus reset under a command of the bootloader: while its interrupt is
\* pending the data endpoints are disabled and nothing has happened since, and a
\* host leaves the device the time to hand over the empty packet that goes astray.
CommandInv ==
  /\ pc \in CommandWaits /\ "EORSTI" \in flags =>
       tx = Disabled /\ rx = Disabled /\ in = None /\ HostIdle
  /\ pc = "zlp" /\ uenum = Control => in = None /\ HostIdle

\* A request that has not been taken is the one the host has just sent.
SetupInv ==
  /\ setup # NoRequest /\ host.stage # "off" =>
       /\ host.request = setup /\ host.stage = FirstStage(setup) /\ host.got = 0
       /\ in = None /\ ~ stalled
  /\ pc = "statusIn" => setup = NoRequest

\* The address the device listens to.
Listens == IF address = None THEN 0 ELSE address

\* While the device is in SetAddress: first the host waits for the status packet,
\* which is there as soon as the device waits for it to be read; then the host
\* uses the new address and the device is about to.
Changing ==
  \/ /\ host.stage = "statusIn" /\ host.request = request
     /\ hostAddress = Listens
     /\ ~ stalled
     /\ in = IF pc = "setAddress" THEN 0 ELSE None
  \/ /\ pc = "setAddress" /\ host.stage = "idle"
     /\ hostAddress = request.arg
     /\ in = None

\* Of a host that has broken nothing off.
AddressInv ==
  ~ disturbed =>
    /\ setup # NoRequest => pc \notin ControlWaits
    /\ host.stage = "off" => setup = NoRequest /\ ~ InSetAddress
    /\ host.stage = "statusIn" /\ host.request.kind = "SetAddress" => setup = host.request \/ InSetAddress
    /\ InSetAddress => Changing
    /\ host.stage # "off" /\ ~ InSetAddress => hostAddress = Listens

Streams == {"GetDescriptor", "GetLineEncoding"}
InPacket == IF in = None THEN 0 ELSE in

\* What the host has of a stream, the packet on its way and the rest make the
\* whole; behind a short packet there is no rest.
Remains(rest) ==
  /\ host.got + InPacket + rest = Streamed(host.request)
  /\ in # None /\ in < USB_ControlEndpointSize => rest = 0
  /\ pc = "stream" => left = rest

StreamInv ==
  host.stage = "dataIn" /\ host.request.kind \in Streams /\ setup = NoRequest /\ ~ stalled =>
    /\ pc \in {"idle", "stream", "streamOut"} \cup DataWaits \cup CommandWaits
    /\ ~ Refuses(host.request)
    /\ \E rest \in Nat : Remains(rest)
-----------------------------------------------------------------------------
\* What a request says about its parameters.
LEMMA RequestFacts ==
  ASSUME NEW r \in Request \cup {NoRequest}
  PROVE  /\ r.wLength \in Nat
         /\ r.kind = "SetAddress" => r.arg \in {0, 1}
         /\ r.kind = "SetConfiguration" => r.arg \in 0 .. 2
         /\ r.kind \in {"SetLineEncoding", "GetLineEncoding"} => r.wLength = LineSize
         /\ r.kind = "GetDescriptor" => r.arg \in 0 .. Len(Size)
         /\ r.kind = "none" <=> r = NoRequest
<1>1. CASE r = NoRequest
  BY <1>1 DEF NoRequest, Req
<1>2. CASE r \in {Req("GetDescriptor", d, n) : d \in 0 .. Len(Size), n \in Asked}
  BY <1>2 DEF Req, NoRequest
<1>3. CASE r \in {Req("GetStatus", e, 2) : e \in {Device, CDC_TX_EPNUM}}
  BY <1>3 DEF Req, NoRequest
<1>4. CASE r \in {Req("SetFeature", e, 0) : e \in {Device, Control, CDC_TX_EPNUM}}
  BY <1>4 DEF Req, NoRequest
<1>5. CASE r \in {Req("ClearFeature", CDC_TX_EPNUM, 0)}
  BY <1>5 DEF Req, NoRequest
<1>6. CASE r \in {Req("SetAddress", a, 0) : a \in {0, 1}}
  BY <1>6 DEF Req, NoRequest
<1>7. CASE r \in {Req("GetConfiguration", None, 1)}
  BY <1>7 DEF Req, NoRequest
<1>8. CASE r \in {Req("SetConfiguration", c, 0) : c \in 0 .. 2}
  BY <1>8 DEF Req, NoRequest
<1>9. CASE r \in {Req("GetLineEncoding", None, LineSize), Req("SetLineEncoding", None, LineSize)}
  BY <1>9 DEF Req, NoRequest
<1>10. CASE r \in {Req(k, None, 0) : k \in {"SetControlLineState", "Other"}}
  BY <1>10 DEF Req, NoRequest
<1> QED
  BY <1>1, <1>2, <1>3, <1>4, <1>5, <1>6, <1>7, <1>8, <1>9, <1>10 DEF Request

LEMMA MinFacts ==
  ASSUME NEW a \in Nat, NEW b \in Nat
  PROVE  /\ Min({a, b}) = IF a <= b THEN a ELSE b
         /\ Min({a, b}) \in Nat /\ Min({a, b}) <= a /\ Min({a, b}) <= b
<1>1. Min({a, b}) = CHOOSE x \in {a, b} : \A y \in {a, b} : x =< y
  BY DEF Min
<1>2. \E x \in {a, b} : \A y \in {a, b} : x =< y
  OBVIOUS
<1>3. Min({a, b}) \in {a, b} /\ \A y \in {a, b} : Min({a, b}) =< y
  BY <1>1, <1>2
<1> QED
  BY <1>3

\* A stream is cut to wLength.
LEMMA StreamedFacts ==
  ASSUME NEW r \in Request, r.kind \in Streams, ~ Refuses(r)
  PROVE  /\ Length(r) \in Nat /\ Streamed(r) \in Nat
         /\ Streamed(r) <= r.wLength
         /\ Streamed(r) = Min({Length(r), r.wLength})
<1>1. Length(r) \in Nat
  <2>1. CASE r.kind = "GetDescriptor"
    <3>1. r.arg \in 1 .. Len(Size)
      BY <2>1, RequestFacts DEF Refuses
    <3> QED
      BY <2>1, <3>1 DEF Length
  <2>2. CASE r.kind = "GetLineEncoding"
    BY <2>2 DEF Length
  <2> QED
    BY <2>1, <2>2 DEF Streams
<1> QED
  BY <1>1, RequestFacts, MinFacts DEF Streamed
-----------------------------------------------------------------------------
\* Types.

LEMMA InitTypeInv == Init => TypeInv
<1> SUFFICES ASSUME Init PROVE TypeInv
  OBVIOUS
<1>1. enabled \in {{"VBUS", "EORSTI", i} : i \in {"SUSPI", "WAKEUPI"}}
  <2>1. enabled = {"VBUS", "EORSTI", "SUSPI"}
    BY DEF Init
  <2> QED
    BY <2>1
<1>2. host \in [stage : Stage, request : Request \cup {NoRequest}, got : Nat]
  BY DEF Init, Off, Stage
<1>3. PlaceInv
  BY <1>2 DEF Init, PlaceInv, Off, DataWaits, CommandWaits, AnswerWaits
<1>4. TypeOK
  <2>1. /\ context \in Contexts /\ link \in {"none", "active", "suspended"}
        /\ flags \subseteq {"VBUS", "SUSPI", "WAKEUPI", "EORSTI"}
        /\ stalled \in BOOLEAN /\ LastPacketFull \in BOOLEAN /\ BaudRateBPS \in BOOLEAN
        /\ halted \in BOOLEAN /\ disturbed \in BOOLEAN
    BY DEF Init
  <2>2. /\ address \in {None, 0, 1} /\ hostAddress \in {0, 1}
        /\ out \in {None, 0, LineSize} /\ in \in {None} \cup 0 .. USB_ControlEndpointSize
        /\ uenum \in {Control, CDC_TX_EPNUM, CDC_RX_EPNUM}
        /\ PrevEndpoint \in {Control, CDC_TX_EPNUM, CDC_RX_EPNUM}
        /\ tx \in {Disabled, Sent} \cup 0 .. CDC_TXRX_EPSIZE
        /\ rx \in {Disabled, None} \cup 0 .. CDC_TXRX_EPSIZE
        /\ USB_ConfigurationNumber \in 0 .. 1 /\ left \in Nat /\ faults \in 0 .. MaxFaults
    BY DEF Init
  <2>3. /\ setup \in Request \cup {NoRequest} /\ request \in Request \cup {NoRequest}
        /\ pc \in {"idle"} \cup ControlWaits \cup DataWaits \cup CommandWaits
        /\ command \in [takes : Nat, answers : Nat]
        /\ USB_DeviceState \in {"Unattached", "Powered", "Default", "Addressed", "Configured", "Suspended"}
    BY DEF Init, NoCommand
  <2> QED
    BY <1>1, <1>2, <2>1, <2>2, <2>3 DEF TypeOK, Stage
<1> QED
  BY <1>3, <1>4 DEF TypeInv

\* The beginning of a control request.
LEMMA TakeTypeInv ==
  ASSUME TypeInv, NEW place \in ControlWaits, TakeAndWait(place),
         place = "setAddress" => setup.kind = "SetAddress",
         in' \in {None} \cup 0 .. USB_ControlEndpointSize,
         tx' \in {Disabled, Sent} \cup 0 .. CDC_TXRX_EPSIZE, halted' \in BOOLEAN,
         USB_ConfigurationNumber' \in 0 .. 1, rx' = rx,
         left' \in Nat, LastPacketFull' \in BOOLEAN
  PROVE  TypeInv'
<1>1. PlaceInv'
  <2>1. pc' \notin DataWaits \cup CommandWaits
    BY DEF TakeAndWait, ControlWaits, DataWaits, CommandWaits, AnswerWaits
  <2> QED
    BY <2>1 DEF TypeInv, PlaceInv, TakeAndWait, peer
<1>2. TypeOK'
  BY DEF TypeInv, TypeOK, TakeAndWait, bus, peer, Control
<1> QED
  BY <1>1, <1>2 DEF TypeInv

LEMMA RequestTypeInv ==
  ASSUME TypeInv, Refuse \/ WriteControlStream \/ USB_Device_GetStatus \/ USB_Device_GetConfiguration
                  \/ USB_Device_ClearSetFeature \/ USB_Device_SetAddress \/ USB_Device_SetConfiguration
                  \/ SetControlLineState \/ SetLineEncoding
  PROVE  TypeInv'
<1>1. /\ setup \in Request \cup {NoRequest}
      /\ in \in {None} \cup 0 .. USB_ControlEndpointSize
      /\ tx \in {Disabled, Sent} \cup 0 .. CDC_TXRX_EPSIZE /\ halted \in BOOLEAN
      /\ USB_ConfigurationNumber \in 0 .. 1 /\ left \in Nat /\ LastPacketFull \in BOOLEAN
  BY DEF TypeInv, TypeOK
<1>2. {"stream", "statusOut", "statusIn", "read"} \subseteq ControlWaits
  BY DEF ControlWaits
<1>3. CASE Refuse
  BY <1>3 DEF Refuse, TypeInv, TypeOK, PlaceInv, bus, library, task, peer
<1>4. CASE WriteControlStream
  <2>1. Streamed(setup) \in Nat
    <3>1. setup.kind \in Streams /\ setup # NoRequest
      BY <1>1, <1>4, RequestFacts DEF WriteControlStream, Arrived, Streams, NoRequest, Req
    <3> QED
      BY <1>1, <1>4, <3>1, StreamedFacts DEF WriteControlStream
  <2> QED
    BY <1>1, <1>2, <1>4, <2>1, TakeTypeInv DEF WriteControlStream
<1>5. CASE USB_Device_GetStatus
  <2>1. in' \in {None} \cup 0 .. USB_ControlEndpointSize
    BY <1>1, <1>5 DEF USB_Device_GetStatus, ClearIN
  <2> QED
    BY <1>1, <1>2, <1>5, <2>1, TakeTypeInv DEF USB_Device_GetStatus
<1>6. CASE USB_Device_GetConfiguration
  <2>1. in' \in {None} \cup 0 .. USB_ControlEndpointSize
    BY <1>1, <1>6 DEF USB_Device_GetConfiguration, ClearIN
  <2> QED
    BY <1>1, <1>2, <1>6, <2>1, TakeTypeInv DEF USB_Device_GetConfiguration
<1>7. CASE USB_Device_ClearSetFeature
  <2>1. tx' \in {Disabled, Sent} \cup 0 .. CDC_TXRX_EPSIZE /\ halted' \in BOOLEAN
    <3>1. tx' = tx \/ tx' = 0
      BY <1>7 DEF USB_Device_ClearSetFeature
    <3>2. tx' \in {Disabled, Sent} \cup 0 .. CDC_TXRX_EPSIZE
      BY <1>1, <3>1
    <3>3. halted' = halted \/ halted' = (setup.kind = "SetFeature")
      BY <1>7 DEF USB_Device_ClearSetFeature
    <3>4. halted' \in BOOLEAN
      BY <1>1, <3>3
    <3> QED
      BY <3>2, <3>4
  <2> QED
    BY <1>1, <1>2, <1>7, <2>1, TakeTypeInv DEF USB_Device_ClearSetFeature
<1>8. CASE USB_Device_SetConfiguration
  <2>1. setup.arg \in 0 .. 1
    BY <1>1, <1>8, RequestFacts DEF USB_Device_SetConfiguration, Arrived, Refuses
  <2> QED
    BY <1>1, <1>2, <1>8, <2>1, TakeTypeInv DEF USB_Device_SetConfiguration
<1>9. CASE USB_Device_SetAddress \/ SetControlLineState \/ SetLineEncoding
  BY <1>1, <1>2, <1>9, TakeTypeInv DEF USB_Device_SetAddress, SetControlLineState, SetLineEncoding
<1> QED
  BY <1>3, <1>4, <1>5, <1>6, <1>7, <1>8, <1>9

\* Its end.
LEMMA FinishTypeInv ==
  ASSUME TypeInv, NEW e, Finish(e),
         address' \in {None, 0, 1},
         out' \in {None, 0, LineSize}, in' \in {None} \cup 0 .. USB_ControlEndpointSize,
         tx' \in {Disabled, Sent} \cup 0 .. CDC_TXRX_EPSIZE, halted' \in BOOLEAN,
         rx' \in {Disabled, None} \cup 0 .. CDC_TXRX_EPSIZE,
         USB_DeviceState' \in State, USB_ConfigurationNumber' \in 0 .. 1, BaudRateBPS' \in BOOLEAN
  PROVE  TypeInv'
<1>1. setup' \in Request \cup {NoRequest} /\ stalled' \in BOOLEAN
  BY DEF TypeInv, TypeOK, Finish
<1>2. PlaceInv'
  BY DEF TypeInv, PlaceInv, Finish, peer, DataWaits, CommandWaits, AnswerWaits
<1>3. TypeOK'
  BY <1>1 DEF TypeInv, TypeOK, Finish, bus, peer, Control, State
<1> QED
  BY <1>2, <1>3 DEF TypeInv

LEMMA WaitTypeInv ==
  ASSUME TypeInv, SendPacket \/ EndStream \/ ReadPacket \/ EndRead \/ StatusOut \/ StatusThenFinish
                  \/ StatusThenWait \/ USB_Device_SetDeviceAddress \/ StatusThenConfigure
  PROVE  TypeInv'
<1>1. /\ address \in {None, 0, 1}
      /\ out \in {None, 0, LineSize} /\ in \in {None} \cup 0 .. USB_ControlEndpointSize
      /\ tx \in {Disabled, Sent} \cup 0 .. CDC_TXRX_EPSIZE /\ halted \in BOOLEAN
      /\ rx \in {Disabled, None} \cup 0 .. CDC_TXRX_EPSIZE
      /\ USB_DeviceState \in State /\ USB_ConfigurationNumber \in 0 .. 1 /\ BaudRateBPS \in BOOLEAN
      /\ left \in Nat
  BY DEF TypeInv, TypeOK, State
<1>2. ASSUME ClearIN(0) PROVE in' \in {None} \cup 0 .. USB_ControlEndpointSize
  BY <1>1, <1>2 DEF ClearIN
<1>3. CASE SendPacket
  <2> DEFINE n == Min({left, USB_ControlEndpointSize})
  <2>1. n \in 0 .. USB_ControlEndpointSize /\ left - n \in Nat
    BY <1>1, MinFacts
  <2>2. in' \in {None} \cup 0 .. USB_ControlEndpointSize /\ left' \in Nat
    BY <1>1, <1>3, <2>1 DEF SendPacket, ClearIN
  <2>3. pc' \in {"stream", "streamOut"} /\ LastPacketFull' \in BOOLEAN
    BY <1>3 DEF SendPacket
  <2>4. PlaceInv'
    BY <1>3, <2>3 DEF SendPacket, TypeInv, PlaceInv, DataWaits, CommandWaits, AnswerWaits, peer
  <2>5. TypeOK'
    BY <1>3, <2>2, <2>3 DEF SendPacket, TypeInv, TypeOK, bus, library, peer, ControlWaits
  <2> QED
    BY <2>4, <2>5 DEF TypeInv
<1>4. CASE EndStream \/ StatusOut
  BY <1>1, <1>4, FinishTypeInv DEF EndStream, StatusOut, library
<1>5. CASE ReadPacket
  <2>1. PlaceInv'
    BY <1>5 DEF ReadPacket, TypeInv, PlaceInv, DataWaits, CommandWaits, AnswerWaits, peer
  <2>2. TypeOK'
    BY <1>5 DEF ReadPacket, TypeInv, TypeOK, bus, peer, ControlWaits
  <2> QED
    BY <2>1, <2>2 DEF TypeInv
<1>6. CASE EndRead \/ StatusThenFinish
  BY <1>1, <1>2, <1>6, FinishTypeInv DEF EndRead, StatusThenFinish, StatusIn, library
<1>7. CASE StatusThenWait
  <2>1. in' \in {None} \cup 0 .. USB_ControlEndpointSize
    BY <1>2, <1>7 DEF StatusThenWait, StatusIn
  <2>2. PlaceInv'
    BY <1>7 DEF StatusThenWait, TypeInv, PlaceInv, DataWaits, CommandWaits, AnswerWaits, peer
  <2>3. TypeOK'
    BY <1>7, <2>1 DEF StatusThenWait, TypeInv, TypeOK, bus, library, peer, ControlWaits
  <2> QED
    BY <2>2, <2>3 DEF TypeInv
<1>8. CASE USB_Device_SetDeviceAddress
  <2>1. request.arg \in {0, 1}
    BY <1>8, RequestFacts DEF USB_Device_SetDeviceAddress, TypeInv, TypeOK, PlaceInv
  <2>2. USB_DeviceState' \in State /\ address' \in {None, 0, 1}
    BY <1>8, <2>1 DEF USB_Device_SetDeviceAddress, State
  <2> QED
    BY <1>1, <1>8, <2>2, FinishTypeInv DEF USB_Device_SetDeviceAddress
<1>9. CASE StatusThenConfigure
  <2>1. USB_DeviceState' \in State /\ BaudRateBPS' \in BOOLEAN
    BY <1>9 DEF StatusThenConfigure, State
  <2>2. tx' \in {Disabled, Sent} \cup 0 .. CDC_TXRX_EPSIZE /\ rx' \in {Disabled, None} \cup 0 .. CDC_TXRX_EPSIZE
    BY <1>9 DEF StatusThenConfigure
  <2> QED
    BY <1>1, <1>2, <1>9, <2>1, <2>2, FinishTypeInv DEF StatusThenConfigure, StatusIn
<1> QED
  BY <1>3, <1>4, <1>5, <1>6, <1>7, <1>8, <1>9

\* The class driver.
LEMMA SendTypeInv ==
  ASSUME TypeInv, CDC_Device_SendByte \/ CDC_Device_Flush \/ Endpoint_WaitUntilReady
  PROVE  TypeInv'
<1>1. tx \in {Disabled, Sent} \cup 0 .. CDC_TXRX_EPSIZE /\ left \in Nat
  BY DEF TypeInv, TypeOK
<1>2. /\ pc \in {"idle"} \cup ControlWaits \cup DataWaits \cup CommandWaits
      /\ pc \in DataWaits => context = "tick"
      /\ pc \in CommandWaits => context = "loop"
  BY DEF TypeInv, TypeOK, PlaceInv
<1>3. ASSUME tx' \in {Disabled, Sent} \cup 0 .. CDC_TXRX_EPSIZE, left' \in Nat,
             pc' = pc \/ (pc' = "idle") \/ (pc' \in DataWaits /\ context = "tick"),
             uenum' \in {uenum, CDC_TX_EPNUM},
             UNCHANGED <<context, command, controller, bus, library, peer, rx, halted, request,
                         LastPacketFull, PrevEndpoint>>
      PROVE  TypeInv'
  <2>1. PlaceInv'
    BY <1>2, <1>3 DEF TypeInv, PlaceInv, DataWaits, CommandWaits, AnswerWaits, peer
  <2>2. TypeOK'
    BY <1>2, <1>3 DEF TypeInv, TypeOK, controller, bus, library, peer
  <2> QED
    BY <2>1, <2>2 DEF TypeInv
<1>4. CASE CDC_Device_SendByte
  <2>1. tx' \in {Disabled, Sent} \cup 0 .. CDC_TXRX_EPSIZE
    BY <1>1, <1>4 DEF CDC_Device_SendByte, HandOver, Sent
  <2>2. left' \in Nat
    BY <1>1, <1>4 DEF CDC_Device_SendByte, HandOver
  <2>3. pc' = pc \/ (pc' \in DataWaits /\ context = "tick")
    BY <1>4 DEF CDC_Device_SendByte, HandOver, Ready, DataWaits
  <2> QED
    BY <1>3, <1>4, <2>1, <2>2, <2>3 DEF CDC_Device_SendByte
<1>5. CASE CDC_Device_Flush
  <2>1. tx' \in {Disabled, Sent} \cup 0 .. CDC_TXRX_EPSIZE
    BY <1>1, <1>5 DEF CDC_Device_Flush, HandOver, Sent
  <2>2. left' \in Nat
    BY <1>1, <1>5 DEF CDC_Device_Flush, HandOver
  <2>3. pc' = pc \/ (pc' \in DataWaits /\ context = "tick")
    BY <1>5 DEF CDC_Device_Flush, HandOver, Ready, DataWaits
  <2> QED
    BY <1>3, <1>5, <2>1, <2>2, <2>3 DEF CDC_Device_Flush
<1>6. CASE WaitSucceeds
  <2>1. tx' \in {Disabled, Sent} \cup 0 .. CDC_TXRX_EPSIZE
    BY <1>6 DEF WaitSucceeds, Sent
  <2> QED
    BY <1>3, <1>6, <2>1 DEF WaitSucceeds
<1>7. CASE WaitFails
  BY <1>1, <1>3, <1>7 DEF WaitFails
<1>8. CASE WaitFrame
  <2>1. left' \in Nat /\ (pc' = pc \/ pc' = "idle")
    BY <1>1, <1>8 DEF WaitFrame
  <2> QED
    BY <1>1, <1>3, <1>8, <2>1 DEF WaitFrame
<1> QED
  BY <1>4, <1>5, <1>6, <1>7, <1>8 DEF Endpoint_WaitUntilReady

\* The bootloader's command: bytes fetched or written never exceed what there is.
LEMMA CommandTypeInv ==
  ASSUME TypeInv, CDC_Task
  PROVE  TypeInv'
<1>1. /\ tx \in {Disabled, Sent} \cup 0 .. CDC_TXRX_EPSIZE
      /\ rx \in {Disabled, None} \cup 0 .. CDC_TXRX_EPSIZE
      /\ in \in {None} \cup 0 .. USB_ControlEndpointSize
      /\ command \in [takes : Nat, answers : Nat]
      /\ uenum \in {Control, CDC_TX_EPNUM, CDC_RX_EPNUM}
  BY DEF TypeInv, TypeOK
<1>2. \A c \in Command : c \in [takes : Nat, answers : Nat]
  OBVIOUS
<1>3. ASSUME tx' \in {Disabled, Sent} \cup 0 .. CDC_TXRX_EPSIZE,
             rx' \in {Disabled, None} \cup 0 .. CDC_TXRX_EPSIZE,
             in' \in {None} \cup 0 .. USB_ControlEndpointSize,
             command' \in [takes : Nat, answers : Nat],
             uenum' \in {Control, CDC_TX_EPNUM, CDC_RX_EPNUM},
             pc' \in {"idle"} \cup CommandWaits,
             context = "loop",
             UNCHANGED <<context, bus, library, peer, address, setup, out, stalled, halted,
                         request, left, LastPacketFull, PrevEndpoint>>
      PROVE  TypeInv'
  <2>1. PlaceInv'
    BY <1>3 DEF TypeInv, PlaceInv, DataWaits, CommandWaits, AnswerWaits, peer
  <2>2. TypeOK'
    BY <1>3 DEF TypeInv, TypeOK, bus, library, peer
  <2> QED
    BY <2>1, <2>2 DEF TypeInv
<1>4. ASSUME NEW n \in Int, Answers(n)
      PROVE  /\ tx' \in {Disabled, Sent} \cup 0 .. CDC_TXRX_EPSIZE
             /\ command' \in [takes : Nat, answers : Nat]
             /\ uenum' = CDC_TX_EPNUM /\ pc' \in AnswerWaits
  <2> DEFINE room == IF tx \in {Sent, Disabled} THEN 0 ELSE CDC_TXRX_EPSIZE - tx
  <2>1. room \in Nat
    BY <1>1
  <2>2. tx' \in {Disabled, Sent} \cup 0 .. CDC_TXRX_EPSIZE
    BY <1>1, <1>4 DEF Answers
  <2>3. /\ n > room => pc' = "respond" /\ command' = [takes |-> 0, answers |-> n - room]
        /\ ~ (n > room) => pc' \in {"zlp", "sent"} /\ command' = NoCommand
        /\ uenum' = CDC_TX_EPNUM
    BY <1>4 DEF Answers
  <2> HIDE DEF room
  <2>4. n > room => n - room \in Nat
    BY <2>1
  <2>5. command' \in [takes : Nat, answers : Nat]
    BY <2>3, <2>4 DEF NoCommand
  <2> QED
    BY <2>2, <2>3, <2>5 DEF AnswerWaits
<1>5. ASSUME NEW c \in [takes : Nat, answers : Nat], rx \notin {None, Disabled}, Fetches(c)
      PROVE  /\ tx' \in {Disabled, Sent} \cup 0 .. CDC_TXRX_EPSIZE
             /\ rx' \in {Disabled, None} \cup 0 .. CDC_TXRX_EPSIZE
             /\ command' \in [takes : Nat, answers : Nat]
             /\ uenum' \in {CDC_RX_EPNUM, CDC_TX_EPNUM} /\ pc' \in CommandWaits
  <2>1. rx \in 0 .. CDC_TXRX_EPSIZE
    BY <1>1, <1>5
  <2>2. CASE rx < c.takes
    <3>1. /\ rx' = None /\ uenum' = CDC_RX_EPNUM /\ tx' = tx
          /\ pc' = "fetch" /\ command' = [c EXCEPT !.takes = c.takes - rx]
      BY <1>5, <2>2 DEF Fetches
    <3>2. c.takes - rx \in Nat
      BY <2>1, <2>2
    <3> QED
      BY <1>1, <3>1, <3>2 DEF CommandWaits
  <2>3. CASE ~ (rx < c.takes)
    <3>1. rx' = rx - c.takes /\ Answers(c.answers)
      BY <1>5, <2>3 DEF Fetches
    <3>2. rx' \in 0 .. CDC_TXRX_EPSIZE
      BY <2>1, <2>3, <3>1
    <3> QED
      BY <1>4, <3>1, <3>2 DEF CommandWaits
  <2> QED
    BY <2>2, <2>3
<1>6. CASE FindNoCommand
  BY <1>1, <1>3, <1>6 DEF FindNoCommand, Commanded
<1>7. CASE \E c \in Command : BeginCommand(c)
  BY <1>1, <1>2, <1>3, <1>5, <1>7 DEF BeginCommand, Commanded
<1>8. CASE FetchNextCommandByte
  <2>1. rx \notin {None, Disabled}
    BY <1>8 DEF FetchNextCommandByte, OUTReceived, CDC_RX_EPNUM, Control
  <2> QED
    BY <1>1, <1>3, <1>5, <1>8, <2>1 DEF FetchNextCommandByte, Commanded
<1>9. CASE WriteNextResponseByte
  <2> DEFINE n == IF uenum = Control THEN command.answers - 1 ELSE command.answers
  <2>1. n \in Int /\ Answers(n)
    BY <1>1, <1>9 DEF WriteNextResponseByte
  <2> HIDE DEF n
  <2> QED
    BY <1>1, <1>3, <1>4, <1>9, <2>1 DEF WriteNextResponseByte, Commanded, CommandWaits
<1>10. CASE SendEmptyPacket
  <2>1. /\ tx' \in {Disabled, Sent} \cup 0 .. CDC_TXRX_EPSIZE
        /\ in' \in {None} \cup 0 .. USB_ControlEndpointSize
    BY <1>1, <1>10 DEF SendEmptyPacket
  <2> QED
    BY <1>1, <1>3, <1>10, <2>1 DEF SendEmptyPacket, Commanded, CommandWaits, AnswerWaits
<1>11. CASE AcknowledgeCommand
  <2>1. rx' \in {Disabled, None} \cup 0 .. CDC_TXRX_EPSIZE
    BY <1>11 DEF AcknowledgeCommand
  <2> QED
    BY <1>1, <1>3, <1>11, <2>1 DEF AcknowledgeCommand, Commanded
<1>12. CASE GiveUp
  <2>1. /\ tx' \in {Disabled, Sent} \cup 0 .. CDC_TXRX_EPSIZE
        /\ uenum' \in {Control, CDC_TX_EPNUM, CDC_RX_EPNUM}
    BY <1>1, <1>12 DEF GiveUp
  <2>2. command' \in [takes : Nat, answers : Nat]
    BY <1>12 DEF GiveUp, NoCommand
  <2> QED
    BY <1>1, <1>3, <1>12, <2>1, <2>2 DEF GiveUp, Commanded
<1> QED
  BY <1>6, <1>7, <1>8, <1>9, <1>10, <1>11, <1>12 DEF CDC_Task

\* The interrupt's registers, between two of the sources it serves.
Registers == [flags : SUBSET Interrupt, enabled : {{"VBUS", "EORSTI", i} : i \in {"SUSPI", "WAKEUPI"}}, state : State]

LEMMA ServedTypes ==
  ASSUME NEW r \in Registers
  PROVE  /\ OnVBUS(r) \in Registers /\ OnSUSPI(r) \in Registers
         /\ OnWAKEUPI(r) \in Registers /\ OnEORSTI(r) \in Registers
<1>1. \A e : e \in {{"VBUS", "EORSTI", i} : i \in {"SUSPI", "WAKEUPI"}} =>
        /\ (e \ {"SUSPI"}) \cup {"WAKEUPI"} \in {{"VBUS", "EORSTI", i} : i \in {"SUSPI", "WAKEUPI"}}
        /\ (e \ {"WAKEUPI"}) \cup {"SUSPI"} \in {{"VBUS", "EORSTI", i} : i \in {"SUSPI", "WAKEUPI"}}
  <2> SUFFICES ASSUME NEW i \in {"SUSPI", "WAKEUPI"}
               PROVE  /\ ({"VBUS", "EORSTI", i} \ {"SUSPI"}) \cup {"WAKEUPI"} = {"VBUS", "EORSTI", "WAKEUPI"}
                      /\ ({"VBUS", "EORSTI", i} \ {"WAKEUPI"}) \cup {"SUSPI"} = {"VBUS", "EORSTI", "SUSPI"}
    OBVIOUS
  <2> QED
    OBVIOUS
<1>2. OnVBUS(r) \in Registers
  BY DEF OnVBUS, Registers, State
<1>3. OnSUSPI(r) \in Registers
  BY <1>1 DEF OnSUSPI, Registers, State
<1>4. OnWAKEUPI(r) \in Registers
  BY <1>1 DEF OnWAKEUPI, Registers, State
<1>5. OnEORSTI(r) \in Registers
  BY <1>1 DEF OnEORSTI, Registers, State
<1> QED
  BY <1>2, <1>3, <1>4, <1>5

LEMMA InterruptTypeInv ==
  ASSUME TypeInv, USB_GEN_vect
  PROVE  TypeInv'
<1> DEFINE r == OnEORSTI(OnWAKEUPI(OnSUSPI(OnVBUS(
                  [flags |-> flags, enabled |-> enabled, state |-> USB_DeviceState]))))
<1>1. [flags |-> flags, enabled |-> enabled, state |-> USB_DeviceState] \in Registers
  BY DEF TypeInv, TypeOK, Registers, Interrupt, State
<1>2. r \in Registers
  BY <1>1, ServedTypes
<1>3. flags' = r.flags /\ enabled' = r.enabled /\ USB_DeviceState' = r.state
  BY DEF USB_GEN_vect
<1> HIDE DEF r
<1>4. /\ flags' \subseteq Interrupt
      /\ enabled' \in {{"VBUS", "EORSTI", i} : i \in {"SUSPI", "WAKEUPI"}}
      /\ USB_DeviceState' \in State
  BY <1>2, <1>3 DEF Registers
<1>5. USB_ConfigurationNumber' \in 0 .. 1 /\ uenum' \in {Control, CDC_TX_EPNUM, CDC_RX_EPNUM}
  BY DEF USB_GEN_vect, TypeInv, TypeOK
<1>6. UNCHANGED <<context, command, link, controller, tx, rx, halted, BaudRateBPS, task, peer>>
  BY DEF USB_GEN_vect
<1>7. PlaceInv'
  BY <1>6 DEF TypeInv, PlaceInv, task, peer
<1>8. TypeOK'
  BY <1>4, <1>5, <1>6 DEF TypeInv, TypeOK, controller, task, peer, Interrupt, State
<1> QED
  BY <1>7, <1>8 DEF TypeInv

\* The host's record.
HostForm == [stage : Stage, request : Request \cup {NoRequest}, got : Nat]

\* The host's transfers: the packets, the host's record and address change.
LEMMA TransferTypeInv ==
  ASSUME TypeInv, Transfer \/ HostReadsData \/ HostSendsData \/ \E r \in Request : HostSetup(r) \/ HostBreaksOff(r)
  PROVE  TypeInv'
<1>1. /\ host \in HostForm
      /\ host.stage = "dataOut" => host.request.kind = "SetLineEncoding"
      /\ hostAddress \in {0, 1}
      /\ in \in {None} \cup 0 .. USB_ControlEndpointSize /\ out \in {None, 0, LineSize}
      /\ setup \in Request \cup {NoRequest} /\ stalled \in BOOLEAN
      /\ faults \in 0 .. MaxFaults
  BY DEF TypeInv, TypeOK, PlaceInv, HostForm
<1>a. disturbed \in BOOLEAN
  BY DEF TypeInv, TypeOK
<1>2. ASSUME host' \in HostForm, host'.stage = "dataOut" => host'.request.kind = "SetLineEncoding",
             hostAddress' \in {0, 1},
             in' \in {None} \cup 0 .. USB_ControlEndpointSize, out' \in {None, 0, LineSize},
             setup' \in Request \cup {NoRequest}, stalled' \in BOOLEAN,
             faults' \in 0 .. MaxFaults, disturbed' \in BOOLEAN,
             UNCHANGED <<context, command, address, bus, library, task, uenum, tx, rx, halted>>
      PROVE  TypeInv'
  <2>1. PlaceInv'
    BY <1>2 DEF TypeInv, PlaceInv, HostForm, task
  <2>2. TypeOK'
    BY <1>2 DEF TypeInv, TypeOK, HostForm, Stage, bus, library, task
  <2> QED
    BY <2>1, <2>2 DEF TypeInv
<1>3. ASSUME NEW r \in Request, Sends(r), faults' \in 0 .. MaxFaults, disturbed' \in BOOLEAN
      PROVE  TypeInv'
  <2>1. host' = [stage |-> FirstStage(r), request |-> r, got |-> 0]
    BY <1>3 DEF Sends
  <2>2. FirstStage(r) \in Stage /\ (FirstStage(r) = "dataOut" => r.kind = "SetLineEncoding")
    BY DEF FirstStage, Stage
  <2>3. host' \in HostForm /\ (host'.stage = "dataOut" => host'.request.kind = "SetLineEncoding")
    BY <2>1, <2>2 DEF HostForm
  <2> QED
    BY <1>1, <1>2, <1>3, <2>3 DEF Sends
<1>4. ASSUME NEW r \in Request, HostSetup(r) PROVE TypeInv'
  BY <1>1, <1>a, <1>3, <1>4 DEF HostSetup
<1>5. ASSUME NEW r \in Request, HostBreaksOff(r) PROVE TypeInv'
  <2>1. faults' \in 0 .. MaxFaults /\ disturbed' = TRUE
    BY <1>1, <1>5 DEF HostBreaksOff
  <2> QED
    BY <1>3, <1>5, <2>1 DEF HostBreaksOff
<1>6. CASE HostReads
  <2> DEFINE now == IF in < USB_ControlEndpointSize \/ host.got + in >= host.request.wLength
                    THEN "statusOut" ELSE "dataIn"
  <2>1. host' = [host EXCEPT !.got = host.got + in, !.stage = now]
    BY <1>6 DEF HostReads
  <2>2. now \in Stage /\ now # "dataOut"
    BY DEF Stage
  <2>3. host.got + in \in Nat
    BY <1>1, <1>6 DEF HostReads, HostForm, None
  <2> HIDE DEF now
  <2>4. host' \in HostForm /\ host'.stage # "dataOut"
    BY <1>1, <2>1, <2>2, <2>3 DEF HostForm
  <2> QED
    BY <1>1, <1>a, <1>2, <1>6, <2>4 DEF HostReads
<1>7. ASSUME host' = [stage |-> "idle", request |-> NoRequest, got |-> 0]
      PROVE  host' \in HostForm /\ host'.stage # "dataOut"
  BY <1>7 DEF HostForm, Stage
<1>8. CASE HostAcknowledges
  BY <1>1, <1>a, <1>2, <1>7, <1>8 DEF HostAcknowledges
<1>9. CASE HostWrites
  <2>1. host.request.wLength = LineSize
    BY <1>1, <1>9, RequestFacts DEF HostWrites, Exchange, HostForm
  <2>2. host' \in HostForm /\ host'.stage # "dataOut"
    BY <1>1, <1>9 DEF HostWrites, NowAt, HostForm, Stage
  <2> QED
    BY <1>1, <1>a, <1>2, <1>9, <2>1, <2>2 DEF HostWrites
<1>10. CASE HostGetsStatus
  <2>1. host.request.kind = "SetAddress" => host.request.arg \in {0, 1}
    BY <1>1, RequestFacts DEF HostForm
  <2>2. hostAddress' \in {0, 1}
    BY <1>1, <1>10, <2>1 DEF HostGetsStatus
  <2> QED
    BY <1>1, <1>a, <1>2, <1>7, <1>10, <2>2 DEF HostGetsStatus
<1>11. CASE HostGetsStall
  BY <1>1, <1>a, <1>2, <1>7, <1>11 DEF HostGetsStall, controller
<1>12. CASE HostReadsData
  <2>1. PlaceInv'
    BY <1>12 DEF HostReadsData, TypeInv, PlaceInv, task, peer
  <2>2. TypeOK'
    BY <1>12 DEF HostReadsData, TypeInv, TypeOK, controller, bus, library, task, peer
  <2> QED
    BY <2>1, <2>2 DEF TypeInv
<1>13. CASE HostSendsData
  <2>1. PlaceInv'
    BY <1>13 DEF HostSendsData, TypeInv, PlaceInv, task, peer
  <2>2. rx' \in {Disabled, None} \cup 0 .. CDC_TXRX_EPSIZE
    BY <1>13 DEF HostSendsData
  <2>3. TypeOK'
    BY <1>13, <2>2 DEF HostSendsData, TypeInv, TypeOK, controller, bus, library, task, peer
  <2> QED
    BY <2>1, <2>3 DEF TypeInv
<1> QED
  BY <1>4, <1>5, <1>6, <1>8, <1>9, <1>10, <1>11, <1>12, <1>13 DEF Transfer

\* The cable and the bus.
LEMMA BusTypeInv ==
  ASSUME TypeInv, Plug \/ Unplug \/ FirstReset \/ ResetAgain \/ Suspend \/ Resume
  PROVE  TypeInv'
<1>1. faults \in 0 .. MaxFaults /\ flags \subseteq {"VBUS", "SUSPI", "WAKEUPI", "EORSTI"}
  BY DEF TypeInv, TypeOK
<1>2. disturbed \in BOOLEAN
  BY DEF TypeInv, TypeOK
<1>3. CASE Plug \/ Resume
  <2>1. flags' \subseteq {"VBUS", "SUSPI", "WAKEUPI", "EORSTI"}
    BY <1>1, <1>3 DEF Plug, Resume
  <2>2. PlaceInv'
    BY <1>3 DEF Plug, Resume, TypeInv, PlaceInv, task, peer
  <2>3. TypeOK'
    BY <1>3, <2>1 DEF Plug, Resume, TypeInv, TypeOK, controller, library, task, peer
  <2> QED
    BY <2>2, <2>3 DEF TypeInv
<1>4. Off \in HostForm /\ Off.stage # "dataOut"
      /\ [Off EXCEPT !.stage = "idle"] \in HostForm /\ [Off EXCEPT !.stage = "idle"].stage # "dataOut"
  BY DEF Off, HostForm, Stage
<1>5. CASE Unplug
  <2>1. flags' \subseteq {"VBUS", "SUSPI", "WAKEUPI", "EORSTI"} /\ faults' \in 0 .. MaxFaults
    BY <1>1, <1>5 DEF Unplug
  <2>2. disturbed' \in BOOLEAN
    BY <1>5 DEF Unplug
  <2>3. host' \in HostForm /\ host'.stage # "dataOut"
    BY <1>4, <1>5 DEF Unplug
  <2>4. PlaceInv'
    BY <1>5, <2>3 DEF Unplug, TypeInv, PlaceInv, task, HostForm
  <2>5. TypeOK'
    BY <1>5, <2>1, <2>2, <2>3 DEF Unplug, TypeInv, TypeOK, HostForm, Stage, controller, library, task
  <2> QED
    BY <2>4, <2>5 DEF TypeInv
<1>6. CASE Suspend
  <2>1. flags' \subseteq {"VBUS", "SUSPI", "WAKEUPI", "EORSTI"} /\ faults' \in 0 .. MaxFaults
    BY <1>1, <1>6 DEF Suspend
  <2>2. disturbed' \in BOOLEAN
    BY <1>6 DEF Suspend
  <2>3. PlaceInv'
    BY <1>6 DEF Suspend, TypeInv, PlaceInv, task
  <2>4. TypeOK'
    BY <1>6, <2>1, <2>2 DEF Suspend, TypeInv, TypeOK, controller, library, task
  <2> QED
    BY <2>3, <2>4 DEF TypeInv
<1>7. CASE FirstReset \/ ResetAgain
  <2>1. Reset
    BY <1>7 DEF FirstReset, ResetAgain
  <2>2. flags' \subseteq {"VBUS", "SUSPI", "WAKEUPI", "EORSTI"}
    BY <1>1, <2>1 DEF Reset
  <2>3. faults' \in 0 .. MaxFaults
    BY <1>1, <1>7 DEF FirstReset, ResetAgain
  <2>4. disturbed' \in BOOLEAN
    BY <1>2, <1>7 DEF FirstReset, ResetAgain
  <2>5. host' \in HostForm /\ host'.stage # "dataOut"
    BY <1>4, <2>1 DEF Reset
  <2>6. PlaceInv'
    BY <2>1, <2>5 DEF Reset, TypeInv, PlaceInv, task, HostForm
  <2>7. TypeOK'
    BY <2>1, <2>2, <2>3, <2>4, <2>5 DEF Reset, TypeInv, TypeOK, HostForm, Stage, library, task
  <2> QED
    BY <2>6, <2>7 DEF TypeInv
<1> QED
  BY <1>3, <1>5, <1>6, <1>7

LEMMA StepTypeInv == TypeInv /\ [Next]_vars => TypeInv'
<1> SUFFICES ASSUME TypeInv, [Next]_vars PROVE TypeInv'
  OBVIOUS
<1>1. CASE USB_Device_ProcessControlRequest
  BY <1>1, RequestTypeInv, WaitTypeInv DEF USB_Device_ProcessControlRequest
<1>2. CASE CDC_Device_SendByte \/ CDC_Device_Flush \/ Endpoint_WaitUntilReady \/ CDC_Task
  BY <1>2, SendTypeInv, CommandTypeInv
<1>3. CASE USB_GEN_vect
  BY <1>3, InterruptTypeInv
<1>4. CASE HostStep
  BY <1>4, TransferTypeInv, BusTypeInv DEF HostStep
<1>5. CASE UNCHANGED vars
  BY <1>5 DEF vars, controller, bus, library, task, peer, TypeInv, TypeOK, PlaceInv
<1> QED
  BY <1>1, <1>2, <1>3, <1>4, <1>5 DEF Next

\* TypeOK holds in every state: the registers and the library's variables hold
\* what the code can write, also where a wait is broken off in any state.
THEOREM TypeCorrect == Spec => []TypeOK
<1>1. Spec => []TypeInv
  BY InitTypeInv, StepTypeInv, PTL DEF Spec
<1>2. TypeInv => TypeOK
  BY DEF TypeInv
<1> QED
  BY <1>1, <1>2, PTL
-----------------------------------------------------------------------------
\* The bus reset and the bootloader's command.

\* A command goes on only when no interrupt is pending, and it selects the data
\* endpoint whose wait it comes to next.
LEMMA CommandFacts ==
  ASSUME TypeInv, CDC_Task
  PROVE  /\ pc \in {"idle"} \cup CommandWaits /\ pc' \in {"idle"} \cup CommandWaits
         /\ "EORSTI" \notin flags
         /\ UNCHANGED <<context, bus, library, peer, address, setup, out, stalled, request, left>>
         /\ in' = in \/ (pc = "zlp" /\ uenum = Control /\ pc' = "sent")
         /\ \/ pc' = "idle"
            \/ pc' = "fetch" /\ uenum' = CDC_RX_EPNUM
            \/ pc' \in AnswerWaits /\ uenum' = CDC_TX_EPNUM
            \/ pc = "zlp" /\ pc' = "sent" /\ uenum = Control /\ UNCHANGED <<uenum, tx>>
            \/ pc = "zlp" /\ pc' = "sent" /\ uenum # Control /\ UNCHANGED uenum
<1>1. ASSUME NEW n, Answers(n) PROVE pc' \in AnswerWaits /\ uenum' = CDC_TX_EPNUM
  BY <1>1 DEF Answers, AnswerWaits
<1>2. ASSUME NEW c, Fetches(c)
      PROVE  \/ pc' = "fetch" /\ uenum' = CDC_RX_EPNUM
             \/ pc' \in AnswerWaits /\ uenum' = CDC_TX_EPNUM
  BY <1>1, <1>2 DEF Fetches
<1>3. PICK place \in {"idle"} \cup CommandWaits : Commanded(place)
  <2>1. CASE GiveUp
    BY <2>1 DEF GiveUp, CommandWaits
  <2>2. CASE ~ GiveUp
    BY <2>2 DEF CDC_Task, FindNoCommand, BeginCommand, FetchNextCommandByte, WriteNextResponseByte,
                SendEmptyPacket, AcknowledgeCommand, CommandWaits, AnswerWaits
  <2> QED
    BY <2>1, <2>2
<1>4. /\ context = "loop" /\ Running /\ pc \in {"idle"} \cup CommandWaits
      /\ UNCHANGED <<context, bus, library, peer, address, setup, out, stalled, request, left>>
  BY <1>3 DEF Commanded
<1>5. "EORSTI" \notin flags
  <2>1. ~ Masked
    BY <1>4 DEF Masked, InSetAddress, CommandWaits, AnswerWaits
  <2>2. flags \cap enabled = {}
    BY <1>4, <2>1 DEF Running, Settled
  <2>3. "EORSTI" \in enabled
    BY DEF TypeInv, TypeOK
  <2> QED
    BY <2>2, <2>3
<1>6. CASE FindNoCommand
  BY <1>4, <1>5, <1>6 DEF FindNoCommand, Commanded
<1>7. CASE (\E c \in Command : BeginCommand(c)) \/ FetchNextCommandByte
  <2>1. PICK c : Fetches(c) /\ UNCHANGED in
    BY <1>7 DEF BeginCommand, FetchNextCommandByte
  <2> QED
    BY <1>2, <1>4, <1>5, <2>1 DEF CommandWaits
<1>8. CASE WriteNextResponseByte
  <2>1. PICK n : Answers(n) /\ UNCHANGED in
    BY <1>8 DEF WriteNextResponseByte
  <2> QED
    BY <1>1, <1>4, <1>5, <2>1 DEF CommandWaits
<1>9. CASE SendEmptyPacket
  <2>1. /\ pc = "zlp" /\ pc' = "sent" /\ UNCHANGED uenum
        /\ IF uenum = Control THEN UNCHANGED tx ELSE UNCHANGED in
    BY <1>9 DEF SendEmptyPacket, Commanded
  <2> QED
    BY <1>4, <1>5, <2>1 DEF CommandWaits, AnswerWaits
<1>10. CASE AcknowledgeCommand \/ GiveUp
  BY <1>4, <1>5, <1>10 DEF AcknowledgeCommand, GiveUp
<1> QED
  BY <1>6, <1>7, <1>8, <1>9, <1>10 DEF CDC_Task

\* The interrupt serves a bus reset when there has been one.
LEMMA ResetServed ==
  ASSUME TypeInv, USB_GEN_vect
  PROVE  /\ "EORSTI" \notin flags'
         /\ UNCHANGED <<context, command, link, controller, tx, rx, halted, task, peer>>
         /\ "EORSTI" \in flags => uenum' = Control
         /\ "EORSTI" \notin flags => uenum' = uenum
<1> DEFINE r == OnWAKEUPI(OnSUSPI(OnVBUS(
                  [flags |-> flags, enabled |-> enabled, state |-> USB_DeviceState])))
<1>1. flags' = OnEORSTI(r).flags
  BY DEF USB_GEN_vect
<1>4. [flags |-> flags, enabled |-> enabled, state |-> USB_DeviceState] \in Registers
  BY DEF TypeInv, TypeOK, Registers, Interrupt, State
<1>5. r \in Registers
  BY <1>4, ServedTypes
<1> HIDE DEF r
<1>2. ASSUME "EORSTI" \in r.flags PROVE "EORSTI" \notin flags'
  <2>1. OnEORSTI(r) = [r EXCEPT !.flags = r.flags \ {"EORSTI", "SUSPI"},
                                !.enabled = (r.enabled \ {"SUSPI"}) \cup {"WAKEUPI"},
                                !.state = "Default"]
    BY <1>2 DEF OnEORSTI
  <2>2. "EORSTI" \notin OnEORSTI(r).flags
    BY <1>5, <2>1 DEF Registers
  <2> QED
    BY <1>1, <2>2
<1>3. ASSUME "EORSTI" \notin r.flags PROVE "EORSTI" \notin flags'
  BY <1>1, <1>3 DEF OnEORSTI
<1> QED
  BY <1>2, <1>3 DEF USB_GEN_vect

\* The host, the cable and the bus move only when no interrupt may be served.
LEMMA HostFacts ==
  ASSUME TypeInv, HostStep, pc \in CommandWaits
  PROVE  /\ "EORSTI" \notin flags
         /\ UNCHANGED <<pc, uenum>>
         /\ \/ "EORSTI" \notin flags'
            \/ tx' = Disabled /\ rx' = Disabled /\ in' = None /\ HostIdle'
<1>1. Settled
  BY DEF HostStep, Transfer, HostReads, HostAcknowledges, HostWrites, HostGetsStatus, HostGetsStall,
         HostReadsData, HostSendsData, HostSetup, HostBreaksOff, Sends, Plug, Unplug, FirstReset,
         ResetAgain, Suspend, Resume, Exchange, Reached
<1>2. "EORSTI" \notin flags
  <2>1. ~ Masked
    BY DEF Masked, InSetAddress, CommandWaits, AnswerWaits, TypeInv, PlaceInv
  <2>2. flags \cap enabled = {} /\ "EORSTI" \in enabled
    BY <1>1, <2>1 DEF Settled, TypeInv, TypeOK
  <2> QED
    BY <2>2
<1>3. CASE FirstReset \/ ResetAgain
  <2>1. Reset
    BY <1>3 DEF FirstReset, ResetAgain
  <2>2. HostIdle'
    BY <2>1 DEF Reset, HostIdle, Off
  <2> QED
    BY <1>2, <2>1, <2>2 DEF Reset, task
<1>4. CASE Plug \/ Unplug \/ Suspend \/ Resume
  BY <1>2, <1>4 DEF Plug, Unplug, Suspend, Resume, task
<1>5. CASE Transfer \/ HostReadsData \/ HostSendsData
  BY <1>2, <1>5 DEF Transfer, HostReads, HostAcknowledges, HostWrites, HostGetsStatus, HostGetsStall,
                    HostReadsData, HostSendsData, bus, task
<1>6. CASE \E r \in Request : HostSetup(r) \/ HostBreaksOff(r)
  BY <1>2, <1>6 DEF HostSetup, HostBreaksOff, Sends, bus, task
<1> QED
  BY <1>3, <1>4, <1>5, <1>6 DEF HostStep

\* The places of a control request and of the class driver are none of a command's.
LEMMA PlacesApart ==
  /\ "idle" \notin ControlWaits \cup DataWaits \cup CommandWaits
  /\ ControlWaits \cap DataWaits = {} /\ ControlWaits \cap CommandWaits = {}
  /\ DataWaits \cap CommandWaits = {}
  /\ AnswerWaits \subseteq CommandWaits /\ "fetch" \in CommandWaits \ AnswerWaits
  /\ "zlp" \in AnswerWaits /\ "sent" \in AnswerWaits
BY DEF ControlWaits, DataWaits, CommandWaits, AnswerWaits

\* The steps of a control request and of the class driver are outside a command.
LEMMA RequestOutside ==
  ASSUME USB_Device_ProcessControlRequest \/ CDC_Device_SendByte \/ CDC_Device_Flush
           \/ Endpoint_WaitUntilReady
  PROVE  pc' \notin CommandWaits
<1>1. CASE Refuse
  BY <1>1, PlacesApart DEF Refuse, Arrived, task
<1>2. CASE WriteControlStream \/ USB_Device_GetStatus \/ USB_Device_GetConfiguration
           \/ USB_Device_ClearSetFeature \/ USB_Device_SetAddress \/ USB_Device_SetConfiguration
           \/ SetControlLineState \/ SetLineEncoding
  <2>1. PICK place \in {"stream", "statusOut", "statusIn", "read"} : TakeAndWait(place)
    BY <1>2 DEF WriteControlStream, USB_Device_GetStatus, USB_Device_GetConfiguration,
                USB_Device_ClearSetFeature, USB_Device_SetAddress, USB_Device_SetConfiguration,
                SetControlLineState, SetLineEncoding
  <2> QED
    BY <2>1 DEF TakeAndWait, CommandWaits, AnswerWaits
<1>3. CASE SendPacket \/ ReadPacket \/ StatusThenWait
  BY <1>3 DEF SendPacket, ReadPacket, StatusThenWait, CommandWaits, AnswerWaits
<1>4. CASE EndStream \/ EndRead \/ StatusOut \/ StatusThenFinish
           \/ USB_Device_SetDeviceAddress \/ StatusThenConfigure
  BY <1>4, PlacesApart DEF EndStream, EndRead, StatusOut, StatusThenFinish,
                           USB_Device_SetDeviceAddress, StatusThenConfigure, Finish
<1>5. CASE CDC_Device_SendByte \/ CDC_Device_Flush
  BY <1>5 DEF CDC_Device_SendByte, CDC_Device_Flush, HandOver, Ready, CommandWaits, AnswerWaits
<1>6. CASE Endpoint_WaitUntilReady
  BY <1>6, PlacesApart DEF Endpoint_WaitUntilReady, WaitSucceeds, WaitFails, WaitFrame
<1> QED
  BY <1>1, <1>2, <1>3, <1>4, <1>5, <1>6 DEF USB_Device_ProcessControlRequest

LEMMA StepCommandInv == TypeInv /\ CommandInv /\ [Next]_vars => CommandInv'
<1> SUFFICES ASSUME TypeInv, CommandInv, [Next]_vars PROVE CommandInv'
  OBVIOUS
<1>1. ASSUME pc' \notin CommandWaits PROVE CommandInv'
  BY <1>1, PlacesApart DEF CommandInv
<1>2. CASE USB_Device_ProcessControlRequest \/ CDC_Device_SendByte \/ CDC_Device_Flush
             \/ Endpoint_WaitUntilReady
  BY <1>1, <1>2, RequestOutside
<1>3. CASE CDC_Task
  <2>1. "EORSTI" \notin flags'
    BY <1>3, CommandFacts DEF bus
  <2>2. pc' = "zlp" => uenum' = CDC_TX_EPNUM
    BY <1>3, CommandFacts
  <2> QED
    BY <2>1, <2>2 DEF CommandInv, Control, CDC_TX_EPNUM
<1>4. CASE USB_GEN_vect
  <2>1. /\ "EORSTI" \notin flags'
        /\ UNCHANGED <<pc, in, setup, host>>
        /\ "EORSTI" \in flags \/ uenum' = uenum
    BY <1>4, ResetServed DEF controller, task, peer
  <2>2. pc = "zlp" /\ uenum' = Control => in = None /\ HostIdle
    BY <2>1, PlacesApart DEF CommandInv
  <2> QED
    BY <2>1, <2>2 DEF CommandInv, HostIdle
<1>5. CASE HostStep
  <2>1. pc' = pc /\ uenum' = uenum
    BY <1>5 DEF HostStep, Transfer, HostReads, HostAcknowledges, HostWrites, HostGetsStatus,
                 HostGetsStall, HostReadsData, HostSendsData, HostSetup, HostBreaksOff, Sends, Plug, Unplug,
                 FirstReset, ResetAgain, Reset, Suspend, Resume, task
  <2>2. CASE pc \in CommandWaits
    <3>1. "EORSTI" \in flags' => tx' = Disabled /\ rx' = Disabled /\ in' = None /\ HostIdle'
      BY <1>5, <2>2, HostFacts
    <3>2. ASSUME pc = "zlp", uenum = Control PROVE in' = None /\ HostIdle'
      <4>1. in = None /\ HostIdle
        BY <3>2 DEF CommandInv
      <4>2. CASE Transfer \/ \E r \in Request : HostSetup(r) \/ HostBreaksOff(r)
        BY <3>2, <4>1, <4>2, PlacesApart
        DEF Transfer, HostReads, HostAcknowledges, HostWrites, HostGetsStatus, HostGetsStall, Exchange,
            Busy, HostSetup, HostBreaksOff, HostIdle, INReady
      <4>3. CASE Plug \/ Suspend \/ Resume \/ HostReadsData \/ HostSendsData
        BY <4>1, <4>3 DEF Plug, Suspend, Resume, HostReadsData, HostSendsData, HostIdle, controller, peer
      <4>4. CASE Unplug
        BY <4>1, <4>4 DEF Unplug, HostIdle, controller, Off
      <4>5. CASE FirstReset \/ ResetAgain
        BY <4>5 DEF FirstReset, ResetAgain, Reset, HostIdle, Off
      <4> QED
        BY <1>5, <4>2, <4>3, <4>4, <4>5 DEF HostStep
    <3> QED
      BY <2>1, <3>1, <3>2 DEF CommandInv
  <2>3. CASE pc \notin CommandWaits
    BY <1>1, <2>1, <2>3
  <2> QED
    BY <2>2, <2>3
<1>6. CASE UNCHANGED vars
  BY <1>6 DEF vars, controller, bus, task, peer, CommandInv, HostIdle
<1> QED
  BY <1>2, <1>3, <1>4, <1>5, <1>6 DEF Next
-----------------------------------------------------------------------------
\* The selected endpoint.

\* Each step either leaves the wait and the selection alone or sets both.
LEMMA StepEndpointKept == TypeInv /\ CommandInv /\ EndpointKept /\ [Next]_vars => EndpointKept'
<1> SUFFICES ASSUME TypeInv, CommandInv, EndpointKept, [Next]_vars PROVE EndpointKept'
  OBVIOUS
<1>1. ASSUME pc' = pc, uenum' = uenum, UNCHANGED <<rx, tx>> PROVE EndpointKept'
  BY <1>1 DEF EndpointKept
<1>2. ASSUME pc' \notin CommandWaits, pc' \in ControlWaits => uenum' = Control,
             pc' \in DataWaits => uenum' = CDC_TX_EPNUM
      PROVE  EndpointKept'
  BY <1>2, PlacesApart DEF EndpointKept
<1>3. ASSUME pc' = "idle" PROVE EndpointKept'
  BY <1>2, <1>3, PlacesApart
<1>4. ASSUME pc \in ControlWaits, pc' \in ControlWaits, uenum' = uenum PROVE EndpointKept'
  BY <1>2, <1>4, PlacesApart DEF EndpointKept
<1>5. CASE Refuse
  BY <1>3, <1>5 DEF Refuse, Arrived, task
<1>6. CASE WriteControlStream \/ USB_Device_GetStatus \/ USB_Device_GetConfiguration
           \/ USB_Device_ClearSetFeature \/ USB_Device_SetAddress \/ USB_Device_SetConfiguration
           \/ SetControlLineState \/ SetLineEncoding
  <2>1. PICK place \in {"stream", "statusOut", "statusIn", "read"} : TakeAndWait(place)
    BY <1>6 DEF WriteControlStream, USB_Device_GetStatus, USB_Device_GetConfiguration,
                USB_Device_ClearSetFeature, USB_Device_SetAddress, USB_Device_SetConfiguration,
                SetControlLineState, SetLineEncoding
  <2>2. pc' \in ControlWaits /\ uenum' = Control
    BY <2>1 DEF TakeAndWait, ControlWaits
  <2> QED
    BY <1>2, <2>2, PlacesApart
<1>7. CASE SendPacket \/ ReadPacket \/ StatusThenWait
  BY <1>4, <1>7 DEF SendPacket, ReadPacket, StatusThenWait, StatusIn, ControlWaits
<1>8. CASE EndStream \/ EndRead \/ StatusOut \/ StatusThenFinish
           \/ USB_Device_SetDeviceAddress \/ StatusThenConfigure
  BY <1>3, <1>8 DEF EndStream, EndRead, StatusOut, StatusThenFinish,
                    USB_Device_SetDeviceAddress, StatusThenConfigure, Finish
<1>9. CASE CDC_Device_SendByte \/ CDC_Device_Flush
  <2>1. uenum' = CDC_TX_EPNUM /\ pc' \in {"idle"} \cup DataWaits
    BY <1>9 DEF CDC_Device_SendByte, CDC_Device_Flush, HandOver, Ready, DataWaits
  <2> QED
    BY <1>2, <2>1, PlacesApart
<1>10. CASE Endpoint_WaitUntilReady
  BY <1>1, <1>3, <1>10 DEF Endpoint_WaitUntilReady, WaitSucceeds, WaitFails, WaitFrame
<1>11. CASE CDC_Task
  <2>1. CASE pc' = "idle"
    BY <1>3, <2>1
  <2>2. CASE pc' = "fetch" /\ uenum' = CDC_RX_EPNUM
    BY <2>2, PlacesApart DEF EndpointKept
  <2>3. CASE pc' \in AnswerWaits /\ uenum' = CDC_TX_EPNUM
    BY <2>3, PlacesApart DEF EndpointKept
  <2>4. CASE pc = "zlp" /\ pc' = "sent" /\ uenum = Control /\ UNCHANGED <<uenum, tx>>
    BY <2>4, PlacesApart DEF EndpointKept, Control, CDC_TX_EPNUM
  <2>5. CASE pc = "zlp" /\ pc' = "sent" /\ uenum # Control /\ UNCHANGED uenum
    BY <2>5, PlacesApart DEF EndpointKept
  <2> QED
    BY <1>11, <2>1, <2>2, <2>3, <2>4, <2>5, CommandFacts
<1>12. CASE USB_GEN_vect
  <2>1. pc \notin DataWaits
    BY <1>12, PlacesApart DEF USB_GEN_vect, Masked, TypeInv, PlaceInv
  <2>2. /\ UNCHANGED <<pc, tx, rx>>
        /\ "EORSTI" \in flags => uenum' = Control
        /\ "EORSTI" \notin flags => uenum' = uenum
    BY <1>12, ResetServed DEF task
  <2>3. CASE "EORSTI" \in flags
    <3>1. pc \in CommandWaits => tx = Disabled /\ rx = Disabled
      BY <2>3 DEF CommandInv
    <3> QED
      BY <2>1, <2>2, <2>3, <3>1, PlacesApart DEF EndpointKept
  <2>4. CASE "EORSTI" \notin flags
    BY <1>1, <2>2, <2>4
  <2> QED
    BY <2>3, <2>4
<1>13. CASE HostStep
  <2>1. pc' = pc /\ uenum' = uenum
    BY <1>13 DEF HostStep, Transfer, HostReads, HostAcknowledges, HostWrites, HostGetsStatus,
                 HostGetsStall, HostReadsData, HostSendsData, HostSetup, HostBreaksOff, Sends, Plug,
                 Unplug, FirstReset, ResetAgain, Reset, Suspend, Resume, task
  <2>2. (tx = Disabled => tx' = Disabled) /\ (rx = Disabled => rx' = Disabled)
    <3>1. CASE Transfer
      BY <3>1 DEF Transfer, HostReads, HostAcknowledges, HostWrites, HostGetsStatus, HostGetsStall
    <3>2. CASE HostReadsData
      BY <3>2 DEF HostReadsData, Disabled, Sent
    <3>3. CASE HostSendsData
      BY <3>3 DEF HostSendsData, Disabled, None
    <3>4. CASE \E r \in Request : HostSetup(r) \/ HostBreaksOff(r)
      BY <3>4 DEF HostSetup, HostBreaksOff, Sends
    <3>5. CASE Plug \/ Unplug \/ FirstReset \/ ResetAgain \/ Suspend \/ Resume
      BY <3>5 DEF Plug, Unplug, FirstReset, ResetAgain, Reset, Suspend, Resume
    <3> QED
      BY <1>13, <3>1, <3>2, <3>3, <3>4, <3>5 DEF HostStep
  <2> QED
    BY <2>1, <2>2 DEF EndpointKept
<1>14. CASE UNCHANGED vars
  BY <1>1, <1>14 DEF vars, task
<1> QED
  BY <1>5, <1>6, <1>7, <1>8, <1>9, <1>10, <1>11, <1>12, <1>13, <1>14
  DEF Next, USB_Device_ProcessControlRequest

\* A wait polls the endpoint it is about: the requests select the control
\* endpoint again before they wait, the interrupt that selects it is masked while
\* the class driver waits for the data endpoint, and under a command of the
\* bootloader it selects it only after a bus reset, which disables the endpoint.
THEOREM WaitsPollTheirOwn == Spec => []EndpointKept
<1>1. Init => TypeInv /\ CommandInv /\ EndpointKept
  BY InitTypeInv, PlacesApart DEF Init, CommandInv, EndpointKept
<1>2. TypeInv /\ CommandInv /\ EndpointKept /\ [Next]_vars => (TypeInv /\ CommandInv /\ EndpointKept)'
  BY StepTypeInv, StepCommandInv, StepEndpointKept
<1> QED
  BY <1>1, <1>2, PTL DEF Spec
-----------------------------------------------------------------------------
\* The request on the control endpoint.

\* The steps that hand over, send or wait for data, and the bus's that leave
\* the transfer and the address alone.
Aside ==
  \/ CDC_Device_SendByte \/ CDC_Device_Flush \/ Endpoint_WaitUntilReady \/ USB_GEN_vect
  \/ CDC_Task \/ HostReadsData \/ HostSendsData \/ Plug \/ Resume \/ Suspend \/ UNCHANGED vars

\* What a step aside leaves: everything of a transfer, and the task is not in one.
\* Only the bootloader's empty packet may go astray, where there is no transfer.
LEMMA AsideFacts ==
  ASSUME TypeInv, CommandInv, Aside
  PROVE  /\ UNCHANGED <<context, address, setup, out, stalled, host, hostAddress, request>>
         /\ in' = in \/ (HostIdle /\ pc \notin ControlWaits /\ pc' \notin ControlWaits)
         /\ \/ UNCHANGED <<pc, left>>
            \/ pc \notin ControlWaits /\ pc' \notin ControlWaits
         /\ disturbed => disturbed'
<1>1. CASE CDC_Device_SendByte \/ CDC_Device_Flush
  BY <1>1 DEF CDC_Device_SendByte, CDC_Device_Flush, HandOver, Ready, controller, peer, ControlWaits
<1>2. CASE Endpoint_WaitUntilReady
  BY <1>2 DEF Endpoint_WaitUntilReady, WaitSucceeds, WaitFails, WaitFrame, DataWaits, ControlWaits, controller, peer
<1>3. CASE USB_GEN_vect \/ HostReadsData \/ HostSendsData \/ Plug \/ Resume
  BY <1>3 DEF USB_GEN_vect, HostReadsData, HostSendsData, Plug, Resume, controller, task, peer
<1>4. CASE Suspend
  <2>1. disturbed => disturbed'
    BY <1>4 DEF Suspend
  <2> QED
    BY <1>4, <2>1 DEF Suspend, controller, task
<1>5. CASE UNCHANGED vars
  BY <1>5 DEF vars, controller, task, peer
<1>6. CASE CDC_Task
  <2>1. in' = in \/ HostIdle
    BY <1>6, CommandFacts DEF CommandInv
  <2>2. pc \notin ControlWaits /\ pc' \notin ControlWaits
    BY <1>6, CommandFacts, PlacesApart
  <2> QED
    BY <1>6, <2>1, <2>2, CommandFacts DEF peer
<1> QED
  BY <1>1, <1>2, <1>3, <1>4, <1>5, <1>6 DEF Aside

\* The places a request is taken to.
Takes ==
  \/ WriteControlStream \/ USB_Device_GetStatus \/ USB_Device_GetConfiguration
  \/ USB_Device_ClearSetFeature \/ USB_Device_SetAddress \/ USB_Device_SetConfiguration
  \/ SetControlLineState \/ SetLineEncoding

\* The steps that end a request.
Ends ==
  \/ EndStream \/ EndRead \/ StatusOut \/ StatusThenFinish
  \/ USB_Device_SetDeviceAddress \/ StatusThenConfigure

\* The next-state relation, sorted by what a step does to a transfer.
LEMMA StepsSorted ==
  ASSUME [Next]_vars
  PROVE  \/ Refuse \/ Takes \/ Ends \/ SendPacket \/ ReadPacket \/ StatusThenWait
         \/ Transfer \/ (\E r \in Request : HostSetup(r) \/ HostBreaksOff(r))
         \/ Unplug \/ FirstReset \/ ResetAgain
         \/ Aside
BY DEF Next, USB_Device_ProcessControlRequest, HostStep, Takes, Ends, Aside

\* A request is taken out of idle; what it is does not change.
LEMMA TakesFacts ==
  ASSUME Takes
  PROVE  /\ pc = "idle" /\ pc' \in {"stream", "statusOut", "statusIn", "read"}
         /\ setup.kind # "none" /\ request' = setup /\ setup' = NoRequest
         /\ ~ Refuses(setup) \/ setup.kind \in {"GetConfiguration", "SetAddress", "SetLineEncoding"}
         /\ UNCHANGED <<context, address, out, stalled, host, hostAddress, disturbed>>
<1>1. PICK place \in {"stream", "statusOut", "statusIn", "read"} : TakeAndWait(place)
  BY DEF Takes, WriteControlStream, USB_Device_GetStatus, USB_Device_GetConfiguration,
         USB_Device_ClearSetFeature, USB_Device_SetAddress, USB_Device_SetConfiguration,
         SetControlLineState, SetLineEncoding
<1>2. /\ pc = "idle" /\ setup.kind # "none"
      /\ ~ Refuses(setup) \/ setup.kind \in {"GetConfiguration", "SetAddress", "SetLineEncoding"}
  BY DEF Takes, WriteControlStream, USB_Device_GetStatus, USB_Device_GetConfiguration,
         USB_Device_ClearSetFeature, USB_Device_SetAddress, USB_Device_SetConfiguration,
         SetControlLineState, SetLineEncoding, Arrived
<1> QED
  BY <1>1, <1>2 DEF TakeAndWait, peer

\* When the task is back in idle the control endpoint has no request.
LEMMA EndsFacts ==
  ASSUME SetupInv, Ends
  PROVE  /\ pc \in ControlWaits /\ pc' = "idle" /\ setup' = NoRequest
         /\ UNCHANGED <<context, host, hostAddress, disturbed>>
<1>1. pc \in ControlWaits
  BY DEF Ends, EndStream, EndRead, StatusOut, StatusThenFinish, USB_Device_SetDeviceAddress,
         StatusThenConfigure, StatusIn, ControlWaits
<1>2. PICK e \in {Control, CDC_RX_EPNUM} : Finish(e) /\ (e = CDC_RX_EPNUM => pc = "statusIn")
  BY DEF Ends, EndStream, EndRead, StatusOut, StatusThenFinish, USB_Device_SetDeviceAddress,
         StatusThenConfigure, StatusIn, Control, CDC_RX_EPNUM
<1>3. setup' = NoRequest
  BY <1>2 DEF Finish, SetupInv
<1> QED
  BY <1>1, <1>2, <1>3 DEF Finish, peer

LEMMA NotNone == \A r \in Request : r # NoRequest /\ r.kind # "none"
<1> SUFFICES ASSUME NEW r \in Request PROVE r.kind # "none"
  BY DEF NoRequest, Req
<1> QED
  BY DEF Request, Req

LEMMA StepSetupInv == TypeInv /\ CommandInv /\ SetupInv /\ [Next]_vars => SetupInv'
<1> SUFFICES ASSUME TypeInv, CommandInv, SetupInv, [Next]_vars PROVE SetupInv'
  OBVIOUS
<1>1. ASSUME setup' = NoRequest PROVE SetupInv'
  BY <1>1 DEF SetupInv
<1>2. CASE Refuse \/ Takes \/ Ends
  BY <1>1, <1>2, TakesFacts, EndsFacts DEF Refuse
<1>3. CASE SendPacket \/ ReadPacket \/ StatusThenWait
  BY <1>1, <1>3 DEF SendPacket, ReadPacket, StatusThenWait, StatusIn, SetupInv
<1>4. CASE HostReads \/ HostAcknowledges \/ HostWrites \/ HostGetsStatus
  BY <1>1, <1>4 DEF HostReads, HostAcknowledges, HostWrites, HostGetsStatus, Exchange
<1>5. CASE HostGetsStall
  <2>1. setup = NoRequest
    BY <1>5 DEF HostGetsStall, Busy, SetupInv
  <2> QED
    BY <1>1, <1>5, <2>1 DEF HostGetsStall, controller
<1>6. ASSUME NEW r \in Request, HostSetup(r) \/ HostBreaksOff(r) PROVE SetupInv'
  <2>1. Sends(r) /\ pc # "statusIn"
    BY <1>6 DEF HostSetup, HostBreaksOff, ControlWaits
  <2>2. host' = [stage |-> FirstStage(r), request |-> r, got |-> 0]
        /\ setup' = r /\ in' = None /\ stalled' = FALSE /\ pc' = pc
    BY <2>1 DEF Sends, task
  <2> QED
    BY <2>1, <2>2 DEF SetupInv
<1>7. CASE Unplug
  BY <1>7 DEF Unplug, Off, SetupInv, controller, task
<1>8. CASE FirstReset \/ ResetAgain
  BY <1>1, <1>8 DEF FirstReset, ResetAgain, Reset
<1>9. CASE Aside
  BY <1>9, AsideFacts DEF SetupInv, HostIdle, ControlWaits
<1> QED
  BY <1>2, <1>3, <1>4, <1>5, <1>6, <1>7, <1>8, <1>9, StepsSorted DEF Transfer
-----------------------------------------------------------------------------
\* The address.

\* Where the device takes a request, is in one, or is done with one.
LEMMA DeviceAddressInv ==
  ASSUME TypeInv, SetupInv, AddressInv, ~ disturbed,
         Refuse \/ Takes \/ Ends \/ SendPacket \/ ReadPacket \/ StatusThenWait
  PROVE  AddressInv'
<1>1. /\ setup \in Request \cup {NoRequest} /\ request \in Request \cup {NoRequest}
      /\ host.request \in Request \cup {NoRequest}
      /\ pc = "setAddress" => request.kind = "SetAddress"
  BY DEF TypeInv, TypeOK, PlaceInv
<1>2. /\ setup # NoRequest => pc \notin ControlWaits
      /\ host.stage = "off" => setup = NoRequest /\ ~ InSetAddress
      /\ host.stage = "statusIn" /\ host.request.kind = "SetAddress" => setup = host.request \/ InSetAddress
      /\ InSetAddress => Changing
      /\ host.stage # "off" /\ ~ InSetAddress => hostAddress = Listens
  BY DEF AddressInv
<1>3. NoRequest.kind = "none"
  BY DEF NoRequest, Req
\* Outside of SetAddress it is enough that the request is not lost.
<1>4. ASSUME ~ InSetAddress, ~ InSetAddress', setup' = NoRequest,
             ~ (host.stage = "statusIn" /\ host.request.kind = "SetAddress"),
             UNCHANGED <<host, hostAddress, address>>
      PROVE  AddressInv'
  BY <1>2, <1>4 DEF AddressInv, Listens
<1>5. CASE Refuse
  <2>1. pc = "idle" /\ setup # NoRequest /\ setup.kind # "SetAddress"
    BY <1>5 DEF Refuse, Arrived, Refuses
  <2>2. ~ InSetAddress /\ ~ InSetAddress'
    BY <1>5, <2>1 DEF Refuse, InSetAddress, task
  <2> QED
    BY <1>2, <1>4, <1>5, <2>1, <2>2 DEF Refuse, peer
<1>6. CASE Takes
  <2>1. /\ pc = "idle" /\ pc' \in {"stream", "statusOut", "statusIn", "read"}
        /\ setup # NoRequest /\ request' = setup /\ setup' = NoRequest
        /\ UNCHANGED <<address, stalled, host, hostAddress, disturbed>>
    BY <1>3, <1>6, TakesFacts
  <2>2. ~ InSetAddress
    BY <2>1 DEF InSetAddress
  <2>3. CASE setup.kind # "SetAddress"
    <3>1. ~ InSetAddress'
      BY <2>1, <2>3 DEF InSetAddress
    <3> QED
      BY <1>2, <1>4, <2>1, <2>2, <2>3, <3>1
  <2>4. CASE setup.kind = "SetAddress"
    <3>1. USB_Device_SetAddress
      BY <1>6, <2>4 DEF Takes, WriteControlStream, USB_Device_GetStatus, USB_Device_GetConfiguration,
                        USB_Device_ClearSetFeature, USB_Device_SetConfiguration,
                        SetControlLineState, SetLineEncoding, Arrived
    <3>2. pc' = "statusIn" /\ in' = in
      BY <3>1 DEF USB_Device_SetAddress, TakeAndWait
    <3>3. host.stage # "off" /\ host.request = setup /\ host.stage = "statusIn" /\ in = None /\ ~ stalled
      BY <1>2, <2>1, <2>4 DEF SetupInv, FirstStage, DeviceToHost
    <3>4. hostAddress = Listens
      BY <1>2, <2>2, <3>3
    <3>5. Changing'
      BY <2>1, <3>2, <3>3, <3>4 DEF Changing, Listens
    <3>6. InSetAddress'
      BY <2>1, <2>4, <3>2 DEF InSetAddress
    <3> QED
      BY <2>1, <3>3, <3>5, <3>6 DEF AddressInv
  <2> QED
    BY <2>3, <2>4
<1>7. CASE EndStream \/ EndRead \/ StatusOut \/ StatusThenFinish \/ StatusThenConfigure
  <2>1. pc \in ControlWaits /\ pc' = "idle" /\ setup' = NoRequest /\ UNCHANGED <<host, hostAddress>>
    BY <1>7, EndsFacts DEF Ends
  <2>2. ~ InSetAddress /\ ~ InSetAddress'
    BY <1>7, <2>1 DEF EndStream, EndRead, StatusOut, StatusThenFinish, StatusThenConfigure,
                      StatusIn, InSetAddress
  <2>3. address' = address
    BY <1>7 DEF EndStream, EndRead, StatusOut, StatusThenFinish, StatusThenConfigure
  <2>4. ~ (host.stage = "statusIn" /\ host.request.kind = "SetAddress")
    BY <1>2, <1>3, <2>1, <2>2
  <2> QED
    BY <1>4, <2>1, <2>2, <2>3, <2>4
<1>8. CASE SendPacket \/ ReadPacket
  <2>1. /\ pc \in {"stream", "read"} /\ setup = NoRequest /\ setup' = setup
        /\ pc' \in {"stream", "streamOut", "readIn"}
        /\ UNCHANGED <<host, hostAddress, address>>
    BY <1>8 DEF SendPacket, ReadPacket, peer
  <2>2. ~ InSetAddress /\ ~ InSetAddress'
    BY <2>1 DEF InSetAddress
  <2>3. ~ (host.stage = "statusIn" /\ host.request.kind = "SetAddress")
    BY <1>2, <1>3, <2>1, <2>2
  <2> QED
    BY <1>4, <2>1, <2>2, <2>3
<1>9. CASE StatusThenWait
  <2>1. /\ pc = "statusIn" /\ pc' = "setAddress" /\ request.kind = "SetAddress"
        /\ UNCHANGED <<request, setup, host, hostAddress, address, stalled, disturbed>>
    BY <1>9 DEF StatusThenWait, StatusIn, peer
  <2>2. InSetAddress /\ InSetAddress'
    BY <2>1 DEF InSetAddress
  <2>3. setup = NoRequest
    BY <2>1 DEF SetupInv
  <2>4. /\ host.stage = "statusIn" /\ host.request = request
        /\ hostAddress = Listens /\ ~ stalled /\ in = None
    BY <1>2, <2>1, <2>2 DEF Changing
  <2>5. in' = 0
    BY <1>9, <2>4 DEF StatusThenWait, StatusIn, ClearIN
  <2>6. Changing'
    BY <2>1, <2>4, <2>5 DEF Changing, Listens
  <2> QED
    BY <2>1, <2>2, <2>3, <2>4, <2>6 DEF AddressInv
<1>10. CASE USB_Device_SetDeviceAddress
  <2>1. /\ pc = "setAddress" /\ in = None /\ address' = request.arg
        /\ pc' = "idle" /\ setup' = NoRequest
        /\ UNCHANGED <<host, hostAddress, disturbed>>
    BY <1>10, EndsFacts DEF USB_Device_SetDeviceAddress, Ends
  <2>2. request.kind = "SetAddress" /\ request.arg \in {0, 1}
    BY <1>1, <2>1, RequestFacts
  <2>3. Changing
    BY <1>2, <2>1, <2>2 DEF InSetAddress
  <2>4. host.stage = "idle" /\ hostAddress = request.arg
    BY <2>1, <2>3 DEF Changing, None
  <2>5. ~ InSetAddress'
    BY <2>1 DEF InSetAddress
  <2>6. Listens' = request.arg
    BY <2>1, <2>2 DEF Listens, None
  <2> QED
    BY <2>1, <2>4, <2>5, <2>6 DEF AddressInv
<1> QED
  BY <1>5, <1>6, <1>7, <1>8, <1>9, <1>10 DEF Ends

\* Where the host moves, or the bus.
LEMMA HostAddressInv ==
  ASSUME TypeInv, CommandInv, SetupInv, AddressInv, ~ disturbed, ~ disturbed',
         \/ Transfer \/ (\E r \in Request : HostSetup(r) \/ HostBreaksOff(r))
         \/ Unplug \/ FirstReset \/ ResetAgain \/ Aside
  PROVE  AddressInv'
<1>1. /\ setup \in Request \cup {NoRequest} /\ request \in Request \cup {NoRequest}
      /\ host \in HostForm
      /\ host.stage = "dataOut" => host.request.kind = "SetLineEncoding"
  BY DEF TypeInv, TypeOK, PlaceInv, HostForm
<1>2. /\ setup # NoRequest => pc \notin ControlWaits
      /\ host.stage = "off" => setup = NoRequest /\ ~ InSetAddress
      /\ host.stage = "statusIn" /\ host.request.kind = "SetAddress" => setup = host.request \/ InSetAddress
      /\ InSetAddress => Changing
      /\ host.stage # "off" /\ ~ InSetAddress => hostAddress = Listens
  BY DEF AddressInv
<1>3. NoRequest.kind = "none"
  BY DEF NoRequest, Req
<1>4. InSetAddress => host.stage \in {"statusIn", "idle"}
  BY <1>2 DEF Changing
\* Outside of SetAddress a host goes on to another stage of its transfer.
<1>5. ASSUME host.stage # "off", ~ InSetAddress, host'.stage # "off",
             ~ (host'.stage = "statusIn" /\ host'.request.kind = "SetAddress"),
             UNCHANGED <<pc, request, setup, address, hostAddress>>
      PROVE  AddressInv'
  <2>1. ~ InSetAddress'
    BY <1>5 DEF InSetAddress
  <2>2. Listens' = Listens
    BY <1>5 DEF Listens
  <2> QED
    BY <1>2, <1>5, <2>1, <2>2 DEF AddressInv
<1>6. CASE HostReads
  <2>1. host.stage = "dataIn" /\ UNCHANGED <<pc, request, setup, address, hostAddress>>
    BY <1>6 DEF HostReads, Exchange, task
  <2>2. host'.stage \in {"statusOut", "dataIn"}
    <3> DEFINE now == IF in < USB_ControlEndpointSize \/ host.got + in >= host.request.wLength
                      THEN "statusOut" ELSE "dataIn"
    <3>1. host' = [host EXCEPT !.got = host.got + in, !.stage = now]
      BY <1>6 DEF HostReads
    <3>2. now \in {"statusOut", "dataIn"}
      OBVIOUS
    <3> HIDE DEF now
    <3> QED
      BY <1>1, <3>1, <3>2 DEF HostForm
  <2> QED
    BY <1>4, <1>5, <2>1, <2>2
<1>7. CASE HostAcknowledges
  <2>1. host.stage = "statusOut" /\ host'.stage = "idle" /\ UNCHANGED <<pc, request, setup, address, hostAddress>>
    BY <1>7 DEF HostAcknowledges, Exchange, task
  <2> QED
    BY <1>4, <1>5, <2>1
<1>8. CASE HostWrites
  <2>1. host.stage = "dataOut" /\ UNCHANGED <<pc, request, setup, address, hostAddress>>
    BY <1>8 DEF HostWrites, Exchange, task
  <2>2. host'.stage = "statusIn" /\ host'.request.kind = "SetLineEncoding"
    BY <1>1, <1>8, <2>1 DEF HostWrites, NowAt, HostForm
  <2> QED
    BY <1>4, <1>5, <2>1, <2>2
<1>9. CASE HostGetsStatus
  <2>1. /\ host.stage = "statusIn" /\ setup = NoRequest /\ in = 0 /\ in' = None
        /\ host'.stage = "idle" /\ UNCHANGED <<pc, request, setup, address, stalled>>
    BY <1>9 DEF HostGetsStatus, Exchange, task
  <2>2. CASE host.request.kind = "SetAddress"
    <3>1. InSetAddress /\ Changing
      BY <1>2, <1>3, <2>1, <2>2
    <3>2. pc = "setAddress" /\ host.request = request
      BY <2>1, <3>1 DEF Changing, None
    <3>3. hostAddress' = request.arg
      BY <1>9, <2>2, <3>2 DEF HostGetsStatus
    <3>4. InSetAddress' /\ Changing'
      BY <2>1, <3>1, <3>2, <3>3 DEF InSetAddress, Changing
    <3> QED
      BY <2>1, <3>4 DEF AddressInv
  <2>3. CASE host.request.kind # "SetAddress"
    <3>1. ~ InSetAddress
      BY <1>2, <2>1, <2>3 DEF Changing, InSetAddress
    <3>2. hostAddress' = hostAddress
      BY <1>9, <2>3 DEF HostGetsStatus
    <3> QED
      BY <1>5, <2>1, <3>1, <3>2
  <2> QED
    BY <2>2, <2>3
<1>10. CASE HostGetsStall
  <2>1. /\ Busy /\ stalled /\ host'.stage = "idle"
        /\ UNCHANGED <<pc, request, setup, address, hostAddress>>
    BY <1>10 DEF HostGetsStall, controller, task
  <2>2. ~ InSetAddress /\ host.stage # "off"
    BY <1>2, <2>1 DEF Changing, Busy
  <2> QED
    BY <1>5, <2>1, <2>2
<1>11. ASSUME NEW r \in Request, HostSetup(r) \/ HostBreaksOff(r) PROVE AddressInv'
  <2>1. host.stage = "idle" /\ pc \notin ControlWaits /\ Sends(r)
    BY <1>11 DEF HostSetup, HostBreaksOff
  <2>2. /\ setup' = r /\ host' = [stage |-> FirstStage(r), request |-> r, got |-> 0]
        /\ UNCHANGED <<pc, request, address, hostAddress>>
    BY <2>1 DEF Sends, task
  <2>3. ~ InSetAddress /\ ~ InSetAddress'
    BY <2>1, <2>2 DEF InSetAddress, ControlWaits
  <2>4. host'.request = setup' /\ host'.stage # "off"
    BY <2>2 DEF FirstStage
  <2>5. Listens' = Listens
    BY <2>2 DEF Listens
  <2> QED
    BY <1>2, <2>1, <2>2, <2>3, <2>4, <2>5 DEF AddressInv
<1>12. CASE Unplug
  <2>1. ~ Masked /\ setup = NoRequest /\ host'.stage = "off" /\ UNCHANGED <<pc, request, setup>>
    BY <1>12 DEF Unplug, Off, controller, task
  <2>2. ~ InSetAddress'
    BY <2>1 DEF Masked, InSetAddress
  <2> QED
    BY <2>1, <2>2 DEF AddressInv
<1>13. CASE FirstReset \/ ResetAgain
  <2>1. ~ InSetAddress
    BY <1>2, <1>13 DEF FirstReset, ResetAgain, InSetAddress, ControlWaits
  <2>2. /\ setup' = NoRequest /\ host' = [Off EXCEPT !.stage = "idle"]
        /\ address' = None /\ hostAddress' = 0 /\ UNCHANGED <<pc, request>>
    BY <1>13 DEF FirstReset, ResetAgain, Reset, task
  <2>3. host'.stage = "idle"
    BY <2>2 DEF Off
  <2>4. ~ InSetAddress' /\ Listens' = 0
    BY <2>1, <2>2 DEF InSetAddress, Listens
  <2> QED
    BY <2>2, <2>3, <2>4 DEF AddressInv
<1>14. CASE Aside
  <2>1. /\ UNCHANGED <<address, setup, stalled, host, hostAddress, request>>
        /\ UNCHANGED <<pc, in>> \/ (pc \notin ControlWaits /\ pc' \notin ControlWaits)
    BY <1>14, AsideFacts
  <2>2. CASE UNCHANGED <<pc, in>>
    BY <1>2, <2>1, <2>2 DEF AddressInv, InSetAddress, Changing, Listens
  <2>3. CASE pc \notin ControlWaits /\ pc' \notin ControlWaits
    <3>1. ~ InSetAddress /\ ~ InSetAddress'
      BY <2>3 DEF InSetAddress, ControlWaits
    <3> QED
      BY <1>2, <2>1, <2>3, <3>1 DEF AddressInv, Listens
  <2> QED
    BY <2>1, <2>2, <2>3
<1> QED
  BY <1>6, <1>7, <1>8, <1>9, <1>10, <1>11, <1>12, <1>13, <1>14 DEF Transfer

\* A disturbance is never forgotten.
LEMMA DisturbedStays ==
  ASSUME TypeInv, CommandInv, SetupInv, [Next]_vars, disturbed
  PROVE  disturbed'
<1>1. CASE Refuse \/ SendPacket \/ ReadPacket \/ StatusThenWait
  BY <1>1 DEF Refuse, SendPacket, ReadPacket, StatusThenWait, peer
<1>2. CASE Takes \/ Ends
  BY <1>2, TakesFacts, EndsFacts
<1>3. CASE Transfer
  BY <1>3 DEF Transfer, HostReads, HostAcknowledges, HostWrites, HostGetsStatus, HostGetsStall
<1>4. CASE \E r \in Request : HostSetup(r) \/ HostBreaksOff(r)
  BY <1>4 DEF HostSetup, HostBreaksOff
<1>5. CASE Unplug \/ FirstReset \/ ResetAgain
  BY <1>5 DEF Unplug, FirstReset, ResetAgain
<1>6. CASE Aside
  BY <1>6, AsideFacts
<1> QED
  BY <1>1, <1>2, <1>3, <1>4, <1>5, <1>6, StepsSorted

LEMMA StepAddressInv == TypeInv /\ CommandInv /\ SetupInv /\ AddressInv /\ [Next]_vars => AddressInv'
<1> SUFFICES ASSUME TypeInv, CommandInv, SetupInv, AddressInv, [Next]_vars, ~ disturbed' PROVE AddressInv'
  BY DEF AddressInv
<1>1. ~ disturbed
  BY DisturbedStays
<1> QED
  BY <1>1, DeviceAddressInv, HostAddressInv, StepsSorted

\* Device and host use the same address whenever the device is not in SetAddress:
\* it takes the new one when the host has read the status packet, and only then.
THEOREM AddressStaysAgreed == Spec => []AddressAgreed
<1>1. Init => TypeInv /\ CommandInv /\ SetupInv /\ AddressInv
  <2> SUFFICES ASSUME Init PROVE CommandInv /\ SetupInv /\ AddressInv
    BY InitTypeInv
  <2>1. host.stage = "off" /\ setup = NoRequest /\ pc = "idle"
    BY DEF Init, Off
  <2> QED
    BY <2>1, PlacesApart DEF CommandInv, SetupInv, AddressInv, InSetAddress
<1>2. TypeInv /\ CommandInv /\ SetupInv /\ AddressInv /\ [Next]_vars
        => (TypeInv /\ CommandInv /\ SetupInv /\ AddressInv)'
  BY StepTypeInv, StepCommandInv, StepSetupInv, StepAddressInv
<1>3. AddressInv => AddressAgreed
  BY DEF AddressInv, AddressAgreed, Listens
<1> QED
  BY <1>1, <1>2, <1>3, PTL DEF Spec
-----------------------------------------------------------------------------
\* The data of a transfer.

\* The host is reading a stream that the device has taken on.
Reading == host.stage = "dataIn" /\ host.request.kind \in Streams /\ setup = NoRequest /\ ~ stalled

\* As long as nothing of the transfer changes, the packets add up.
LEMMA RemainsKept ==
  ASSUME NEW rest \in Nat, Remains(rest), UNCHANGED <<host, in>>,
         pc' = "stream" => pc = "stream" /\ left' = left
  PROVE  Remains(rest)'
BY DEF Remains, InPacket

\* The packet with which Endpoint_Write_Control_Stream goes on.
LEMMA PacketSent ==
  ASSUME TypeInv, StreamInv, Reading, SendPacket
  PROVE  \E rest \in Nat : Remains(rest)'
<1> DEFINE n == Min({left, USB_ControlEndpointSize})
<1>1. left \in Nat /\ host.got \in Nat
  BY DEF TypeInv, TypeOK
<1>2. PICK rest \in Nat : Remains(rest)
  BY DEF StreamInv, Reading
<1>3. pc = "stream" /\ in = None /\ in' = n /\ left' = left - n /\ host' = host
  BY DEF SendPacket, ClearIN, peer
<1>4. rest = left /\ host.got + left = Streamed(host.request)
  BY <1>1, <1>2, <1>3 DEF Remains, InPacket
<1>5. n \in Nat /\ n <= left /\ (n < USB_ControlEndpointSize => n = left)
  BY <1>1, MinFacts
<1> HIDE DEF n
<1>6. left' \in Nat /\ in' # None
  BY <1>1, <1>3, <1>5 DEF None
<1>7. PICK k \in Nat : k = left'
  BY <1>6
<1>8. host.got + InPacket' + k = Streamed(host.request)
  <2>1. InPacket' = n
    BY <1>3, <1>6 DEF InPacket
  <2>2. host.got + n + (left - n) = host.got + left
    BY <1>1, <1>5
  <2> QED
    BY <1>3, <1>4, <1>7, <2>1, <2>2
<1>9. in' < USB_ControlEndpointSize => k = 0
  BY <1>1, <1>3, <1>5, <1>7
<1>10. Streamed(host.request)' = Streamed(host.request)
  BY <1>3 DEF Streamed, Length
<1>11. Remains(k)'
  BY <1>3, <1>7, <1>8, <1>9, <1>10 DEF Remains
<1> QED
  BY <1>11

\* A packet is read: either more follows, or the host has all of it.
LEMMA PacketRead ==
  ASSUME TypeInv, StreamInv, HostReads, host.request.kind \in Streams
  PROVE  /\ host'.request = host.request /\ host'.stage \in {"dataIn", "statusOut"}
         /\ host'.stage = "dataIn" => \E rest \in Nat : Remains(rest)'
         /\ host'.stage = "statusOut" => host'.got = Streamed(host.request)
<1> DEFINE now == IF in < USB_ControlEndpointSize \/ host.got + in >= host.request.wLength
                  THEN "statusOut" ELSE "dataIn"
<1>1. /\ host \in HostForm /\ in \in 0 .. USB_ControlEndpointSize
      /\ in # None /\ in' = None
      /\ Reading
      /\ UNCHANGED <<pc, left>>
  BY DEF TypeInv, TypeOK, PlaceInv, HostForm, HostReads, Exchange, Reading, task
<1>2. host' = [host EXCEPT !.got = host.got + in, !.stage = now]
  BY DEF HostReads
<1>3. host.request \in Request /\ host.got \in Nat
  BY <1>1, RequestFacts DEF HostForm, NoRequest, Req, Streams
<1>4. PICK rest \in Nat : Remains(rest)
  BY <1>1 DEF StreamInv, Reading
<1>5. ~ Refuses(host.request)
  BY <1>1 DEF StreamInv, Reading
<1>6. /\ Streamed(host.request) \in Nat /\ host.request.wLength \in Nat
      /\ Streamed(host.request) <= host.request.wLength
  BY <1>3, <1>5, StreamedFacts, RequestFacts
<1>7. host.got + in + rest = Streamed(host.request)
  BY <1>1, <1>4 DEF Remains, InPacket
<1>8. now \in {"dataIn", "statusOut"}
  OBVIOUS
<1>9. now = "statusOut" => host.got + in = Streamed(host.request)
  <2>1. CASE in < USB_ControlEndpointSize
    BY <1>1, <1>3, <1>4, <1>7, <2>1 DEF Remains
  <2>2. CASE host.got + in >= host.request.wLength
    BY <1>1, <1>3, <1>4, <1>6, <1>7, <2>2
  <2> QED
    BY <2>1, <2>2
<1> HIDE DEF now
<1>10. host'.request = host.request /\ host'.stage = now /\ host'.got = host.got + in
  BY <1>1, <1>2 DEF HostForm
<1>11. Remains(rest)'
  <2>1. InPacket' = 0
    BY <1>1 DEF InPacket
  <2>2. Streamed(host.request)' = Streamed(host.request)
    BY <1>10 DEF Streamed, Length
  <2>3. host'.got + InPacket' + rest = Streamed(host.request)'
    BY <1>1, <1>3, <1>4, <1>7, <1>10, <2>1, <2>2
  <2> QED
    BY <1>1, <1>4, <2>3 DEF Remains
<1> QED
  BY <1>4, <1>8, <1>9, <1>10, <1>11

LEMMA StepDataInv ==
  TypeInv /\ CommandInv /\ SetupInv /\ StreamInv /\ DataWhole /\ [Next]_vars => (StreamInv /\ DataWhole)'
<1> SUFFICES ASSUME TypeInv, CommandInv, SetupInv, StreamInv, DataWhole, [Next]_vars PROVE (StreamInv /\ DataWhole)'
  OBVIOUS
<1>1. TypeInv'
  BY StepTypeInv
<1>2. host \in HostForm /\ setup \in Request \cup {NoRequest} /\ NoRequest.kind = "none"
  BY DEF TypeInv, TypeOK, PlaceInv, HostForm, NoRequest, Req
\* The host is not reading, or has just stopped.
<1>3. ASSUME ~ Reading', host' = host \/ host'.stage # "statusOut"
      PROVE  (StreamInv /\ DataWhole)'
  BY <1>3 DEF StreamInv, DataWhole, Reading, Length
\* It is in the middle of the same stream.
<1>4. ASSUME Reading, Reading', host' = host, context' = context,
             pc' \in {"idle", "stream", "streamOut"} \cup DataWaits \cup CommandWaits,
             \E rest \in Nat : Remains(rest)'
      PROVE  (StreamInv /\ DataWhole)'
  BY <1>4 DEF StreamInv, DataWhole, Reading, Refuses
<1>5. CASE Refuse
  BY <1>3, <1>5 DEF Refuse, Reading, peer
<1>6. CASE Takes
  <2>1. /\ setup # NoRequest /\ setup' = NoRequest
        /\ UNCHANGED <<context, host, stalled>>
    BY <1>2, <1>6, TakesFacts
  <2>2. CASE Reading'
    <3>1. host.request = setup /\ host.got = 0 /\ in = None /\ setup.kind \in Streams
      BY <2>1, <2>2 DEF Reading, SetupInv
    <3>2. WriteControlStream
      BY <1>6, <3>1 DEF Takes, USB_Device_GetStatus, USB_Device_GetConfiguration,
                        USB_Device_ClearSetFeature, USB_Device_SetAddress, USB_Device_SetConfiguration,
                        SetControlLineState, SetLineEncoding, Arrived, Streams
    <3>3. pc' = "stream" /\ left' = Streamed(setup) /\ in' = in /\ ~ Refuses(setup)
      BY <3>2 DEF WriteControlStream, TakeAndWait
    <3>4. Streamed(setup) \in Nat
      BY <1>2, <2>1, <3>1, <3>3, StreamedFacts
    <3>5. Streamed(host.request)' = Streamed(setup)
      BY <2>1, <3>1 DEF Streamed, Length
    <3>6. PICK k \in Nat : k = Streamed(setup)
      BY <3>4
    <3>7. Remains(k)'
      BY <2>1, <3>1, <3>3, <3>5, <3>6 DEF Remains, InPacket
    <3>8. ~ Refuses(host.request)'
      BY <2>1, <3>1, <3>3 DEF Refuses
    <3>9. StreamInv'
      BY <3>3, <3>7, <3>8 DEF StreamInv
    <3>10. DataWhole'
      BY <2>2 DEF Reading, DataWhole
    <3> QED
      BY <3>9, <3>10
  <2> QED
    BY <1>3, <2>1, <2>2
<1>7. CASE Ends
  <2>1. pc \in ControlWaits /\ pc' = "idle" /\ UNCHANGED <<context, host>>
    BY <1>7, EndsFacts
  <2>2. CASE Reading'
    <3>1. setup = NoRequest /\ stalled' = stalled
      <4>1. PICK e \in {Control, CDC_RX_EPNUM} : Finish(e) /\ (e = CDC_RX_EPNUM => pc = "statusIn")
        BY <1>7 DEF Ends, EndStream, EndRead, StatusOut, StatusThenFinish, USB_Device_SetDeviceAddress,
                    StatusThenConfigure, StatusIn, Control, CDC_RX_EPNUM
      <4> QED
        BY <2>2, <4>1 DEF Finish, SetupInv, Reading
    <3>2. Reading
      BY <2>1, <2>2, <3>1 DEF Reading
    <3>3. pc \in {"stream", "streamOut"}
      BY <2>1, <3>2 DEF StreamInv, Reading, ControlWaits, DataWaits, CommandWaits, AnswerWaits
    <3>4. EndStream
      BY <1>7, <3>3 DEF Ends, EndRead, StatusOut, StatusThenFinish, USB_Device_SetDeviceAddress,
                        StatusThenConfigure, StatusIn
    <3>5. PICK rest \in Nat : Remains(rest)
      BY <3>2 DEF StreamInv, Reading
    <3>6. Remains(rest)'
      BY <2>1, <3>4, <3>5, RemainsKept DEF EndStream
    <3> QED
      BY <1>4, <2>1, <2>2, <3>2, <3>6
  <2> QED
    BY <1>3, <2>1, <2>2
<1>8. CASE SendPacket
  <2>1. /\ pc' \in {"stream", "streamOut"}
        /\ UNCHANGED <<context, host, setup, stalled>>
    BY <1>8 DEF SendPacket, peer
  <2>2. CASE Reading'
    <3>1. Reading
      BY <2>1, <2>2 DEF Reading
    <3> QED
      BY <1>4, <1>8, <2>1, <2>2, <3>1, PacketSent
  <2> QED
    BY <1>3, <2>1, <2>2
<1>9. CASE ReadPacket \/ StatusThenWait
  <2>1. pc \in {"read", "statusIn"} /\ UNCHANGED <<host, setup, stalled>>
    BY <1>9 DEF ReadPacket, StatusThenWait, StatusIn, peer
  <2>2. ~ Reading
    BY <2>1 DEF StreamInv, Reading, DataWaits, CommandWaits, AnswerWaits
  <2>3. ~ Reading'
    BY <2>1, <2>2 DEF Reading
  <2> QED
    BY <1>3, <2>1, <2>3
<1>10. CASE HostReads
  <2>1. UNCHANGED <<context, pc, setup, stalled>>
    BY <1>10 DEF HostReads, task
  <2>2. Exchange("dataIn") /\ host'.request = host.request /\ host'.stage \in {"dataIn", "statusOut"}
    <3> DEFINE now == IF in < USB_ControlEndpointSize \/ host.got + in >= host.request.wLength
                      THEN "statusOut" ELSE "dataIn"
    <3>1. Exchange("dataIn") /\ host' = [host EXCEPT !.got = host.got + in, !.stage = now]
      BY <1>10 DEF HostReads
    <3>2. now \in {"dataIn", "statusOut"}
      OBVIOUS
    <3> HIDE DEF now
    <3> QED
      BY <1>2, <3>1, <3>2 DEF HostForm
  <2>3. CASE host.request.kind \notin Streams
    BY <2>2, <2>3 DEF StreamInv, DataWhole, Streams
  <2>4. CASE host.request.kind \in Streams
    <3>1. Reading
      BY <2>2, <2>4 DEF Reading, Exchange
    <3>2. pc \in {"idle", "stream", "streamOut"} \cup DataWaits \cup CommandWaits /\ ~ Refuses(host.request)
      BY <3>1 DEF StreamInv, Reading
    <3>3. host.request \in Request
      BY <1>2, <2>4 DEF HostForm, Streams
    <3>4. StreamInv'
      <4>1. ~ Refuses(host.request)'
        BY <2>1, <2>2, <3>2 DEF Refuses
      <4>2. host'.stage = "dataIn" => \E rest \in Nat : Remains(rest)'
        BY <1>10, <2>4, PacketRead
      <4> QED
        BY <2>1, <3>2, <4>1, <4>2 DEF StreamInv
    <3>5. DataWhole'
      <4>1. host'.stage = "statusOut" => host'.got = Streamed(host.request)
        BY <1>10, <2>4, PacketRead
      <4>2. Streamed(host.request) = Min({Length(host.request), host.request.wLength})
        BY <2>4, <3>2, <3>3, StreamedFacts
      <4>3. Length(host.request)' = Length(host.request)
        BY <2>2 DEF Length
      <4> QED
        BY <2>2, <4>1, <4>2, <4>3 DEF DataWhole
    <3> QED
      BY <3>4, <3>5
  <2> QED
    BY <2>3, <2>4
<1>11. CASE HostAcknowledges \/ HostGetsStatus \/ HostGetsStall
  <2>1. host'.stage = "idle"
    BY <1>11 DEF HostAcknowledges, HostGetsStatus, HostGetsStall
  <2> QED
    BY <1>3, <2>1 DEF Reading
<1>12. CASE HostWrites
  <2>1. host'.stage = "statusIn"
    BY <1>2, <1>12 DEF HostWrites, NowAt, HostForm
  <2> QED
    BY <1>3, <2>1 DEF Reading
<1>13. ASSUME NEW r \in Request, HostSetup(r) \/ HostBreaksOff(r) PROVE (StreamInv /\ DataWhole)'
  <2>1. setup' = r /\ host' = [stage |-> FirstStage(r), request |-> r, got |-> 0]
    BY <1>13 DEF HostSetup, HostBreaksOff, Sends
  <2>2. setup' # NoRequest /\ host'.stage # "statusOut"
    BY <2>1, NotNone DEF FirstStage
  <2> QED
    BY <1>3, <2>2 DEF Reading
<1>14. CASE Unplug \/ FirstReset \/ ResetAgain
  <2>1. host' = Off \/ host' = [Off EXCEPT !.stage = "idle"]
    BY <1>14 DEF Unplug, FirstReset, ResetAgain, Reset
  <2>2. host'.stage \in {"off", "idle"}
    BY <2>1 DEF Off
  <2> QED
    BY <1>3, <2>2 DEF Reading
<1>15. CASE Aside
  <2>1. /\ UNCHANGED <<context, setup, stalled, host>>
        /\ in' = in \/ HostIdle
        /\ UNCHANGED <<pc, left>> \/ (pc \notin ControlWaits /\ pc' \notin ControlWaits)
    BY <1>15, AsideFacts
  <2>2. CASE Reading'
    <3>1. Reading
      BY <2>1, <2>2 DEF Reading
    <3>2. PICK rest \in Nat : Remains(rest)
      BY <3>1 DEF StreamInv, Reading
    <3>3. pc' \in {"idle", "stream", "streamOut"} \cup DataWaits \cup CommandWaits
      BY <1>1, <2>1, <3>1 DEF StreamInv, Reading, TypeInv, TypeOK
    <3>a. in' = in
      BY <2>1, <3>1 DEF Reading, HostIdle
    <3>4. Remains(rest)'
      BY <2>1, <3>2, <3>a, RemainsKept DEF ControlWaits
    <3> QED
      BY <1>4, <2>1, <2>2, <3>1, <3>3, <3>4
  <2> QED
    BY <1>3, <2>1, <2>2
<1> QED
  BY <1>5, <1>6, <1>7, <1>8, <1>9, <1>10, <1>11, <1>12, <1>13, <1>14, <1>15, StepsSorted DEF Transfer

\* A host that stops reading a descriptor or the line encoding has all of it, or
\* all it asked for, for every packet size and however transfers are broken off:
\* Endpoint_Write_Control_Stream ends a stream that fills its last packet with an
\* empty one, and a request that takes the place of another is stalled.
THEOREM DataArrivesWhole == Spec => []DataWhole
<1>1. Init => TypeInv /\ CommandInv /\ SetupInv /\ StreamInv /\ DataWhole
  <2> SUFFICES ASSUME Init PROVE CommandInv /\ SetupInv /\ StreamInv /\ DataWhole
    BY InitTypeInv
  <2>1. host.stage = "off" /\ setup = NoRequest /\ pc = "idle"
    BY DEF Init, Off
  <2> QED
    BY <2>1, PlacesApart DEF CommandInv, SetupInv, StreamInv, DataWhole
<1>2. TypeInv /\ CommandInv /\ SetupInv /\ StreamInv /\ DataWhole /\ [Next]_vars
        => (TypeInv /\ CommandInv /\ SetupInv /\ StreamInv /\ DataWhole)'
  BY StepTypeInv, StepCommandInv, StepSetupInv, StepDataInv
<1> QED
  BY <1>1, <1>2, PTL DEF Spec
=============================================================================
