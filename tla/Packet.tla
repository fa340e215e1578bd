------------------------------- MODULE Packet -------------------------------
(***************************************************************************)
(* crates/packet: an AF_PACKET socket.  Callers prepare a bind, work on    *)
(* the device, and publish later; delivery of a frame is decided on the    *)
(* live binding; addresses and frame views are pure.                       *)
(*                                                                         *)
(* A protocol number has two digits to the base Base, standing for the two *)
(* bytes of a u16 on a little-endian machine.                              *)
(***************************************************************************)
EXTENDS Integers, FiniteSets

CONSTANTS
  Base,
  EthAll,          \* ETH_P_ALL, host order
  Callers,
  RawInterfaces,   \* i32 values found in sockaddr_ll
  RawProtocols,    \* network-order u16 values found there
  MaxGeneration,   \* u64::MAX
  AddressLength    \* MAX_LINK_LAYER_ADDRESS_LEN

VARIABLES
  socket,          \* PacketSocketState
  plans,           \* caller -> BindPlan it holds, or Absent
  rebinds          \* ghost: how often the selection was replaced

pvars == <<socket, plans, rebinds>>

Absent == [none |-> TRUE]
Any == 0           \* InterfaceIndex::Any; an exact index is positive
Invalid == [error |-> "Invalid"]

(* u16::from_be and to_be *)
SwapBytes(raw) == (raw % Base) * Base + raw \div Base

(* ProtocolSelector::from_host_order, host_order *)
FromHostOrder(n) ==
  IF n = 0 THEN [kind |-> "Disabled"] ELSE IF n = EthAll THEN [kind |-> "All"] ELSE [kind |-> "Exact", type |-> n]
HostOrder(p) == CASE p.kind = "Disabled" -> 0 [] p.kind = "All" -> EthAll [] p.kind = "Exact" -> p.type

FromNetworkOrder(raw) == FromHostOrder(SwapBytes(raw))
ToNetworkOrder(p) == SwapBytes(HostOrder(p))

(* InterfaceIndex::from_raw *)
InterfaceValid(raw) == raw >= 0

(* PacketBindRequest::try_from_network_order_fields *)
BindRequest(packetFamily, protocol, interface) ==
  IF ~packetFamily \/ ~InterfaceValid(interface) THEN Invalid
  ELSE [interface |-> interface, protocol |-> FromNetworkOrder(protocol)]

BindRequests == (UNION {{BindRequest(TRUE, p, i) : p \in RawProtocols} : i \in RawInterfaces}) \ {Invalid}

(* PacketSocketState::new; the creation protocol needs no bind *)
PacketInit ==
  /\ socket \in [socket_type : {"Raw", "Datagram"}, ignore_outgoing : {FALSE},
                 binding : [interface : {Any}, protocol : {FromNetworkOrder(p) : p \in RawProtocols}, generation : {1}]]
  /\ plans = [c \in Callers |-> Absent]
  /\ rebinds = 0

(* BindPlan::is_noop *)
IsNoop(plan) ==
  /\ plan.expected.interface = plan.replacement.interface
  /\ plan.expected.protocol = plan.replacement.protocol

(* prepare_bind: protocol zero keeps the current one; a changed selection
   takes the next generation, or fails when there is none *)
PrepareBind(c, request) ==
  LET live == socket.binding
      protocol == IF request.protocol.kind = "Disabled" THEN live.protocol ELSE request.protocol
      changed == request.interface # live.interface \/ protocol # live.protocol
  IN  /\ plans[c] = Absent
      /\ changed => live.generation < MaxGeneration
      /\ plans' = [plans EXCEPT ![c] =
           [expected |-> live, at |-> rebinds,
            replacement |-> [interface |-> request.interface, protocol |-> protocol,
                             generation |-> live.generation + (IF changed THEN 1 ELSE 0)]]]
      /\ UNCHANGED <<socket, rebinds>>

SelectionCurrent(plan) ==
  /\ socket.binding.interface = plan.expected.interface
  /\ socket.binding.protocol = plan.expected.protocol

(* The comparison of publish_bind: the whole snapshot *)
Current(plan) == socket.binding = plan.expected

(* publish_bind; a stale plan changes nothing *)
PublishBind(c) ==
  /\ plans[c] # Absent
  /\ socket' = [socket EXCEPT !.binding = IF Current(plans[c]) THEN plans[c].replacement ELSE @]
  /\ rebinds' = IF Current(plans[c]) /\ ~IsNoop(plans[c]) THEN rebinds + 1 ELSE rebinds
  /\ plans' = [plans EXCEPT ![c] = Absent]

(* The caller's device work fails and it drops the plan *)
DropPlan(c) ==
  /\ plans[c] # Absent
  /\ plans' = [plans EXCEPT ![c] = Absent]
  /\ UNCHANGED <<socket, rebinds>>

(* SetPacketOption::decode: one supported option with a Boolean value *)
DecodeSet(option, value) ==
  IF option # "IgnoreOutgoing" \/ value \notin {0, 1} THEN Invalid ELSE [ignore_outgoing |-> value = 1]

(* set_option *)
SetOption(option, value) ==
  /\ DecodeSet(option, value) # Invalid
  /\ socket' = [socket EXCEPT !.ignore_outgoing = DecodeSet(option, value).ignore_outgoing]
  /\ UNCHANGED <<plans, rebinds>>

PacketNext ==
  \/ \E c \in Callers : (\E r \in BindRequests : PrepareBind(c, r)) \/ PublishBind(c) \/ DropPlan(c)
  \/ \E value \in 0..2 : SetOption("IgnoreOutgoing", value)

PacketSpec == PacketInit /\ [][PacketNext]_pvars

-----------------------------------------------------------------------------

(* The interface test of delivery_decision *)
OtherInterface(interface) ==
  interface = Any \/ (socket.binding.interface # Any /\ socket.binding.interface # interface)

(* delivery_decision *)
DeliveryDecision(direction, protocol, interface) ==
  LET selected == socket.binding.protocol
  IN  IF OtherInterface(interface) THEN "InterfaceMismatch"
      ELSE IF selected.kind = "Disabled" THEN "ProtocolDisabled"
      ELSE IF direction = "Incoming"
        THEN IF selected.kind = "All" \/ selected.type = protocol THEN "Deliver" ELSE "ProtocolMismatch"
      ELSE IF selected.kind = "Exact" THEN "OutgoingRequiresAllProtocols"
      ELSE IF socket.ignore_outgoing THEN "OutgoingIgnored" ELSE "Deliver"

(* captures_outgoing *)
CapturesOutgoing == socket.binding.protocol.kind = "All" /\ ~socket.ignore_outgoing

(* LinkLayerAddress::new: bytes beyond the length are cleared *)
LinkLayerAddress(bytes, len) ==
  IF len > AddressLength THEN Invalid
  ELSE [len |-> len, bytes |-> [i \in 1..AddressLength |-> IF i <= len THEN bytes[i] ELSE 0]]

(* get_name, with the adapter's LinkLayerInfo or Absent *)
GetName(link) ==
  LET exact == socket.binding.interface
      name(address) == [interface |-> exact, protocol |-> ToNetworkOrder(socket.binding.protocol), address |-> address]
  IN  IF exact = Any THEN name(LinkLayerAddress([i \in 1..AddressLength |-> 0], 0))
      ELSE IF link = Absent \/ link.interface # exact THEN Invalid
      ELSE name(link.address)

(* FrameLayout::new, full_view, captured_view *)
CapturedView(frameLen, networkOffset, socketType, capturedLen) ==
  LET offset == IF socketType = "Raw" THEN 0 ELSE networkOffset
  IN  IF networkOffset > frameLen \/ capturedLen > frameLen - offset THEN Invalid
      ELSE [payload_offset |-> offset, original_len |-> frameLen - offset, captured_len |-> capturedLen]

LessOf(a, b) == IF a < b THEN a ELSE b

(* PacketView::receive_decision; flags outside MSG_PEEK and MSG_TRUNC are refused *)
ReceiveDecision(view, buffer, flags) ==
  LET copied == LessOf(buffer, view.captured_len)
  IN  IF ~(flags \subseteq {"PEEK", "TRUNC"}) THEN Invalid
      ELSE [payload_offset |-> view.payload_offset, copy_len |-> copied,
            returned_len |-> IF "TRUNC" \in flags THEN view.captured_len ELSE copied,
            message_truncated |-> copied < view.captured_len,
            queue_disposition |-> IF "PEEK" \in flags THEN "Retain" ELSE "Consume"]

-----------------------------------------------------------------------------
(* A bind publishes only over the selection it was prepared for: no rebind in
   between is overwritten, not even one that came back to the same interface
   and protocol; and a generation names one selection for good. *)
BindNotLost ==
  /\ \A c \in Callers : PublishBind(c) /\ socket' # socket => plans[c].at = rebinds
  /\ socket'.binding.generation = socket.binding.generation => socket'.binding = socket.binding
  /\ socket'.binding.generation >= socket.binding.generation

(* The taps: an outgoing frame on a matching interface is delivered exactly
   when the socket is registered for outgoing frames; a bound socket sees no
   frame of another interface; a disabled one sees none; and getsockname
   reports an address that binds to the very same selection. *)
DeliveryExact ==
  LET live == socket.binding
      deliver(d, p, i) == DeliveryDecision(d, p, i) = "Deliver"
      name == GetName([interface |-> live.interface, address |-> LinkLayerAddress([i \in 1..AddressLength |-> 1], 1)])
  IN  /\ \A i \in RawInterfaces \cap Nat, p \in 1..(Base * Base - 1) :
           /\ deliver("Outgoing", p, i) <=> (i # Any /\ live.interface \in {Any, i} /\ CapturesOutgoing)
           /\ deliver("Incoming", p, i) <=> (i # Any /\ live.interface \in {Any, i} /\ HostOrder(live.protocol) \in {p, EthAll})
      /\ name # Invalid
      /\ BindRequest(TRUE, name.protocol, name.interface) = [interface |-> live.interface, protocol |-> live.protocol]

(* A receive copies inside the frame, never past the capture or the buffer,
   says so when it left something out, and always consumes without PEEK. *)
ReceiveExact(frameLen, networkOffset, socketType, capturedLen, buffer, flags) ==
  LET view == CapturedView(frameLen, networkOffset, socketType, capturedLen)
      d == ReceiveDecision(view, buffer, flags)
  IN  view # Invalid =>
        /\ d.copy_len <= buffer
        /\ d.payload_offset + d.copy_len <= frameLen
        /\ d.message_truncated <=> d.copy_len < capturedLen
        /\ d.returned_len \in {d.copy_len, capturedLen}
        /\ d.returned_len > buffer => "TRUNC" \in flags /\ d.message_truncated
        /\ socketType = "Datagram" => d.payload_offset = networkOffset
=============================================================================
