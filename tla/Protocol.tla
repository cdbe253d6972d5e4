------------------------------ MODULE Protocol ------------------------------
(***************************************************************************)
(* The packets of common/protocol.c and the checksum of common/crypto.c.   *)
(* A packet has a header and a data area of fixed size; the header says    *)
(* how much of the area is payload.  Sizes count bytes.                    *)
(*                                                                         *)
(* Both ends convert the header with hton and ntoh, which undo each other: *)
(* the numbers here are those of the host.  The header is as pack_request  *)
(* writes it, but for the damage the properties do to the payload.         *)
(***************************************************************************)
EXTENDS Integers, Sequences

CONSTANTS
  Byte,          \* the values of a byte
  MaxDataSize,   \* MAX_DATA_SIZE
  HeaderSize,    \* PROTOCOL_HEADER_SIZE
  SumSize,       \* the checksum is a uint16_t: a number below SumSize
  SizeT,         \* a size_t is a number below SizeT
  Opcodes        \* the OP_... codes

ASSUME ProtocolAssumption ==
  /\ Byte \subseteq Nat /\ 0 \in Byte
  /\ \A b \in Byte : b < SumSize    \* 8 bits are added to 16
  /\ MaxDataSize \in Nat /\ HeaderSize \in Nat /\ SumSize \in Nat \ {0}
  /\ SizeT \in Nat /\ HeaderSize + MaxDataSize < SizeT

\* sizeof(BankingPacket)
PacketSize == HeaderSize + MaxDataSize

\* What is packed: every structure of protocol.h fits.
Payloads == UNION {[1..n -> Byte] : n \in 0..MaxDataSize}

\* What unpack_request returns, and what it has written then.
Refused        == [status |-> -1, data |-> <<>>]
Unpacked(data) == [status |-> 0, data |-> data]

\* The sum of the first len bytes, in a variable that wraps.
calculate_checksum(data, len) ==
  LET sum[i \in 0..len] == IF i = 0 THEN 0 ELSE (sum[i - 1] + data[i]) % SumSize
  IN  sum[len]

\* ntohl(header.length) - PROTOCOL_HEADER_SIZE, an unsigned subtraction.
DataLength(packet) == (packet.length - HeaderSize) % SizeT

verify_packet_checksum(packet) ==
  packet.checksum = calculate_checksum(packet.data, DataLength(packet))

\* The rest of the data area is zero.
pack_request(op, payload) ==
  [length   |-> HeaderSize + Len(payload),
   op_code  |-> op,
   checksum |-> calculate_checksum(payload, Len(payload)),
   data     |-> [i \in 1..MaxDataSize |-> IF i <= Len(payload) THEN payload[i] ELSE 0]]

\* What unpack_request copies into a structure of the given size.  A shorter
\* payload leaves the rest of the structure as it was.
unpack_request(packet, size) ==
  IF verify_packet_checksum(packet) /\ DataLength(packet) <= size
  THEN Unpacked(SubSeq(packet.data, 1, DataLength(packet))) ELSE Refused
-----------------------------------------------------------------------------
(***************************************************************************)
(* Properties.                                                             *)
(***************************************************************************)

\* Whatever structure is packed, the other side unpacks it, unless it expects a
\* smaller one: then the packet is refused and nothing is written beyond it.
RoundTrip ==
  \A op \in Opcodes, payload \in Payloads, size \in 0..MaxDataSize :
    unpack_request(pack_request(op, payload), size) =
      IF Len(payload) <= size THEN Unpacked(payload) ELSE Refused

\* One wrong byte anywhere in the payload is noticed, also when the sum wraps.
DamageNoticed ==
  \A op \in Opcodes, payload \in Payloads : \A i \in 1..Len(payload) :
    \A b \in Byte \ {payload[i]} :
      ~verify_packet_checksum([pack_request(op, payload) EXCEPT !.data[i] = b])
=============================================================================
