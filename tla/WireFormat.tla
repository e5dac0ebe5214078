------------------------------- MODULE WireFormat -------------------------------
(***************************************************************************)
(* One datagram from MessageSerializer to MessageReceiver: what is put     *)
(* into it, and what a receiver that knows no type field takes it for.     *)
(* The contents of a field are bytes that name the field, so that a read   *)
(* at a wrong place shows.                                                 *)
(***************************************************************************)
EXTENDS Naturals, Sequences, SequencesExt

CONSTANTS
  Base,          \* values of a byte: 256 in the code
  FixedSize,     \* bytes of an id or a port; of one size here
  MaxDatagram,   \* the longest datagram UDP carries: 65507
  IpLength, LoginLength, PayloadLength  \* bound: the lengths tried

ASSUME ByteAssumption == Base \in Nat /\ Base >= 16
ASSUME FixedAssumption == FixedSize \in Nat \ {0}
ASSUME DatagramAssumption == MaxDatagram \in Nat /\ MaxDatagram < Base * Base
ASSUME LengthAssumption == IpLength \cup LoginLength \cup PayloadLength \subseteq Nat

VARIABLES
  original, \* what is to be sent: a message or a hole punch
  stray,    \* the byte found behind the end of a buffer
  datagram, \* the bytes sent
  outcome   \* what the receiver makes of them

vars == <<original, stray, datagram, outcome>>

(* Peers with the first byte of their key.  The last byte of an exported   *)
(* key is a newline, and the import does not need it.                      *)
Peer == 11..13
Me == 11
Key(p) == <<p, 10>>
Owns(p, bytes) == Len(bytes) = 2 /\ bytes[1] = p
IsKey(bytes) == \E p \in Peer : Owns(p, bytes)
Signature(p) == <<p, 9>>

(* What each byte of a length counts, the lowest first.                    *)
Place == <<1, Base, Base * Base>>

Bytes(b, n) == [i \in 1..n |-> b]

(* Struct Message in the order message_to_buffer writes it; "prefix" bytes *)
(* give the length of a field, none if its size is fixed.                  *)
MessageFormat ==
  << [name |-> "id", prefix |-> 0],
     [name |-> "source_ip", prefix |-> 1],
     [name |-> "source_port", prefix |-> 0],
     [name |-> "source_login", prefix |-> 1],
     [name |-> "source_public_key", prefix |-> 2],
     [name |-> "destination_ip", prefix |-> 1],
     [name |-> "destination_port", prefix |-> 0],
     [name |-> "destination_login", prefix |-> 1],
     [name |-> "destination_public_key", prefix |-> 2],
     [name |-> "payload", prefix |-> 2] >>

SignedFormat == << [name |-> "message", prefix |-> 2], [name |-> "signature", prefix |-> 2] >>
MetadataFormat == << [name |-> "login", prefix |-> 2], [name |-> "public_key", prefix |-> 2] >>

Messages ==
  {[id |-> Bytes(1, FixedSize), source_ip |-> Bytes(2, i), source_port |-> Bytes(3, FixedSize),
    source_login |-> Bytes(4, l), source_public_key |-> Key(12),
    destination_ip |-> Bytes(5, j), destination_port |-> Bytes(6, FixedSize),
    destination_login |-> Bytes(7, m), destination_public_key |-> Key(p),
    payload |-> Bytes(8, n)] :
     i \in IpLength, j \in IpLength, l \in LoginLength, m \in LoginLength,
     n \in PayloadLength, p \in {Me, 13}}
Punches == {[login |-> Bytes(4, l), public_key |-> Key(12)] : l \in LoginLength}

-----------------------------------------------------------------------------
(* MessageSerializer                                                       *)

(* Mutant (a definition of this name shows what a property would notice):  *)
(* the length is not reduced to the bytes it is written in.                *)
LittleEndianUnreducedMutant(n, width) == [k \in 1..width |-> n \div Place[k]]

LittleEndian(n, width) == [k \in 1..width |-> (n \div Place[k]) % Base]

(* A length that does not fit its prefix is truncated, and so is the value.*)
EncodeField(value, prefix) ==
  IF prefix = 0 THEN value
  ELSE LET length == Len(value) % Place[prefix + 1]
       IN  LittleEndian(length, prefix) \o SubSeq(value, 1, length)

(* The buffer is made for the untruncated values.                          *)
Encode(format, values) ==
  LET zeros == FlattenSeq([i \in DOMAIN format |->
                             Bytes(0, format[i].prefix + Len(values[format[i].name]))])
      fields == FlattenSeq([i \in DOMAIN format |->
                              EncodeField(values[format[i].name], format[i].prefix)])
  IN  fields \o SubSeq(zeros, Len(fields) + 1, Len(zeros))

message_to_buffer(m) == Encode(MessageFormat, m)
signed_message_to_buffer(s) == Encode(SignedFormat, s)

(* Mutant: the login's length is written in the one byte allotted for it.  *)
MetadataShortPrefixMutant(login, public_key) ==
  EncodeField(login, 1) \o EncodeField(public_key, 2)

(* One byte is allotted for the login's length and two are written: the    *)
(* last byte of the key is not in the buffer.                              *)
metadata_to_buffer(login, public_key) ==
  Front(Encode(MetadataFormat, [login |-> login, public_key |-> public_key]))

-----------------------------------------------------------------------------
(* MessageDeserializer                                                     *)

ByteAt(buffer, i) == IF i \in DOMAIN buffer THEN buffer[i] ELSE stray

LengthAt(buffer, at, prefix) ==
  IF prefix = 0 THEN FixedSize
  ELSE ByteAt(buffer, at) + (IF prefix = 2 THEN Base * ByteAt(buffer, at + 1) ELSE 0)

(* Mutant: the pointer is not moved over the length.                       *)
ValueAtLengthMutant(buffer, at, prefix) ==
  [k \in 1..LengthAt(buffer, at, prefix) |-> ByteAt(buffer, at + k - 1)]

ValueAt(buffer, at, prefix) ==
  [k \in 1..LengthAt(buffer, at, prefix) |-> ByteAt(buffer, at + prefix + k - 1)]

(* The pointer before each field and behind the last.                      *)
Starts(format, buffer) ==
  LET start[i \in 1..(Len(format) + 1)] ==
        IF i = 1 THEN 1
        ELSE start[i - 1] + format[i - 1].prefix
               + LengthAt(buffer, start[i - 1], format[i - 1].prefix)
  IN  start

(* The fields of a buffer one after the other, "end" bytes in all.         *)
Decode(format, buffer) ==
  LET start == Starts(format, buffer)
      index(name) == CHOOSE i \in DOMAIN format : format[i].name = name
  IN  [values |-> [name \in {format[i].name : i \in DOMAIN format} |->
                     ValueAt(buffer, start[index(name)], format[index(name)].prefix)],
       end |-> start[Len(format) + 1] - 1]

(* The size check throws; it comes after the bytes have been read.         *)
Fits(decoded, buffer) == decoded.end <= Len(buffer)

signed_message_from_buffer(buffer) == Decode(SignedFormat, buffer)
message_from_buffer(buffer) == Decode(MessageFormat, buffer)
metadata_from_buffer(buffer) == Decode(MetadataFormat, buffer).values

(* A signature is good for the bytes that were signed.                     *)
check_signature(signed, public_key) ==
  /\ "id" \in DOMAIN original
  /\ signed.message = message_to_buffer(original)
  /\ \E p \in Peer : Owns(p, public_key) /\ signed.signature = Signature(p)

-----------------------------------------------------------------------------
Init ==
  /\ original \in Messages \cup Punches
  /\ stray \in 0..(Base - 1)
  /\ datagram = <<>>
  /\ outcome = [as |-> "none"]

(* A datagram too long makes send_to throw.                                *)
Send(buffer) ==
  /\ IF Len(buffer) > MaxDatagram
       THEN outcome' = [as |-> "not sent"] /\ UNCHANGED datagram
       ELSE datagram' = buffer /\ UNCHANGED outcome
  /\ UNCHANGED <<original, stray>>

(* MessageSender::send_message                                             *)
SendMessage ==
  LET buffer == signed_message_to_buffer(
                  [message |-> message_to_buffer(original), signature |-> Signature(12)])
  IN  /\ "id" \in DOMAIN original /\ datagram = <<>> /\ outcome.as = "none"
      /\ Send(buffer)

(* UdpHolePuncher::hole_punch: the same.                                   *)
HolePunch ==
  LET buffer == metadata_to_buffer(original.login, original.public_key)
  IN  /\ "login" \in DOMAIN original /\ datagram = <<>> /\ outcome.as = "none"
      /\ Send(buffer)

(* The catch block: metadata_from_buffer, and a key that is none throws    *)
(* out of the handler.                                                     *)
AsPunch ==
  LET punch == metadata_from_buffer(datagram)
  IN  IF IsKey(punch.public_key) THEN [as |-> "punch", values |-> punch]
                                 ELSE [as |-> "terminated"]

(* Mine: whatever throws is caught and the message is dropped.             *)
AsMine(signed) ==
  LET message == message_from_buffer(signed.message)
  IN  IF /\ Fits(message, signed.message)
         /\ check_signature(signed, message.values.source_public_key)
         /\ message.values.payload = original.payload  \* or decrypt throws
        THEN [as |-> "message", values |-> message.values]
        ELSE [as |-> "dropped"]

(* Someone else's: what throws here makes it a hole punch.                 *)
AsOthers(signed) ==
  LET message == message_from_buffer(signed.message)
  IN  IF ~Fits(message, signed.message) \/ ~IsKey(message.values.source_public_key)
        THEN AsPunch
        ELSE IF check_signature(signed, message.values.source_public_key)
               THEN [as |-> "others", values |-> message.values]
               ELSE [as |-> "dropped"]

(* MessageReceiver::async_wait_handler.                                    *)
Receive ==
  LET decoded == signed_message_from_buffer(datagram)
      signed == decoded.values
      destination == message_from_buffer(signed.message).values.destination_public_key
  IN  /\ datagram # <<>> /\ outcome.as = "none"
      /\ outcome' = IF ~Fits(decoded, datagram) THEN AsPunch
                    ELSE IF destination = Key(Me) THEN AsMine(signed)
                    ELSE AsOthers(signed)
      /\ UNCHANGED <<original, stray, datagram>>

Next == SendMessage \/ HolePunch \/ Receive

Spec == Init /\ [][Next]_vars

-----------------------------------------------------------------------------
TypeOK ==
  /\ original \in Messages \cup Punches
  /\ stray \in 0..(Base - 1)
  /\ datagram \in Seq(0..(Base - 1)) /\ Len(datagram) <= MaxDatagram
  /\ outcome.as \in {"none", "not sent", "message", "others", "punch", "dropped", "terminated"}

(* What fits its prefix arrives as it was sent; of a longer login the      *)
(* beginning is kept, and no other field suffers.                          *)
Truncated(value, prefix) ==
  IF prefix = 0 THEN value ELSE SubSeq(value, 1, Len(value) % Place[prefix + 1])
Received(message) ==
  [name \in DOMAIN message |->
     Truncated(message[name],
               (CHOOSE f \in ToSet(MessageFormat) : f.name = name).prefix)]

(* Every message that is sent is taken for one by its addressee, and for   *)
(* someone else's by a relay, with its fields intact, however long they    *)
(* are; a message that cannot be sent is too long for UDP.                 *)
MessageArrives ==
  "id" \in DOMAIN original /\ outcome.as \notin {"none", "not sent"} =>
    /\ outcome.as = IF original.destination_public_key = Key(Me) THEN "message" ELSE "others"
    /\ outcome.values = Received(original)

(* Hole punches look like signed messages, and no field tells the two      *)
(* apart: still every one is recognised, gives the login and a key that    *)
(* can be imported, and never an exception that ends the receiver.         *)
PunchArrives ==
  "login" \in DOMAIN original /\ outcome.as \notin {"none", "not sent"} =>
    /\ outcome.as = "punch"
    /\ outcome.values.login = original.login
    /\ Owns(12, outcome.values.public_key)

(* docs/README.md:4: a value of variable length is encoded as its length   *)
(* and the value itself.  (Violated by hole punches.)                      *)
ValuesAreWhole ==
  "login" \in DOMAIN original /\ datagram # <<>> =>
    Fits(Decode(MetadataFormat, datagram), datagram)
=============================================================================
