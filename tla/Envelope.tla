------------------------------ MODULE Envelope ------------------------------
(***************************************************************************)
(* The chat message on Kafka and on the Redis channels                     *)
(* (contracts/events/message.go): protobuf, or the JSON that earlier       *)
(* producers wrote.                                                        *)
(*                                                                         *)
(* Data is a record: its format, and the fields that the format carries.   *)
(* Data of another format is empty, or bytes that neither parser accepts.  *)
(***************************************************************************)
EXTENDS Integers

\* What a parser that returns an error gives.
Invalid == [invalid |-> TRUE]

\* The conversion to int8.
Int8(n) == ((n + 128) % 256) - 128

\* A faulty parser that takes the time of reading for the time of sending.
UnmarshalProtoNow(data, now) ==
    IF data.format # "proto" THEN Invalid
    ELSE [room |-> data.room, sender |-> data.sender, cid |-> data.cid, content |-> data.content,
          type |-> Int8(IF data.type = 0 THEN 1 ELSE data.type), at |-> now]

\* A time before 1970 becomes 0.
Marshal(msg) ==
    [format |-> "proto", room |-> msg.room, sender |-> msg.sender, cid |-> msg.cid,
     content |-> msg.content, type |-> msg.type, ns |-> IF msg.at < 0 THEN 0 ELSE msg.at]

\* Absent fields of protobuf are 0: the type is then text, the time the time of reading.
UnmarshalProto(data, now) ==
    IF data.format # "proto" THEN Invalid
    ELSE [room |-> data.room, sender |-> data.sender, cid |-> data.cid, content |-> data.content,
          type |-> Int8(IF data.type = 0 THEN 1 ELSE data.type),
          at |-> IF data.ns > 0 THEN data.ns ELSE now]

\* The room is a text, which must be a number.
UnmarshalLegacyJSON(data, now) ==
    IF data.format # "json" \/ ~data.roomIsNumber THEN Invalid
    ELSE [room |-> data.room, sender |-> data.sender, cid |-> data.cid, content |-> data.content,
          type |-> 1, at |-> IF data.timestamp > 0 THEN data.timestamp ELSE now]

Unmarshal(data, now) ==
    LET msg == UnmarshalProto(data, now)
    IN  CASE data.format = "empty" -> Invalid
          [] data.format # "empty" /\ msg # Invalid -> msg
          [] OTHER -> UnmarshalLegacyJSON(data, now)
=============================================================================
