------------------------------- MODULE Ingest -------------------------------
(***************************************************************************)
(* The way of a chat message from its sender to the hubs and to the store: *)
(* ReadPump of a connection (gateway/websocket/client.go) or SendReply of  *)
(* the agent (gateway/grpc/server.go) call the producer                    *)
(* (messages/producer/producer-kafka.go), which hands the message to the   *)
(* Kafka writer and then publishes it in Redis; StartGlobalListener        *)
(* (gateway/websocket/hub.go) of each node gives it to the local hub, and  *)
(* the archiver, which is Archiver's, to the store.                        *)
(*                                                                         *)
(* The Kafka writer is external: it takes messages into a queue, sends     *)
(* them in order, may retry what the broker has already got, and asks for  *)
(* no acknowledgement unless it is told to, which the code does not.       *)
(***************************************************************************)
EXTENDS Archiver, Envelope

CONSTANTS
    Connections,   \* senders that use a WebSocket connection
    Agent,         \* the sender that uses SendReply
    IdsOf,         \* IdsOf[s]: the message ids that the sender s uses
    NoId,          \* a frame without client_msg_id, a reply without message_id
    Nodes,         \* gateway processes, each with its listener and hub
    Foreign,       \* values in the topic that others have written: JSON or neither,
                   \* whose contents are none of those sent here
    AsyncModes,    \* the values of KAFKA_PRODUCER_ASYNC considered
    MaxSends,      \* bound: frames, replies and foreign values together
    MaxFaults      \* bound: losses, duplicates, errors and timeouts

Senders == Connections \cup {Agent}

ASSUME IngestAssumption ==
    /\ Agent \notin Connections
    /\ \A s \in Senders : IdsOf[s] \subseteq ClientMsgIDs /\ NoId \notin IdsOf[s]
    /\ \A data \in Foreign :
        /\ data.format # "proto"
        /\ data.format = "json" => data.cid \in ClientMsgIDs /\ data.content \notin 1..MaxSends
    /\ AsyncModes \subseteq BOOLEAN
    /\ MaxSends \in Nat /\ MaxFaults \in Nat

VARIABLES
    async,     \* KAFKA_PRODUCER_ASYNC
    sends,     \* messages sent so far
    calls,     \* calls[s]: the call of HandleIncomingMessage that s waits for
    writer,    \* the queue of the Kafka writer
    wire,      \* the values of the partition, whose ids are log
    bus,       \* bus[n]: published, not yet taken by the listener of node n
    live,      \* live[n]: messages given to the hub of node n
    archived,  \* archived[o]: what the archiver has read at offset o
    lost,      \* history: ids that Kafka lost although their call did not fail
    faults

ingestVars == <<async, sends, calls, writer, wire, bus, live, archived, lost, faults>>

Idle == [step |-> "idle"]

\* The time, which advances with every message that is sent.
now == sends + 1

IngestInit ==
    /\ Init
    /\ async \in AsyncModes
    /\ sends = 0 /\ faults = 0
    /\ calls = [s \in Senders |-> Idle]
    /\ writer = <<>> /\ wire = <<>>
    /\ bus = [n \in Nodes |-> <<>>]
    /\ live = [n \in Nodes |-> <<>>]
    /\ archived = [o \in 1..MaxLog |-> Invalid]
    /\ lost = {}

Fault == faults < MaxFaults /\ faults' = faults + 1

-----------------------------------------------------------------------------
(* Sending                                                                 *)

\* HandleIncomingMessage up to WriteMessages, which returns at once when the writer is
\* asynchronous and otherwise waits for the outcome.
HandleIncomingMessage(s, cid) ==
    LET payload == Marshal([room |-> 1, sender |-> s, cid |-> cid, content |-> sends + 1,
                            type |-> 1, at |-> now])
    IN  /\ calls' = [calls EXCEPT ![s] =
                        [step |-> IF async THEN "publish" ELSE "wait", payload |-> payload]]
        /\ writer' = Append(writer, payload)

\* One round of ReadPump.  A frame that is no JSON object or has no client_msg_id is
\* skipped.
ReadPump(s, json, cid) ==
    /\ s \in Connections /\ calls[s] = Idle
    /\ sends < MaxSends
    /\ sends' = sends + 1
    /\ IF json /\ cid # NoId THEN HandleIncomingMessage(s, cid) ELSE UNCHANGED <<calls, writer>>
    /\ UNCHANGED <<vars, async, wire, bus, live, archived, lost, faults>>

\* A reply without message_id gets one.
SendReply(given, generated) ==
    /\ calls[Agent] = Idle
    /\ sends < MaxSends
    /\ sends' = sends + 1
    /\ HandleIncomingMessage(Agent, IF given = NoId THEN generated ELSE given)
    /\ UNCHANGED <<vars, async, wire, bus, live, archived, lost, faults>>

IdOf(data) == LET msg == Unmarshal(data, now) IN IF msg = Invalid THEN Garbage ELSE msg.cid

Written(data, copies) ==
    /\ Len(log) + copies <= MaxLog
    /\ log' = log \o [i \in 1..copies |-> IdOf(data)]
    /\ wire' = wire \o [i \in 1..copies |-> data]
    /\ UNCHANGED <<storeKind, memory, lastID, stored, crashes>>

\* A faulty call that does not look at the error.
AnsweredAnyway(call, ok) == [call EXCEPT !.step = "publish"]

\* HandleIncomingMessage returns an error of WriteMessages.
Answered(call, ok) == IF ok THEN [call EXCEPT !.step = "publish"] ELSE Idle

\* The writer is done with the first message of its queue: the partition has it once,
\* twice or not at all.  The caller, if it waits for this one, gets nil or an error.
WriterDone(copies, ok) ==
    LET data == Head(writer)
        s == data.sender
        waits == calls[s].step = "wait" /\ calls[s].payload = data
    IN  /\ writer # <<>>
        /\ IF copies = 1 /\ ok THEN UNCHANGED faults ELSE Fault
        /\ Written(data, copies)
        /\ writer' = Tail(writer)
        /\ calls' = IF waits THEN [calls EXCEPT ![s] = Answered(@, ok)] ELSE calls
        /\ lost' = IF copies = 0 /\ (ok \/ ~waits) THEN lost \cup {data.cid} ELSE lost
        /\ UNCHANGED <<async, sends, bus, live, archived>>

\* The three seconds of a call pass: the call returns an error, the message stays queued.
WriteTimesOut(s) ==
    /\ calls[s].step = "wait"
    /\ Fault
    /\ calls' = [calls EXCEPT ![s] = Answered(@, FALSE)]
    /\ UNCHANGED <<vars, async, sends, writer, wire, bus, live, archived, lost>>

\* The rest of HandleIncomingMessage.  An error of Redis is logged.
Publish(s) ==
    /\ calls[s].step = "publish"
    /\ \/ /\ bus' = [n \in Nodes |-> Append(bus[n], calls[s].payload)]
          /\ UNCHANGED faults
       \/ Fault /\ UNCHANGED bus
    /\ calls' = [calls EXCEPT ![s] = Idle]
    /\ UNCHANGED <<vars, async, sends, writer, wire, live, archived, lost>>

\* Another producer writes to the topic.
ForeignWrite(data) ==
    /\ sends < MaxSends
    /\ sends' = sends + 1
    /\ Written(data, 1)
    /\ UNCHANGED <<async, calls, writer, bus, live, archived, lost, faults>>

-----------------------------------------------------------------------------
(* Receiving                                                               *)

\* Hub.Publish gets what can be parsed.
StartGlobalListener(n) ==
    LET msg == Unmarshal(Head(bus[n]), now)
    IN  /\ bus[n] # <<>>
        /\ bus' = [bus EXCEPT ![n] = Tail(@)]
        /\ live' = IF msg = Invalid THEN live ELSE [live EXCEPT ![n] = Append(@, msg)]
        /\ UNCHANGED <<vars, async, sends, calls, writer, wire, archived, lost, faults>>

\* Archiver's Read, and the message it makes of the value.
ReadMessage ==
    /\ Read
    /\ archived' = [archived EXCEPT ![pos] = Unmarshal(wire[pos], now)]
    /\ UNCHANGED <<async, sends, calls, writer, wire, bus, live, lost, faults>>

ArchiverStep == (Tick \/ \E t \in tasks : TaskStep(t)) /\ UNCHANGED ingestVars

IngestNext ==
    \/ \E s \in Connections : \E json \in BOOLEAN, cid \in IdsOf[s] \cup {NoId} : ReadPump(s, json, cid)
    \/ \E given \in IdsOf[Agent] \cup {NoId}, generated \in IdsOf[Agent] : SendReply(given, generated)
    \/ \E copies \in 0..2, ok \in BOOLEAN : WriterDone(copies, ok)
    \/ \E s \in Senders : WriteTimesOut(s)
    \/ \E s \in Senders : Publish(s)
    \/ \E data \in Foreign : ForeignWrite(data)
    \/ \E n \in Nodes : StartGlobalListener(n)
    \/ ReadMessage
    \/ ArchiverStep

(***************************************************************************)
(* The writer sends what it has queued, a second after the last message at *)
(* the latest; the archiver's loop and its tasks run.  Senders need not    *)
(* send, and neither Redis nor a listener need make progress.              *)
(***************************************************************************)
IngestFairness ==
    /\ WF_<<vars, ingestVars>>(\E copies \in 0..2, ok \in BOOLEAN : WriterDone(copies, ok))
    /\ WF_<<vars, ingestVars>>(ReadMessage)
    /\ WF_<<vars, ingestVars>>(ArchiverStep)

IngestSpec == IngestInit /\ [][IngestNext]_<<vars, ingestVars>> /\ IngestFairness

-----------------------------------------------------------------------------
(* Properties                                                              *)

\* What a node has shown is eventually in the store, unless Kafka lost it without an
\* error: HandleIncomingMessage publishes only what it has handed to Kafka and whose
\* write did not fail, and the archiver leaves no message of the partition behind.
LiveIsStored ==
    \A n \in Nodes, cid \in ClientMsgIDs :
        (\E i \in DOMAIN live[n] : live[n][i].cid = cid) ~> (cid \in ids(store) \cup lost)

InOrder(msgs) ==
    \A i, j \in DOMAIN msgs :
        i < j /\ msgs[i].sender = msgs[j].sender => msgs[i].content <= msgs[j].content

\* Every node shows the messages of a sender in the order in which they were sent, and
\* the partition has them in that order too, whatever was lost, repeated, timed out or
\* refused in between.  A message that is shown and archived is the same in both
\* places, its time included, although both parse it at different times.
LiveAgrees ==
    /\ \A i, j \in DOMAIN wire :
        (i < j /\ {wire[i].format, wire[j].format} = {"proto"} /\ wire[i].sender = wire[j].sender)
            => wire[i].content <= wire[j].content
    /\ \A n \in Nodes :
        /\ InOrder(live[n])
        /\ \A i \in DOMAIN live[n], o \in DOMAIN archived :
            (archived[o] # Invalid /\ archived[o].content = live[n][i].content)
                => archived[o] = live[n][i]
=============================================================================
