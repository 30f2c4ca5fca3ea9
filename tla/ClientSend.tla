---------------------------- MODULE ClientSend -----------------------------
(***************************************************************************)
(* The Send channel of one client, step by step                            *)
(* (services/gateway/websocket/client.go: TrySend, closeSend, WritePump):  *)
(* shard loops and fan-out workers call TrySend, Unregister calls          *)
(* closeSend, and the WritePump goroutine is the only receiver.            *)
(*                                                                         *)
(* sendMu is a sync.RWMutex.  A Go channel that is closed still delivers   *)
(* what it buffers; to send on it or to close it again is a panic.         *)
(***************************************************************************)
EXTENDS Naturals, Sequences

CONSTANTS
    Senders,   \* goroutines that call TrySend
    Closers,   \* goroutines that call closeSend
    ChanCap,   \* capacity of Client.Send
    MaxSends   \* bound: calls of TrySend by one goroutine

ASSUME ClientSendAssumption ==
    /\ Senders \cap Closers = {}
    /\ ChanCap \in Nat \ {0}
    /\ MaxSends \in Nat

Payloads == Senders \X (1..MaxSends)

VARIABLES
    pc,          \* where each goroutine is in TrySend or closeSend
    calls,       \* per sender: calls of TrySend so far
    closedFlag,  \* Client.sendClosed
    chan,        \* the buffer of Client.Send
    chanClosed,  \* close(c.Send) has run
    pump,        \* WritePump: [pc, left, frame]
    wire,        \* what the peer was sent
    sent         \* history: the payloads TrySend returned true for

sendVars == <<pc, calls, closedFlag, chan, chanClosed, pump, wire, sent>>

Pump(p, left, frame) == [pc |-> p, left |-> left, frame |-> frame]

SenderPCs == {"idle", "check", "send", "runlock"}
CloserPCs == {"idle", "waiting", "check", "close", "unlock", "done"}
PumpPCs == {"select", "open", "len", "drain", "failed", "closed"}

SendTypeOK ==
    /\ pc \in [Senders \cup Closers -> SenderPCs \cup CloserPCs]
    /\ \A p \in Senders : pc[p] \in SenderPCs
    /\ \A q \in Closers : pc[q] \in CloserPCs
    /\ calls \in [Senders -> 0..MaxSends]
    /\ closedFlag \in BOOLEAN
    /\ chan \in Seq(Payloads) /\ Len(chan) <= ChanCap
    /\ chanClosed \in BOOLEAN
    /\ pump \in [pc : PumpPCs, left : Nat, frame : Seq(Payloads)]
    /\ wire \in Seq(Payloads)
    /\ sent \in Seq(Payloads)

SendInit ==
    /\ pc = [g \in Senders \cup Closers |-> "idle"]
    /\ calls = [p \in Senders |-> 0]
    /\ closedFlag = FALSE
    /\ chan = <<>>
    /\ chanClosed = FALSE
    /\ pump = Pump("select", 0, <<>>)
    /\ wire = <<>>
    /\ sent = <<>>

----------------------------------------------------------------------------
(***************************************************************************)
(* sendMu: who holds it follows from where the goroutines are.             *)
(***************************************************************************)
\* A faulty TrySend that forgets sendMu.RLock().
HoldsReadNever(p) == FALSE

HoldsRead(p) == pc[p] \in {"check", "send", "runlock"}
HoldsWrite(q) == pc[q] \in {"check", "close", "unlock"}

At(g, from, to) ==
    /\ pc[g] = from
    /\ pc' = [pc EXCEPT ![g] = to]

(***************************************************************************)
(* TrySend.                                                                *)
(***************************************************************************)
RLock(p) ==
    /\ calls[p] < MaxSends
    /\ \A q \in Closers : ~HoldsWrite(q)
    /\ At(p, "idle", "check")
    /\ calls' = [calls EXCEPT ![p] = @ + 1]
    /\ UNCHANGED <<closedFlag, chan, chanClosed, pump, wire, sent>>

CheckSend(p) ==
    /\ At(p, "check", IF closedFlag THEN "runlock" ELSE "send")
    /\ UNCHANGED <<calls, closedFlag, chan, chanClosed, pump, wire, sent>>

\* A faulty TrySend without the default case.
SelectSendBlocking(p) ==
    /\ At(p, "send", "runlock")
    /\ Len(chan) < ChanCap
    /\ chan' = Append(chan, <<p, calls[p]>>)
    /\ sent' = Append(sent, <<p, calls[p]>>)
    /\ UNCHANGED <<calls, closedFlag, chanClosed, pump, wire>>

\* The select with a default: the payload fits, or TrySend gives up.
SelectSend(p) ==
    /\ At(p, "send", "runlock")
    /\ \/ /\ Len(chan) < ChanCap
          /\ chan' = Append(chan, <<p, calls[p]>>)
          /\ sent' = Append(sent, <<p, calls[p]>>)
       \/ /\ Len(chan) = ChanCap
          /\ UNCHANGED <<chan, sent>>
    /\ UNCHANGED <<calls, closedFlag, chanClosed, pump, wire>>

RUnlock(p) ==
    /\ At(p, "runlock", "idle")
    /\ UNCHANGED <<calls, closedFlag, chan, chanClosed, pump, wire, sent>>

(***************************************************************************)
(* closeSend.                                                              *)
(***************************************************************************)
CallCloseSend(q) ==
    /\ At(q, "idle", "waiting")
    /\ UNCHANGED <<calls, closedFlag, chan, chanClosed, pump, wire, sent>>

Lock(q) ==
    /\ \A p \in Senders : ~HoldsRead(p)
    /\ \A g \in Closers : ~HoldsWrite(g)
    /\ At(q, "waiting", "check")
    /\ UNCHANGED <<calls, closedFlag, chan, chanClosed, pump, wire, sent>>

CheckClose(q) ==
    /\ At(q, "check", IF closedFlag THEN "unlock" ELSE "close")
    /\ closedFlag' = TRUE
    /\ UNCHANGED <<calls, chan, chanClosed, pump, wire, sent>>

CloseChan(q) ==
    /\ At(q, "close", "unlock")
    /\ chanClosed' = TRUE
    /\ UNCHANGED <<calls, closedFlag, chan, pump, wire, sent>>

Unlock(q) ==
    /\ At(q, "unlock", "done")
    /\ UNCHANGED <<calls, closedFlag, chan, chanClosed, pump, wire, sent>>

----------------------------------------------------------------------------
(***************************************************************************)
(* WritePump.  A message and everything that is queued behind it go out in *)
(* one frame.                                                              *)
(***************************************************************************)
Receive ==
    /\ pump.pc = "select"
    /\ chan # <<>>
    /\ pump' = Pump("open", 0, <<Head(chan)>>)
    /\ chan' = Tail(chan)
    /\ UNCHANGED <<pc, calls, closedFlag, chanClosed, wire, sent>>

\* A faulty WritePump that returns although messages are queued, and one that
\* goes on with its loop when the channel is closed.
ReceiveClosedEarly ==
    /\ pump.pc = "select"
    /\ chanClosed
    /\ pump' = Pump("closed", 0, <<>>)
    /\ UNCHANGED <<pc, calls, closedFlag, chan, chanClosed, wire, sent>>

ReceiveClosedGoesOn ==
    /\ pump.pc = "select"
    /\ chanClosed /\ chan = <<>>
    /\ UNCHANGED sendVars

\* The channel is closed and empty: the close frame goes out, WritePump returns.
ReceiveClosed ==
    /\ pump.pc = "select"
    /\ chanClosed /\ chan = <<>>
    /\ pump' = Pump("closed", 0, <<>>)
    /\ UNCHANGED <<pc, calls, closedFlag, chan, chanClosed, wire, sent>>

\* A faulty WritePump that forgets to write the message it received first.
NextWriterDropsFirst ==
    /\ pump.pc = "open"
    /\ pump' = Pump("len", 0, <<>>)
    /\ UNCHANGED <<pc, calls, closedFlag, chan, chanClosed, wire, sent>>

NextWriter ==
    /\ pump.pc = "open"
    /\ pump' = Pump("len", 0, pump.frame)
    /\ UNCHANGED <<pc, calls, closedFlag, chan, chanClosed, wire, sent>>

\* A faulty count that includes the message received first.
LenSendCountsFirst ==
    /\ pump.pc = "len"
    /\ pump' = Pump("drain", Len(chan) + 1, pump.frame)
    /\ UNCHANGED <<pc, calls, closedFlag, chan, chanClosed, wire, sent>>

\* n := len(c.Send)
LenSend ==
    /\ pump.pc = "len"
    /\ pump' = Pump("drain", Len(chan), pump.frame)
    /\ UNCHANGED <<pc, calls, closedFlag, chan, chanClosed, wire, sent>>

Drain ==
    /\ pump.pc = "drain"
    /\ pump.left > 0
    /\ chan # <<>>
    /\ pump' = Pump("drain", pump.left - 1, Append(pump.frame, Head(chan)))
    /\ chan' = Tail(chan)
    /\ UNCHANGED <<pc, calls, closedFlag, chanClosed, wire, sent>>

\* w.Close() writes the frame.
WriteFrame ==
    /\ pump.pc = "drain"
    /\ pump.left = 0
    /\ wire' = wire \o pump.frame
    /\ pump' = Pump("select", 0, <<>>)
    /\ UNCHANGED <<pc, calls, closedFlag, chan, chanClosed, sent>>

\* NextWriter, w.Close() or a ping fails: WritePump returns, the connection is
\* closed and nobody receives from Send any more.
WriteError ==
    /\ \/ pump.pc \in {"select", "open"}
       \/ pump.pc = "drain" /\ pump.left = 0
    /\ pump' = Pump("failed", 0, pump.frame)
    /\ UNCHANGED <<pc, calls, closedFlag, chan, chanClosed, wire, sent>>

Sender(p) == RLock(p) \/ CheckSend(p) \/ SelectSend(p) \/ RUnlock(p)
Closer(q) ==
    \/ CallCloseSend(q) \/ Lock(q)
    \/ CheckClose(q) \/ CloseChan(q) \/ Unlock(q)
PumpLoop ==
    \/ Receive \/ ReceiveClosed \/ NextWriter \/ LenSend \/ Drain
    \/ WriteFrame

SendNext ==
    \/ \E p \in Senders : Sender(p)
    \/ \E q \in Closers : Closer(q)
    \/ PumpLoop
    \/ WriteError

SendSpec == SendInit /\ [][SendNext]_sendVars

(***************************************************************************)
(* A TrySend or closeSend that has begun goes on, and WritePump runs: its  *)
(* writes have a deadline (writeWait), so that each succeeds or fails.     *)
(* A goroutine that waits in Lock is not overtaken forever by readers:     *)
(* RWMutex stops admitting readers then, hence the strong fairness.  That  *)
(* anybody calls closeSend, or that a write fails, is not assumed.         *)
(***************************************************************************)
SendFairness ==
    /\ \A p \in Senders : WF_sendVars(CheckSend(p) \/ SelectSend(p) \/ RUnlock(p))
    /\ \A q \in Closers : SF_sendVars(pc[q] # "idle" /\ Closer(q))
    /\ WF_sendVars(PumpLoop)

FairSendSpec == SendSpec /\ SendFairness

----------------------------------------------------------------------------
(***************************************************************************)
(* Properties.                                                             *)
(***************************************************************************)
\* Nobody sends on the closed channel and nobody closes it twice, either of
\* which would panic and end the gateway process.
NoPanic ==
    chanClosed => /\ \A p \in Senders : pc[p] # "send"
                  /\ \A q \in Closers : pc[q] # "close"

\* The n receives that WritePump makes for a frame find n payloads, so that they
\* neither block nor yield the nil of a closed channel.
DrainFindsPayloads ==
    pump.pc = "drain" => pump.left <= Len(chan)

\* No payload that TrySend accepted is lost, duplicated or reordered on its way to
\* the wire, as long as no write fails.
StreamIntact ==
    pump.pc # "failed" => sent = wire \o pump.frame \o chan

\* The close frame comes last: when WritePump returns because Send is closed, the
\* peer has been sent everything that TrySend ever accepted.
ClosedAfterLast ==
    pump.pc = "closed" => /\ wire = sent
                          /\ \A p \in Senders : pc[p] # "send"

\* TrySend and closeSend return, whether the queue is full or WritePump is gone.
CallersReturn ==
    /\ \A p \in Senders : pc[p] # "idle" ~> pc[p] = "idle"
    /\ \A q \in Closers : pc[q] = "waiting" ~> pc[q] = "done"

\* Once Send is closed WritePump ends, and with it the connection.
PumpEnds ==
    chanClosed ~> pump.pc \in {"failed", "closed"}
=============================================================================
