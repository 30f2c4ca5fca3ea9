---------------------------- MODULE IdGenerator ----------------------------
(***************************************************************************)
(* nextID of services/messages/archiver/worker-kafka.go: message IDs made  *)
(* of a millisecond timestamp and a sequence number.  idMu is held for the *)
(* whole call, so that a call is one step, or two when the sequence        *)
(* numbers of the millisecond are used up and it waits for the next one.   *)
(*                                                                         *)
(* The wall clock is assumed not to step back.                             *)
(***************************************************************************)
EXTENDS Integers

CONSTANTS
    IdEpoch,   \* idEpoch
    SeqRange,  \* sequence numbers of a millisecond (1024)
    MaxClock   \* bound: the clock stops here

ASSUME IdGeneratorAssumption ==
    /\ IdEpoch \in Nat \ {0}
    /\ SeqRange \in Nat \ {0}
    /\ MaxClock \in Nat /\ IdEpoch <= MaxClock

VARIABLES
    clock,       \* time.Now().UnixMilli()
    idLastMs, idSequence,
    waiting,     \* a call holds idMu and waits for the next millisecond
    last         \* history: the ID returned last, -1 before the first

vars == <<clock, idLastMs, idSequence, waiting, last>>

TypeOK ==
    /\ clock \in IdEpoch..MaxClock
    /\ idLastMs \in 0..MaxClock
    /\ idSequence \in 0..(SeqRange - 1)
    /\ waiting \in BOOLEAN
    /\ last \in Int

Init ==
    /\ clock = IdEpoch
    /\ idLastMs = 0
    /\ idSequence = 0
    /\ waiting = FALSE
    /\ last = -1

\* (now-idEpoch)<<10 | idSequence
ID(now, seq) == (now - IdEpoch) * SeqRange + seq

\* A faulty nextID that reuses the millisecond when its sequence is used up.
nextIDNoWait ==
    /\ ~waiting
    /\ idSequence' = IF clock = idLastMs THEN (idSequence + 1) % SeqRange ELSE 0
    /\ idLastMs' = clock
    /\ last' = ID(clock, idSequence')
    /\ UNCHANGED <<clock, waiting>>

\* A call in a new millisecond, or with sequence numbers left, or without.
nextID ==
    /\ ~waiting
    /\ \/ /\ clock # idLastMs
          /\ idSequence' = 0
          /\ idLastMs' = clock
          /\ last' = ID(clock, 0)
          /\ UNCHANGED waiting
       \/ /\ clock = idLastMs
          /\ idSequence' = (idSequence + 1) % SeqRange
          /\ waiting' = (idSequence' = 0)
          /\ last' = IF waiting' THEN last ELSE ID(clock, idSequence')
          /\ UNCHANGED idLastMs
    /\ UNCHANGED clock

\* for now <= idLastMs { now = time.Now().UnixMilli() }
NextMillisecond ==
    /\ waiting
    /\ clock > idLastMs
    /\ idLastMs' = clock
    /\ last' = ID(clock, idSequence)
    /\ waiting' = FALSE
    /\ UNCHANGED <<clock, idSequence>>

\* Time passes.
Tick ==
    /\ clock < MaxClock
    /\ clock' = clock + 1
    /\ UNCHANGED <<idLastMs, idSequence, waiting, last>>

Next == nextID \/ NextMillisecond \/ Tick

Spec == Init /\ [][Next]_vars

----------------------------------------------------------------------------
\* This step is one in which a call returns an ID.
Returns ==
    /\ ~waiting'
    /\ <<idLastMs, idSequence, waiting>>' # <<idLastMs, idSequence, waiting>>

\* Every ID is larger than all IDs before it, hence unique, whatever the pace of
\* the calls: also when a millisecond's sequence is used up or the clock jumps.
IdsIncrease == [][Returns => last' > last]_vars
=============================================================================
