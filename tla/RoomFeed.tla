----------------------------- MODULE RoomFeed ------------------------------
(***************************************************************************)
(* What the Hub promises about the messages of a room, whatever shards,    *)
(* queues and fan-out workers it uses: the messages it accepts are served  *)
(* one after the other, in the order of acceptance, none skipped; while a  *)
(* message is being served each client gets it at most once; and a message *)
(* is never given to anybody after the next one of its room has begun.     *)
(*                                                                         *)
(* A client may miss a message (it is not in the room, or its queue is     *)
(* full); what it gets is then a subsequence of the accepted messages.     *)
(***************************************************************************)
EXTENDS Naturals, Sequences

CONSTANTS
    Clients, Rooms,
    Numbers    \* the numbers a room's messages may have

VARIABLES
    accepted,  \* per room: the numbers of the accepted messages, in order
    served,    \* per room: how many of them have begun to be served
    got        \* per client: the messages <<room, number>> it was given

feedVars == <<accepted, served, got>>

Init ==
    /\ accepted = [r \in Rooms |-> <<>>]
    /\ served = [r \in Rooms |-> 0]
    /\ got = [c \in Clients |-> <<>>]

\* The source numbers the messages of a room; some of them are not accepted.
Accept(r, n) ==
    /\ \A i \in 1..Len(accepted[r]) : accepted[r][i] < n
    /\ accepted' = [accepted EXCEPT ![r] = Append(@, n)]
    /\ UNCHANGED <<served, got>>

Begin(r) ==
    /\ served[r] < Len(accepted[r])
    /\ served' = [served EXCEPT ![r] = @ + 1]
    /\ UNCHANGED <<accepted, got>>

Give(c, r) ==
    /\ served[r] > 0
    /\ LET m == <<r, accepted[r][served[r]]>>
       IN  /\ \A i \in 1..Len(got[c]) : got[c][i] # m
           /\ got' = [got EXCEPT ![c] = Append(@, m)]
    /\ UNCHANGED <<accepted, served>>

Next ==
    \/ \E r \in Rooms, n \in Numbers : Accept(r, n)
    \/ \E r \in Rooms : Begin(r)
    \/ \E c \in Clients, r \in Rooms : Give(c, r)

Spec == Init /\ [][Next]_feedVars
============================================================================
