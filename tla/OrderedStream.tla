--------------------------- MODULE OrderedStream ---------------------------
(***************************************************************************)
(* What a reliable-ordered RakNet channel promises its users, with no      *)
(* datagrams, acknowledgements or fragments in sight: on every ordering    *)
(* channel the receiver is handed the payloads in the order in which they  *)
(* were sent, each exactly once and unchanged, and every payload sent is   *)
(* handed over in the end.                                                 *)
(***************************************************************************)
EXTENDS Naturals, Sequences

CONSTANTS
    Channel,    \* the ordering channels in use
    Payload     \* what is sent

VARIABLES
    sent,       \* sent[c]: every payload sent on channel c, oldest first
    delivered   \* delivered[c]: the payloads handed to the receiving user

vars == <<sent, delivered>>

Init ==
    /\ sent = [c \in Channel |-> <<>>]
    /\ delivered = [c \in Channel |-> <<>>]

Send(c, p) ==
    /\ sent' = [sent EXCEPT ![c] = Append(@, p)]
    /\ UNCHANGED delivered

(* Deliver(c, n) hands over everything of channel c up to the nth payload: *)
(* one arrival may release a run of payloads that waited for it.           *)
Deliver(c, n) ==
    /\ n \in (Len(delivered[c]) + 1) .. Len(sent[c])
    /\ delivered' = [delivered EXCEPT ![c] = SubSeq(sent[c], 1, n)]
    /\ UNCHANGED sent

DeliverSome(c) == \E n \in 1 .. Len(sent[c]) : Deliver(c, n)

Next ==
    \E c \in Channel :
        \/ \E p \in Payload : Send(c, p)
        \/ DeliverSome(c)

Safety == Init /\ [][Next]_vars

Spec == Safety /\ \A c \in Channel : WF_vars(DeliverSome(c))
=============================================================================
