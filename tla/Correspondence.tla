--------------------------- MODULE Correspondence ----------------------------
(* What a client and the dealers write to each other: the requests that come  *)
(* in (Intake) and the deal they work on (DealRoom), served by the same       *)
(* process and told of in the same inboxes.                                   *)
EXTENDS DealRoom, Intake

vars == <<inbox, request, served, room, rows>>

Init == InboxInit /\ RoomInit /\ IntakeInit

Next ==
    \/ RoomNext /\ UNCHANGED rows
    \/ IntakeNext /\ UNCHANGED room
    \/ Reading /\ UNCHANGED <<room, rows>>
    \/ \E r \in Requests : Abandon(r) /\ UNCHANGED <<room, rows>>

Spec == Init /\ [][Next]_vars

-----------------------------------------------------------------------------
TypeOK ==
    /\ RoomTypeOK /\ IntakeTypeOK
    /\ served \in 0 .. MaxServed
    /\ \A n \in inbox : n.to \in People /\ n.read \in BOOLEAN
=============================================================================
