--------------------------- MODULE MCSocialOutbox ---------------------------
(* A small instance of SocialOutbox. *)
EXTENDS SocialOutbox, TLC

CONSTANTS c1, c2

\* One car is queued again, the other is in the same batch.
OnceAndAgain == c1 :> 2 @@ c2 :> 1
=============================================================================
