--------------------------- MODULE MCSubscription ---------------------------
(***************************************************************************)
(* One business with one gateway invoice and a wallet that pays for one    *)
(* month but not for two.  The time it paid for is just over: the dunning  *)
(* job can put it on PAST_DUE at once and, a unit of time later when the   *)
(* grace is over, on EXPIRED, and so it can a month the landlord gave.     *)
(***************************************************************************)
EXTENDS Subscription
=============================================================================
