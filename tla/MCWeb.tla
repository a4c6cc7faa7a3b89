------------------------------- MODULE MCWeb --------------------------------
(* WebVault with one guest and one member. *)
EXTENDS WebVault
=============================================================================
