---------------------------- MODULE MCHandlerList ----------------------------
(* Three handlers on two vectors.                                          *)
EXTENDS HandlerList
==============================================================================
