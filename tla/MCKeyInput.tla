------------------------------ MODULE MCKeyInput ------------------------------
(* A buffer of three bytes, two letter keys, backspace, and all modifiers.  *)
EXTENDS KeyInput, TLC

CONSTANTS LShift, RShift, Alt, Caps, KeyA, KeyB, BackspaceKey, a, A, b, at

MCRegular == KeyA :> a @@ KeyB :> b @@ BackspaceKey :> Backspace
MCShifted == KeyA :> A @@ KeyB :> b @@ BackspaceKey :> Backspace
MCAltgram == KeyA :> Nul @@ KeyB :> at @@ BackspaceKey :> Backspace
==============================================================================
