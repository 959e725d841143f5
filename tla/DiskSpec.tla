------------------------------ MODULE DiskSpec ------------------------------
(***************************************************************************)
(* What bdev_read promises the file systems: it returns 0 only when the    *)
(* device has filled the whole buffer.  Lie stands for the one operation   *)
(* that does not keep the promise.                                         *)
(***************************************************************************)
EXTENDS Integers

CONSTANT Sizes      (* the sizes of reads *)

VARIABLES
  want,      (* the bytes asked for                                         *)
  got,       (* the bytes the device has given                              *)
  answer     (* "pending" during a read, then "ok" or "error"               *)

Init == want = 0 /\ got = 0 /\ answer = "none"

Ask ==
  /\ answer # "pending"
  /\ want' \in Sizes /\ got' = 0
  /\ answer' = "pending"

Transfer ==
  /\ answer = "pending"
  /\ got' \in got + 1 .. want
  /\ UNCHANGED <<want, answer>>

Answer ==
  /\ answer = "pending"
  /\ \/ answer' = "ok" /\ got = want
     \/ answer' = "error"
  /\ UNCHANGED <<want, got>>

Lie ==
  /\ answer # "pending"
  /\ want' \in Sizes /\ got' = 0
  /\ answer' = "unread"

Next == Ask \/ Transfer \/ Answer \/ Lie

Spec == Init /\ [][Next]_<<want, got, answer>>
==============================================================================
