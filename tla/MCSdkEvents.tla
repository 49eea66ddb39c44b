---------------------------- MODULE MCSdkEvents ----------------------------
(* SdkEvents with two iterators and two listeners, both SDKs. *)
EXTENDS SdkEvents, TLC

CONSTANTS i1, i2, l1, l2
MCIterators == {i1, i2}
MCListeners == {l1, l2}
=============================================================================
