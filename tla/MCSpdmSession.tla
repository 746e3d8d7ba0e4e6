---------------------------- MODULE MCSpdmSession ----------------------------
(* Small heaps for TLC: the context is the largest block.                  *)
EXTENDS SpdmSession

MCSize == [context |-> 2, scratch |-> 1, chain |-> 1]
===============================================================================
