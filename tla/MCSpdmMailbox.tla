---------------------------- MODULE MCSpdmMailbox ----------------------------
(* Instances of SpdmMailbox for TLC.                                       *)
EXTENDS SpdmMailbox
===============================================================================
