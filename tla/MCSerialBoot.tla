----------------------------- MODULE MCSerialBoot -----------------------------
(* Instances of SerialBoot for TLC.                                        *)
EXTENDS SerialBoot

(* 'D' comes twice, as it does in the real string.                         *)
MCMagic == <<1, 2, 3, 2>>

Frame(c, n) == [cmd |-> c, payload_length |-> n]

(* An image of two chunks; an upload that is aborted; a command the BIOS   *)
(* does not know.                                                          *)
MCPrograms == {<<Frame("LOAD", 3), Frame("LOAD", 3), Frame("JUMP", 1)>>,
               <<Frame("LOAD", 3), Frame("ABORT", 1)>>,
               <<Frame("LOAD", 3), Frame("other", 1), Frame("JUMP", 1)>>}

(* An abort whose frame has no payload.                                    *)
MCEmptyAbort == {<<Frame("ABORT", 0)>>}
===============================================================================
