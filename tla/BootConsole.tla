----------------------------- MODULE BootConsole -----------------------------
(***************************************************************************)
(* The BIOS console as far as booting goes: the boot commands of BootImage *)
(* and the address commands of NetAddr, one after another.  netboot starts *)
(* the UDP stack with the addresses set so far, and a command that failed  *)
(* leaves its addresses, its files and its RAM to the next one.            *)
(***************************************************************************)
EXTENDS BootImage, NetAddr

consoleVars == <<vars, addresses, last>>

ConsoleInit == Init /\ NetInit

(* The commands that set an address return at once.                        *)
AddressCommand ==
  /\ phase = "idle" /\ calls < CallBound
  /\ calls' = calls + 1
  /\ set_address
  /\ UNCHANGED <<phase, step, dev, named, disk, document, i, found, job, flash, ram, touched, jump>>

BootCommand ==
  \/ netboot /\ udp_start
  \/ /\ sdcardboot \/ sataboot \/ flashboot
     /\ last' = [what |-> "none"]
     /\ UNCHANGED addresses

ConsoleWork == Work /\ UNCHANGED <<addresses, last>>

(* boot() does not return; the booted program is not the BIOS's any more.  *)
Booted == phase = "booted" /\ UNCHANGED consoleVars
Ended == phase = "idle" /\ calls = CallBound /\ UNCHANGED consoleVars

ConsoleNext == AddressCommand \/ BootCommand \/ ConsoleWork \/ Booted \/ Ended

(* The BIOS runs to the end of what it was told to do: FATFS and TFTP give *)
(* up by themselves.                                                       *)
ConsoleSpec == ConsoleInit /\ [][ConsoleNext]_consoleVars /\ WF_consoleVars(ConsoleWork)
=============================================================================
