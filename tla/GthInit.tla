------------------------------- MODULE GthInit -------------------------------
(***************************************************************************)
(* Start-up of the network card's transceiver: two instances of GTHInit    *)
(* (gth_7series_init.py), one for each direction, wired up as the          *)
(* 1000BASE-X PHY does (v7_1000basex.py): the transmitter's instance       *)
(* resets the PLL and holds the receiver's in reset until it is done, and  *)
(* the PCS restarts the receiver's.  Xxuserrdy is not connected: the       *)
(* transceiver is told that its clocks run by the lock of an MMCM, held in *)
(* reset while the PLL is not locked (transmitter) or for cdr_lock_time    *)
(* cycles after the reset (receiver).  A step is one cycle of the system   *)
(* clock: every register takes the value its equation has in the state     *)
(* before.  PLL, MMCMs and transceiver are external and take their time.   *)
(***************************************************************************)
EXTENDS Integers, FiniteSets

CONSTANTS CDR_TIME,         \* cycles of cdr_lock_timer (1024)
          cdr_lock_time,    \* cycles rx_mmcm is held in reset (5000)
          WATCHDOG,         \* cycles of the watchdog (1 ms, 125 000)
          LOCK_TIME, MMCM_TIME, RESET_TIME,   \* cycles PLL, MMCM and a reset may take
          DROP_TIME,        \* cycles until lock and reset-done fall
          PulseBound,       \* resets and restarts from outside
          HangBound         \* starts of a transceiver that come to nothing

(* An external device does not answer sooner than its answer may fall.     *)
ASSUME GthAssumption ==
  /\ {CDR_TIME, cdr_lock_time, WATCHDOG, LOCK_TIME, MMCM_TIME, RESET_TIME, DROP_TIME} \subseteq Nat \ {0}
  /\ {PulseBound, HangBound} \subseteq Nat
  /\ DROP_TIME <= LOCK_TIME /\ DROP_TIME <= MMCM_TIME /\ DROP_TIME <= RESET_TIME

VARIABLES st,            \* [side -> state of the FSM]
          cdr, watchdog, \* [side -> count of the timer]
          lock, resetdone,       \* [side -> MultiReg, newest first]
          gtXxreset,     \* [side -> registered output]
          mmcm_reset,    \* [side -> tx_mmcm_reset, rx_mmcm_reset]
          cdr_lock_counter, cdr_locked,
          pll, mmcm, gt, \* the PLL, [side -> MMCM] and [side -> transceiver]
          reset, restart,    \* inputs: CSR reset of the PHY, ps_restart.o
          pulses, hangs, \* how many of each so far
          wasUp          \* history, [side -> the last start found it up]

fsm == <<st, cdr, watchdog, lock, resetdone, gtXxreset>>
phy == <<mmcm_reset, cdr_lock_counter, cdr_locked>>
vars == <<fsm, phy, pll, mmcm, gt, reset, restart, pulses, hangs, wasUp>>

Side == {"tx", "rx"}
Off == [ph |-> "off", k |-> 0]
Hung == [ph |-> "hung", k |-> 0]
Pair(x, y) == [s \in Side |-> IF s = "tx" THEN x ELSE y]
Both(x) == Pair(x, x)

Init ==
  /\ st = Both("POWER-DOWN") /\ cdr = Both(CDR_TIME) /\ watchdog = Both(WATCHDOG)
  /\ lock = Both(<<FALSE, FALSE>>) /\ resetdone = Both(<<FALSE, FALSE>>)
  /\ gtXxreset = Both(FALSE)
  /\ mmcm_reset = Both(TRUE) /\ cdr_lock_counter = 0 /\ cdr_locked = FALSE
  /\ pll = Off /\ mmcm = Both(Off) /\ gt = Both(Off)
  /\ reset = FALSE /\ restart = FALSE
  /\ pulses = 0 /\ hangs = 0 /\ wasUp = Both(FALSE)
-----------------------------------------------------------------------------
(* What is combinational.                                                  *)

done(s) == st[s] = "READY"
pllreset(s) == st[s] \in {"POWER-DOWN", "DRP"}
restart_in(s) == s = "rx" /\ restart
MutFsmReset(s) == restart_in(s)       \* the watchdog is not wired up

fsm_reset(s) == restart_in(s) \/ watchdog[s] = 0

(* ResetInserter around each instance: all of it but the MultiRegs.        *)
ModuleReset(s) == reset \/ (s = "rx" /\ ~done("tx"))

WatchdogWait(s) == ~fsm_reset(s) /\ ~done(s)

(* WaitTimer: counts down while it is told to wait and loads again if not. *)
Timer(wait, count, n) ==
  IF ~wait THEN n ELSE IF count = 0 THEN 0 ELSE count - 1

MutNextState(s) ==           \* plllock tested where Xxresetdone should be
  CASE st[s] = "POWER-DOWN" -> "DRP"
    [] st[s] = "DRP" -> "WAIT-PLL-RESET"
    [] st[s] = "WAIT-PLL-RESET" /\ lock[s][2] -> "WAIT-GTH-RESET"
    [] st[s] = "WAIT-GTH-RESET" /\ lock[s][2] -> "WAIT-CDR-LOCK"
    [] st[s] = "WAIT-CDR-LOCK" /\ cdr[s] = 0 -> "READY"
    [] st[s] = "READY" /\ restart_in(s) -> "POWER-DOWN"
    [] OTHER -> st[s]

(* The FSM.  drp_done is 1, and the PHY has buffer_enable, so that the     *)
(* states of the alignment are not reached.                                *)
NextState(s) ==
  CASE st[s] = "POWER-DOWN" -> "DRP"
    [] st[s] = "DRP" -> "WAIT-PLL-RESET"
    [] st[s] = "WAIT-PLL-RESET" /\ lock[s][2] -> "WAIT-GTH-RESET"
    [] st[s] = "WAIT-GTH-RESET" /\ resetdone[s][2] -> "WAIT-CDR-LOCK"
    [] st[s] = "WAIT-CDR-LOCK" /\ cdr[s] = 0 -> "READY"
    [] st[s] = "READY" /\ restart_in(s) -> "POWER-DOWN"
    [] OTHER -> st[s]

InReset(s) == st[s] \in {"POWER-DOWN", "DRP", "WAIT-PLL-RESET"}
-----------------------------------------------------------------------------
(* PLL, MMCM and transceiver (external): an output falls at most DROP_TIME *)
(* cycles after a reset pulse and rises DROP_TIME to n cycles after the    *)
(* reset is over and the device may run; but a start of a transceiver may  *)
(* also come to nothing until it is reset again.                           *)
High(d) == d.ph \in {"on", "falling"}
DeviceNext(d, rst, run, n, mayHang) ==
  CASE d.ph = "on" -> IF rst THEN {Off, [ph |-> "falling", k |-> 1]} ELSE {d}
    [] d.ph = "falling" -> {Off} \cup (IF d.k < DROP_TIME THEN {[d EXCEPT !.k = @ + 1]} ELSE {})
    [] d.ph = "hung" -> IF rst THEN {Off} ELSE {Hung}
    [] d.ph = "off" -> IF rst \/ ~run THEN {Off}
                       ELSE (IF d.k >= DROP_TIME THEN {[ph |-> "on", k |-> 0]} ELSE {})
                              \cup (IF d.k < n THEN {[d EXCEPT !.k = @ + 1]} ELSE {})
                              \cup (IF mayHang /\ d.k = 0 THEN {Hung} ELSE {})

Locked(d) == d.ph = "on"
PllNext == DeviceNext(pll, pllreset("tx"), TRUE, LOCK_TIME, FALSE)

(* An MMCM has its clock from the transceiver, and that from the PLL.      *)
MmcmNext(s) == DeviceNext(mmcm[s], mmcm_reset[s] \/ ~Locked(pll), TRUE, MMCM_TIME, FALSE)

(* Without a PLL or without TX/RXUSERRDY, which is the lock of the MMCM,   *)
(* a reset does not come to its end.                                       *)
GtNext(s) == DeviceNext(gt[s], gtXxreset[s], Locked(pll) /\ High(mmcm[s]), RESET_TIME,
                        hangs < HangBound)

(* A flip-flop takes the old or the new value of an output that is just    *)
(* changing.                                                               *)
Seen(d, e) == {High(d), High(e)}
-----------------------------------------------------------------------------
(* A cycle of the clock.                                                   *)

Registers(s) ==
  IF ModuleReset(s)
  THEN [st |-> "POWER-DOWN", cdr |-> CDR_TIME, watchdog |-> WATCHDOG, gtXxreset |-> FALSE]
  ELSE [st |-> IF fsm_reset(s) THEN "POWER-DOWN" ELSE NextState(s),
        cdr |-> Timer(st[s] = "WAIT-CDR-LOCK", cdr[s], CDR_TIME),
        watchdog |-> Timer(WatchdogWait(s), watchdog[s], WATCHDOG),
        gtXxreset |-> InReset(s)]

(* What the transceiver is given of its two clocks (v7_1000basex.py).      *)
CdrLock ==
  IF gtXxreset["rx"] THEN [counter |-> 0, locked |-> FALSE]
  ELSE IF cdr_lock_counter # cdr_lock_time
       THEN [counter |-> cdr_lock_counter + 1, locked |-> cdr_locked]
       ELSE [counter |-> cdr_lock_counter, locked |-> TRUE]

MutClocks ==                 \* the receiver's MMCM waits for the PLL only
  /\ cdr_lock_counter' = CdrLock.counter /\ cdr_locked' = CdrLock.locked
  /\ \E l \in Seen(pll, pll') : mmcm_reset' = Both(~l)

Clocks ==
  /\ cdr_lock_counter' = CdrLock.counter /\ cdr_locked' = CdrLock.locked
  /\ \E l \in Seen(pll, pll') : mmcm_reset' = Pair(~l, ~cdr_locked)

Devices ==
  /\ pll' \in PllNext
  /\ \E tx \in MmcmNext("tx"), rx \in MmcmNext("rx") : mmcm' = Pair(tx, rx)
  /\ \E tx \in GtNext("tx"), rx \in GtNext("rx") : gt' = Pair(tx, rx)
  /\ hangs' = hangs + Cardinality({s \in Side : gt'[s] = Hung /\ gt[s] # Hung})
  /\ hangs' <= HangBound

Cycle ==
  /\ st' = [s \in Side |-> Registers(s).st]
  /\ cdr' = [s \in Side |-> Registers(s).cdr]
  /\ watchdog' = [s \in Side |-> Registers(s).watchdog]
  /\ gtXxreset' = [s \in Side |-> Registers(s).gtXxreset]
  /\ Devices /\ Clocks
  /\ \E tx \in Seen(pll, pll'), rx \in Seen(pll, pll') :
       lock' = [s \in Side |-> <<Pair(tx, rx)[s], lock[s][1]>>]
  /\ \E tx \in Seen(gt["tx"], gt'["tx"]), rx \in Seen(gt["rx"], gt'["rx"]) :
       resetdone' = [s \in Side |-> <<Pair(tx, rx)[s], resetdone[s][1]>>]
  /\ wasUp' = [s \in Side |-> IF st[s] = "DRP" THEN High(gt[s]) ELSE wasUp[s]]

(* The inputs of the next cycle.                                           *)
Inputs ==
  \E r \in BOOLEAN, p \in BOOLEAN :
    /\ reset' = r /\ restart' = p
    /\ pulses' = pulses + (IF r \/ p THEN 1 ELSE 0)
    /\ pulses' <= PulseBound

Next == Cycle /\ Inputs

Spec == Init /\ [][Next]_vars

(* The clock runs.                                                         *)
FairSpec == Spec /\ WF_vars(Next)
-----------------------------------------------------------------------------
(* A start of a transceiver that was down is ready only when the PLL is    *)
(* locked and the transceiver out of its reset, however the delays fall.   *)
(* One that found it up may not be: lock and reset-done are seen two       *)
(* cycles late and the reset leaves the FSM a cycle late, so that it takes *)
(* the answer to the start before for the one it waits for.                *)
ReadyIsUp == \A s \in Side : done(s) /\ ~wasUp[s] => Locked(pll) /\ Locked(gt[s])

(* A receiver that is ready and up runs on a recovered clock, however it   *)
(* became ready: the FSM's own timer is shorter than cdr_lock_time, but    *)
(* the transceiver is not out of its reset before the MMCM has locked, and *)
(* a lock left over from before the reset falls in time.                   *)
ReadyIsRecovered == done("rx") /\ Locked(gt["rx"]) => cdr_locked /\ Locked(mmcm["rx"])

(* The link comes up and stays up, however resets, restarts and starts     *)
(* that came to nothing fell before: the watchdog tries again, never so    *)
(* early that it undoes a start that was about to succeed, and what was    *)
(* called ready too early comes up later, unless just that start came to   *)
(* nothing, which no watchdog then notices.                                *)
Up(s) == Locked(pll) /\ (Locked(gt[s]) \/ (gt[s] = Hung /\ wasUp[s]))
LinkComesUp == <>[](\A s \in Side : done(s) /\ Up(s))
=============================================================================
