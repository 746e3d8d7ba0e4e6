----------------------------- MODULE GthInitProofs ----------------------------
(***************************************************************************)
(* Theorems about GthInit, for every length of the timers, of the          *)
(* watchdog and of the times PLL, MMCMs and transceiver take, and every    *)
(* number of resets, restarts and starts that come to nothing.             *)
(***************************************************************************)
EXTENDS GthInit, TLAPS

States == {"POWER-DOWN", "DRP", "WAIT-PLL-RESET", "WAIT-GTH-RESET", "WAIT-CDR-LOCK", "READY"}
Device == [ph : {"off", "on", "falling", "hung"}, k : Nat]
Timely(d) == d.ph = "falling" => d.k \in 1 .. DROP_TIME

Types ==
  /\ st \in [Side -> States]
  /\ cdr \in [Side -> 0 .. CDR_TIME] /\ watchdog \in [Side -> 0 .. WATCHDOG]
  /\ gtXxreset \in [Side -> BOOLEAN]
  /\ pll \in Device /\ Timely(pll)
  /\ mmcm \in [Side -> Device] /\ \A s \in Side : Timely(mmcm[s])
  /\ gt \in [Side -> Device] /\ \A s \in Side : Timely(gt[s])

(* The receiver has left its reset only on top of a transmitter that is    *)
(* ready for good, or lost it to the watchdog in this very cycle.          *)
OnTop ==
  /\ st["rx"] \notin {"POWER-DOWN", "DRP"} => done("tx") /\ watchdog["tx"] > 0
  /\ st["rx"] = "DRP" /\ done("tx") => watchdog["tx"] > 0

(* What a start that found the transceiver down has seen so far.           *)
Fresh(s) ==
  /\ st[s] \in {"DRP", "WAIT-PLL-RESET"} => gtXxreset[s]
  /\ st[s] = "WAIT-PLL-RESET" /\ ~wasUp[s] => gt[s].ph = "off" /\ ~resetdone[s][1]
  /\ st[s] = "WAIT-GTH-RESET" /\ ~wasUp[s] =>
       /\ gt[s].ph # "falling" /\ (gtXxreset[s] => gt[s].ph = "off")
       /\ resetdone[s][1] \/ resetdone[s][2] => gt[s].ph = "on"
       /\ gt[s].ph = "on" => pll.ph = "on"
  /\ st[s] \in {"WAIT-CDR-LOCK", "READY"} =>
       ~gtXxreset[s] /\ (~wasUp[s] => gt[s].ph = "on" /\ pll.ph = "on")

(* From the reset on the receiver's MMCM is down until the clock recovery  *)
(* has had its time, and until it is up the receiver is not, unless it     *)
(* takes the MMCM's lock of before for the new one: it has less time for   *)
(* that than a reset takes.                                                *)
Recovered ==
  LET m == mmcm["rx"]
      g == gt["rx"]
  IN /\ st["rx"] = "WAIT-PLL-RESET" => ~cdr_locked
     /\ st["rx"] = "WAIT-GTH-RESET" /\ gtXxreset["rx"] => mmcm_reset["rx"] /\ ~cdr_locked
     /\ st["rx"] \in {"WAIT-GTH-RESET", "WAIT-CDR-LOCK", "READY"} /\ ~gtXxreset["rx"] =>
          /\ ~mmcm_reset["rx"] => cdr_locked
          /\ m.ph = "on" => ~mmcm_reset["rx"] /\ cdr_locked /\ pll.ph = "on"
          /\ m.ph = "falling" /\ g.ph = "off" => g.k < m.k
          /\ g.ph = "on" => m.ph = "on"

GthInv == Types /\ OnTop /\ (\A s \in Side : Fresh(s)) /\ Recovered

-------------------------------------------------------------------------------
(* The PLL, the MMCMs and the transceivers.                                *)

(* What the assumption on the constants gives.                             *)
LEMMA Constants ==
  CDR_TIME \in Nat \ {0} /\ WATCHDOG \in Nat \ {0} /\ DROP_TIME \in Nat \ {0}
  BY GthAssumption

(* What a device does in a cycle.                                          *)
DeviceDoes(d, e, rst, run) ==
  /\ e \in Device /\ Timely(e)
  /\ d.ph = "on" => IF rst THEN e.ph \in {"off", "falling"} ELSE e.ph = "on"
  /\ d.ph = "falling" => e.ph \in {"off", "falling"} /\ (e.ph = "falling" => e.k = d.k + 1)
  /\ d.ph = "hung" => IF rst THEN e.ph = "off" ELSE e.ph = "hung"
  /\ d.ph = "off" => /\ rst \/ ~run => e.ph = "off"
                     /\ e.ph = "off" => e.k = 0 \/ e.k = d.k + 1
                     /\ e.ph = "on" => d.k >= DROP_TIME
                     /\ e.ph # "falling"
  /\ (d.ph # "off" \/ rst \/ ~run) /\ e.ph = "off" => e.k = 0

(* What a device may do in a cycle, phase by phase.                        *)
LEMMA DeviceStep ==
  ASSUME NEW d \in Device, Timely(d), NEW n, NEW rst, NEW run, NEW mayHang,
         NEW e \in DeviceNext(d, rst, run, n, mayHang)
  PROVE  DeviceDoes(d, e, rst, run)
  <1> USE DEF DeviceDoes
  <1>1. /\ Off \in Device /\ Timely(Off) /\ Off.ph = "off" /\ Off.k = 0
        /\ Hung \in Device /\ Timely(Hung) /\ Hung.ph = "hung"
    BY DEF Off, Hung, Device, Timely
  <1>2. d.k \in Nat
    BY DEF Device
  <1>3. CASE d.ph = "on"
    <2>1. CASE rst
      <3>1. e = Off \/ e = [ph |-> "falling", k |-> 1]
        BY <1>3, <2>1 DEF DeviceNext
      <3>2. CASE e = [ph |-> "falling", k |-> 1]
        BY <1>3, <2>1, <3>2, Constants DEF Device, Timely
      <3> QED
        BY <1>1, <1>3, <2>1, <3>1, <3>2
    <2>2. CASE ~rst
      BY <1>3, <2>2 DEF DeviceNext
    <2> QED
      BY <2>1, <2>2
  <1>4. CASE d.ph = "falling"
    <2>1. e = Off \/ (d.k < DROP_TIME /\ e = [d EXCEPT !.k = @ + 1])
      BY <1>4 DEF DeviceNext
    <2>2. CASE d.k < DROP_TIME /\ e = [d EXCEPT !.k = @ + 1]
      <3>1. e.ph = "falling" /\ e.k = d.k + 1 /\ e \in Device
        BY <1>4, <2>2 DEF Device
      <3> QED
        BY <1>2, <1>4, <2>2, <3>1, Constants DEF Timely
    <2> QED
      BY <1>1, <1>4, <2>1, <2>2
  <1>5. CASE d.ph = "hung"
    BY <1>1, <1>5 DEF DeviceNext
  <1>6. CASE d.ph = "off" /\ (rst \/ ~run)
    BY <1>1, <1>6 DEF DeviceNext
  <1>7. CASE d.ph = "off" /\ ~(rst \/ ~run)
    <2>1. \/ d.k >= DROP_TIME /\ e = [ph |-> "on", k |-> 0]
          \/ e = [d EXCEPT !.k = @ + 1]
          \/ e = Hung
      BY <1>7 DEF DeviceNext
    <2>2. CASE d.k >= DROP_TIME /\ e = [ph |-> "on", k |-> 0]
      BY <1>7, <2>2 DEF Device, Timely
    <2>3. CASE e = [d EXCEPT !.k = @ + 1]
      <3>1. e.ph = "off" /\ e.k = d.k + 1 /\ e \in Device
        BY <1>7, <2>3 DEF Device
      <3> QED
        BY <1>7, <3>1 DEF Timely
    <2>4. CASE e = Hung
      BY <1>1, <1>7, <2>4
    <2> QED
      BY <2>1, <2>2, <2>3, <2>4
  <1> QED
    BY <1>3, <1>4, <1>5, <1>6, <1>7 DEF Device

(* All devices in one cycle.                                               *)
LEMMA DevicesStep ==
  ASSUME Types, Cycle
  PROVE  /\ DeviceDoes(pll, pll', pllreset("tx"), TRUE)
         /\ \A s \in Side :
              /\ DeviceDoes(mmcm[s], mmcm'[s], mmcm_reset[s] \/ ~Locked(pll), TRUE)
              /\ DeviceDoes(gt[s], gt'[s], gtXxreset[s], Locked(pll) /\ High(mmcm[s]))
         /\ mmcm' = [s \in Side |-> mmcm'[s]] /\ gt' = [s \in Side |-> gt'[s]]
  <1>1. pll' \in PllNext
    BY DEF Cycle, Devices
  <1>2. /\ \A s \in Side : mmcm'[s] \in MmcmNext(s)
        /\ mmcm' = [s \in Side |-> mmcm'[s]]
    BY DEF Cycle, Devices, Pair, Side
  <1>3. /\ \A s \in Side : gt'[s] \in GtNext(s)
        /\ gt' = [s \in Side |-> gt'[s]]
    BY DEF Cycle, Devices, Pair, Side
  <1>4. /\ pll \in Device /\ Timely(pll)
        /\ \A s \in Side : mmcm[s] \in Device /\ Timely(mmcm[s]) /\ gt[s] \in Device /\ Timely(gt[s])
    BY DEF Types
  <1>5. DeviceDoes(pll, pll', pllreset("tx"), TRUE)
    BY <1>1, <1>4, DeviceStep, Zenon DEF PllNext
  <1>6. ASSUME NEW s \in Side
        PROVE  DeviceDoes(mmcm[s], mmcm'[s], mmcm_reset[s] \/ ~Locked(pll), TRUE)
    BY <1>2, <1>4, DeviceStep, Zenon DEF MmcmNext
  <1>7. ASSUME NEW s \in Side
        PROVE  DeviceDoes(gt[s], gt'[s], gtXxreset[s], Locked(pll) /\ High(mmcm[s]))
    BY <1>3, <1>4, DeviceStep, Zenon DEF GtNext
  <1> QED
    BY <1>2, <1>3, <1>5, <1>6, <1>7

(* What an FSM sees of its transceiver after a cycle.                      *)
LEMMA SeenStep ==
  ASSUME Cycle, NEW s \in Side
  PROVE  /\ resetdone'[s][1] = High(gt[s]) \/ resetdone'[s][1] = High(gt[s])'
         /\ resetdone'[s][2] = resetdone[s][1]
  BY DEF Cycle, Seen, Pair, Side, High

-------------------------------------------------------------------------------
(* The state machines.                                                     *)

(* The registers of one initialisation after a cycle.                      *)
LEMMA RegistersStep ==
  ASSUME Types, Cycle, NEW s \in Side
  PROVE  /\ ModuleReset(s) => /\ st'[s] = "POWER-DOWN" /\ cdr'[s] = CDR_TIME
                              /\ watchdog'[s] = WATCHDOG
                              /\ gtXxreset'[s] = FALSE
         /\ ~ModuleReset(s) =>
              /\ st'[s] = IF fsm_reset(s) THEN "POWER-DOWN" ELSE NextState(s)
              /\ cdr'[s] = Timer(st[s] = "WAIT-CDR-LOCK", cdr[s], CDR_TIME)
              /\ watchdog'[s] = Timer(WatchdogWait(s), watchdog[s], WATCHDOG)
              /\ gtXxreset'[s] = InReset(s)
  BY DEF Cycle, Registers

(* The successor of each state of the FSM.                                 *)
LEMMA NextStateType ==
  ASSUME Types, NEW s \in Side
  PROVE  /\ NextState(s) \in States
         /\ st[s] = "POWER-DOWN" => NextState(s) = "DRP"
         /\ st[s] = "DRP" => NextState(s) = "WAIT-PLL-RESET"
         /\ st[s] = "WAIT-PLL-RESET" => NextState(s) \in {"WAIT-PLL-RESET", "WAIT-GTH-RESET"}
         /\ st[s] = "WAIT-GTH-RESET" => NextState(s) \in {"WAIT-GTH-RESET", "WAIT-CDR-LOCK"}
         /\ st[s] = "WAIT-CDR-LOCK" => NextState(s) = IF cdr[s] = 0 THEN "READY" ELSE "WAIT-CDR-LOCK"
         /\ st[s] = "READY" => NextState(s) = IF restart_in(s) THEN "POWER-DOWN" ELSE "READY"
  <1>1. st[s] \in States
    BY DEF Types
  <1> QED
    BY <1>1 DEF NextState, States

(* A clock cycle keeps the types.                                          *)
LEMMA TypesStep ==
  ASSUME Types, Cycle
  PROVE  Types'
  <1>1. /\ st' = [s \in Side |-> st'[s]]
        /\ cdr' = [s \in Side |-> cdr'[s]] /\ watchdog' = [s \in Side |-> watchdog'[s]]
        /\ gtXxreset' = [s \in Side |-> gtXxreset'[s]]
    BY DEF Cycle
  <1>2. ASSUME NEW s \in Side
        PROVE  /\ st'[s] \in States /\ cdr'[s] \in 0 .. CDR_TIME /\ watchdog'[s] \in 0 .. WATCHDOG
               /\ gtXxreset'[s] \in BOOLEAN
    <2>1. cdr[s] \in 0 .. CDR_TIME /\ watchdog[s] \in 0 .. WATCHDOG
      BY DEF Types
    <2>2. CASE ModuleReset(s)
      <3>1. /\ st'[s] = "POWER-DOWN" /\ cdr'[s] = CDR_TIME /\ watchdog'[s] = WATCHDOG
            /\ gtXxreset'[s] = FALSE
        BY <2>2, RegistersStep
      <3>2. CDR_TIME \in 0 .. CDR_TIME /\ WATCHDOG \in 0 .. WATCHDOG
        BY Constants
      <3>3. "POWER-DOWN" \in States
        BY DEF States
      <3> QED
        BY <3>1, <3>2, <3>3, Zenon
    <2>3. CASE ~ModuleReset(s)
      <3>1. st'[s] \in States
        BY <2>3, RegistersStep, NextStateType DEF States
      <3>2. cdr'[s] \in 0 .. CDR_TIME
        <4>1. cdr'[s] = Timer(st[s] = "WAIT-CDR-LOCK", cdr[s], CDR_TIME)
          BY <2>3, RegistersStep, Zenon
        <4>2. cdr'[s] \in {CDR_TIME, 0} \/ (cdr'[s] = cdr[s] - 1 /\ cdr[s] # 0)
          BY <4>1 DEF Timer
        <4> QED
          BY <2>1, <4>2, Constants
      <3>3. watchdog'[s] \in 0 .. WATCHDOG
        <4>1. watchdog'[s] = Timer(WatchdogWait(s), watchdog[s], WATCHDOG)
          BY <2>3, RegistersStep, Zenon
        <4>2. watchdog'[s] \in {WATCHDOG, 0} \/ (watchdog'[s] = watchdog[s] - 1 /\ watchdog[s] # 0)
          BY <4>1 DEF Timer
        <4> QED
          BY <2>1, <4>2, Constants
      <3>4. gtXxreset'[s] \in BOOLEAN
        <4>1. gtXxreset'[s] = InReset(s)
          BY <2>3, RegistersStep, Zenon
        <4> QED
          BY <4>1 DEF InReset
      <3> QED
        BY <3>1, <3>2, <3>3, <3>4
    <2> QED
      BY <2>2, <2>3
  <1>3. \A s \in Side : /\ gt'[s] \in Device /\ Timely(gt'[s])
                        /\ mmcm'[s] \in Device /\ Timely(mmcm'[s])
    BY DevicesStep DEF DeviceDoes
  <1>4. pll' \in Device /\ Timely(pll')
    BY DevicesStep DEF DeviceDoes
  <1>5. st' \in [Side -> States] /\ gtXxreset' \in [Side -> BOOLEAN]
    BY <1>1, <1>2
  <1>6. cdr' \in [Side -> 0 .. CDR_TIME] /\ watchdog' \in [Side -> 0 .. WATCHDOG]
    BY <1>1, <1>2
  <1>7. gt' \in [Side -> Device] /\ mmcm' \in [Side -> Device]
    BY <1>3, DevicesStep
  <1>8. (\A s \in Side : Timely(gt[s]) /\ Timely(mmcm[s]))'
    BY <1>3 DEF Timely
  <1> QED
    BY <1>4, <1>5, <1>6, <1>7, <1>8 DEF Types, Timely

(* A transmitter that is ready and whose watchdog has not run out stays    *)
(* so, unless the whole module is reset.                                   *)
LEMMA ReadyStays ==
  ASSUME Types, Cycle, done("tx"), ~reset, watchdog["tx"] > 0
  PROVE  done("tx")' /\ watchdog'["tx"] = WATCHDOG
  <1>1. ~ModuleReset("tx") /\ ~fsm_reset("tx") /\ ~restart_in("tx") /\ ~WatchdogWait("tx")
    BY DEF ModuleReset, fsm_reset, restart_in, WatchdogWait, Types, Side
  <1>2. st'["tx"] = "READY"
    BY <1>1, RegistersStep, NextStateType DEF Side, done
  <1> QED
    BY <1>1, <1>2, RegistersStep DEF Side, done, Timer

(* A transmitter that is ready now and was so a cycle ago has its watchdog *)
(* loaded.                                                                 *)
LEMMA OnTopStep ==
  ASSUME Types, OnTop, Cycle
  PROVE  OnTop'
  <1> USE DEF Side
  <1>1. ASSUME st'["rx"] # "POWER-DOWN"
        PROVE  ~reset /\ done("tx") /\ ~fsm_reset("rx") /\ st'["rx"] = NextState("rx")
    BY <1>1, RegistersStep DEF ModuleReset
  <1>2. WATCHDOG > 0
    BY Constants
  <1>3. ASSUME st'["rx"] \notin {"POWER-DOWN", "DRP"}
        PROVE  done("tx")' /\ watchdog'["tx"] > 0
    <2>1. st["rx"] # "POWER-DOWN"
      BY <1>1, <1>3, NextStateType
    <2>2. watchdog["tx"] > 0
      BY <1>1, <1>3, <2>1 DEF OnTop
    <2> QED
      BY <1>1, <1>2, <1>3, <2>2, ReadyStays
  <1>4. ASSUME st'["rx"] = "DRP", done("tx")'
        PROVE  watchdog'["tx"] > 0
    <2>1. ~ModuleReset("tx") /\ ~WatchdogWait("tx")
      BY <1>1, <1>4 DEF ModuleReset, WatchdogWait
    <2> QED
      BY <1>2, <2>1, RegistersStep DEF Timer
  <1> QED
    BY <1>3, <1>4 DEF OnTop, done

(* Nothing resets the PLL under an FSM that is past its own reset of it.   *)
LEMMA PllKept ==
  ASSUME Types, OnTop, Cycle, NEW s \in Side, st[s] \notin {"POWER-DOWN", "DRP"}
  PROVE  pll.ph = "on" => pll'.ph = "on"
  <1>1. ~pllreset("tx")
    BY DEF OnTop, done, pllreset, Side
  <1> QED
    BY <1>1, DevicesStep DEF DeviceDoes

(* What a start that found the transceiver down sees stays in step with    *)
(* the transceiver, whatever takes the FSM to its next state.              *)
LEMMA FreshStep ==
  ASSUME GthInv, Cycle, NEW s \in Side
  PROVE  Fresh(s)'
  <1>1. Types /\ OnTop /\ Fresh(s)
    BY DEF GthInv
  <1>2. CASE st'[s] = "POWER-DOWN"
    BY <1>2 DEF Fresh
  <1>3. CASE st'[s] # "POWER-DOWN"
    <2>1. ~ModuleReset(s) /\ ~fsm_reset(s) /\ st'[s] = NextState(s) /\ gtXxreset'[s] = InReset(s)
      BY <1>1, <1>3, RegistersStep
    <2>2. st[s] \in States /\ gt[s] \in Device
      BY <1>1 DEF Types
    <2>3. DeviceDoes(gt[s], gt'[s], gtXxreset[s], Locked(pll) /\ High(mmcm[s]))
      BY <1>1, DevicesStep
    <2>4. /\ resetdone'[s][1] = High(gt[s]) \/ resetdone'[s][1] = High(gt'[s])
          /\ resetdone'[s][2] = resetdone[s][1]
      BY SeenStep DEF High
    <2>5. /\ st[s] = "DRP" => wasUp'[s] = High(gt[s])
          /\ st[s] # "DRP" => wasUp'[s] = wasUp[s]
      BY DEF Cycle
    <2>6. CASE st[s] = "POWER-DOWN"
      <3>1. st'[s] = "DRP" /\ gtXxreset'[s]
        BY <1>1, <2>1, <2>6, NextStateType DEF InReset
      <3> QED
        BY <3>1 DEF Fresh
    <2>7. CASE st[s] = "DRP"
      <3>1. st'[s] = "WAIT-PLL-RESET" /\ gtXxreset'[s] /\ gtXxreset[s]
        BY <1>1, <2>1, <2>7, NextStateType DEF InReset, Fresh
      <3>2. ~wasUp'[s] => gt'[s].ph = "off" /\ ~resetdone'[s][1]
        BY <2>2, <2>3, <2>4, <2>5, <2>7, <3>1 DEF DeviceDoes, High, Device
      <3> QED
        BY <3>1, <3>2 DEF Fresh
    <2>8. CASE st[s] = "WAIT-PLL-RESET"
      <3>1. /\ st'[s] \in {"WAIT-PLL-RESET", "WAIT-GTH-RESET"}
            /\ gtXxreset'[s] /\ gtXxreset[s] /\ wasUp'[s] = wasUp[s]
        BY <1>1, <2>1, <2>5, <2>8, NextStateType DEF InReset, Fresh
      <3>2. ~wasUp[s] => gt'[s].ph = "off" /\ ~resetdone'[s][1] /\ ~resetdone'[s][2]
        BY <1>1, <2>3, <2>4, <2>8, <3>1 DEF DeviceDoes, High, Fresh
      <3> QED
        BY <3>1, <3>2 DEF Fresh
    <2>9. CASE st[s] = "WAIT-GTH-RESET"
      <3>1. /\ st'[s] \in {"WAIT-GTH-RESET", "WAIT-CDR-LOCK"}
            /\ ~gtXxreset'[s] /\ wasUp'[s] = wasUp[s]
            /\ st'[s] = "WAIT-CDR-LOCK" => resetdone[s][2]
        BY <1>1, <2>1, <2>5, <2>9, NextStateType DEF InReset, NextState
      <3>2. ASSUME ~wasUp[s]
            PROVE  /\ gt'[s].ph # "falling"
                   /\ resetdone'[s][1] \/ resetdone'[s][2] => gt'[s].ph = "on"
                   /\ gt'[s].ph = "on" => pll'.ph = "on"
                   /\ resetdone[s][2] => gt'[s].ph = "on" /\ pll'.ph = "on"
        <4>1. /\ gt[s].ph # "falling" /\ (gtXxreset[s] => gt[s].ph = "off")
              /\ resetdone[s][1] \/ resetdone[s][2] => gt[s].ph = "on"
              /\ gt[s].ph = "on" => pll.ph = "on"
          BY <1>1, <2>9, <3>2 DEF Fresh
        <4>2. pll.ph = "on" => pll'.ph = "on"
          BY <1>1, <2>9, PllKept
        <4>3. gt[s].ph = "on" => gt'[s].ph = "on"
          BY <2>3, <4>1 DEF DeviceDoes
        <4>4. gt'[s].ph # "falling" /\ (gt'[s].ph = "on" => pll.ph = "on")
          BY <2>2, <2>3, <4>1 DEF DeviceDoes, Device, Locked
        <4>5. resetdone'[s][1] => gt'[s].ph = "on"
          BY <2>4, <4>1, <4>3, <4>4 DEF High
        <4> QED
          BY <2>4, <4>1, <4>2, <4>3, <4>4, <4>5
      <3> QED
        BY <3>1, <3>2 DEF Fresh
    <2>10. CASE st[s] \in {"WAIT-CDR-LOCK", "READY"}
      <3>1. /\ st'[s] \in {"WAIT-CDR-LOCK", "READY"} /\ ~gtXxreset'[s] /\ ~gtXxreset[s]
            /\ wasUp'[s] = wasUp[s]
        BY <1>1, <1>3, <2>1, <2>5, <2>10, NextStateType DEF InReset, Fresh
      <3>2. ~wasUp[s] => gt'[s].ph = "on" /\ pll'.ph = "on"
        BY <1>1, <2>3, <2>10, <3>1, PllKept DEF DeviceDoes, Fresh
      <3> QED
        BY <3>1, <3>2 DEF Fresh
    <2> QED
      BY <2>2, <2>6, <2>7, <2>8, <2>9, <2>10 DEF States
  <1> QED
    BY <1>2, <1>3

(* The receiver's MMCM and clock recovery, likewise.                       *)
LEMMA RecoveredStep ==
  ASSUME GthInv, Cycle
  PROVE  Recovered'
  <1> USE DEF Side
  <1>1. Types /\ OnTop /\ Fresh("rx") /\ Recovered
    BY DEF GthInv
  <1>2. /\ mmcm_reset'["rx"] = ~cdr_locked
        /\ gtXxreset["rx"] => ~cdr_locked'
        /\ ~gtXxreset["rx"] /\ cdr_locked => cdr_locked'
    BY DEF Cycle, Clocks, CdrLock, Pair
  <1>3. CASE st'["rx"] \in {"POWER-DOWN", "DRP"}
    BY <1>3 DEF Recovered
  <1>4. CASE st'["rx"] \notin {"POWER-DOWN", "DRP"}
    <2>1. ~ModuleReset("rx") /\ ~fsm_reset("rx") /\ st'["rx"] = NextState("rx") /\ gtXxreset'["rx"] = InReset("rx")
      BY <1>1, <1>4, RegistersStep
    <2>2. st["rx"] \in States /\ gt["rx"] \in Device /\ mmcm["rx"] \in Device
      BY <1>1 DEF Types
    <2>3. CASE st["rx"] \in {"POWER-DOWN", "DRP"}
      <3>1. st'["rx"] = "WAIT-PLL-RESET" /\ gtXxreset["rx"]
        BY <1>1, <1>4, <2>1, <2>3, NextStateType DEF Fresh
      <3> QED
        BY <1>2, <3>1 DEF Recovered
    <2>4. CASE st["rx"] = "WAIT-PLL-RESET"
      <3>1. /\ st'["rx"] \in {"WAIT-PLL-RESET", "WAIT-GTH-RESET"}
            /\ gtXxreset'["rx"] /\ gtXxreset["rx"] /\ ~cdr_locked
        BY <1>1, <2>1, <2>4, NextStateType DEF InReset, Fresh, Recovered
      <3> QED
        BY <1>2, <3>1 DEF Recovered
    <2>5. CASE st["rx"] \in {"WAIT-GTH-RESET", "WAIT-CDR-LOCK", "READY"}
      <3>1. st'["rx"] \in {"WAIT-GTH-RESET", "WAIT-CDR-LOCK", "READY"} /\ ~gtXxreset'["rx"]
        BY <1>1, <1>4, <2>1, <2>5, NextStateType DEF InReset
      <3>2. /\ DeviceDoes(mmcm["rx"], mmcm'["rx"], mmcm_reset["rx"] \/ ~Locked(pll), TRUE)
            /\ DeviceDoes(gt["rx"], gt'["rx"], gtXxreset["rx"], Locked(pll) /\ High(mmcm["rx"]))
        BY <1>1, DevicesStep
      <3>3. pll.ph = "on" => pll'.ph = "on"
        BY <1>1, <2>5, PllKept
      <3>4. CASE gtXxreset["rx"]
        <4>1. mmcm_reset["rx"] /\ ~cdr_locked
          BY <1>1, <2>5, <3>4 DEF Recovered, Fresh
        <4>2. mmcm'["rx"].ph # "on"
          BY <2>2, <3>2, <4>1 DEF DeviceDoes, Device
        <4>3. gt'["rx"].ph # "on"
          BY <2>2, <3>2, <3>4 DEF DeviceDoes, Device
        <4>4. mmcm'["rx"].ph = "falling" /\ gt'["rx"].ph = "off" => gt'["rx"].k < mmcm'["rx"].k
          BY <2>2, <3>2, <3>4, Constants DEF DeviceDoes, Device, Timely
        <4> QED
          BY <1>2, <3>1, <4>1, <4>2, <4>3, <4>4 DEF Recovered
      <3>5. CASE ~gtXxreset["rx"]
        <4>1. /\ ~mmcm_reset["rx"] => cdr_locked
              /\ mmcm["rx"].ph = "on" => ~mmcm_reset["rx"] /\ cdr_locked /\ pll.ph = "on"
              /\ mmcm["rx"].ph = "falling" /\ gt["rx"].ph = "off" => gt["rx"].k < mmcm["rx"].k
              /\ gt["rx"].ph = "on" => mmcm["rx"].ph = "on"
          BY <1>1, <2>5, <3>5 DEF Recovered
        <4>2. ~mmcm_reset'["rx"] => cdr_locked'
          BY <1>2, <3>5
        <4>3. mmcm["rx"].ph = "on" => mmcm'["rx"].ph = "on"
          BY <3>2, <4>1 DEF DeviceDoes, Locked
        <4>4. mmcm'["rx"].ph = "on" => ~mmcm_reset["rx"] /\ pll.ph = "on"
          BY <2>2, <3>2, <4>1 DEF DeviceDoes, Locked, Device
        <4>5. mmcm'["rx"].ph = "on" => ~mmcm_reset'["rx"] /\ cdr_locked' /\ pll'.ph = "on"
          BY <1>2, <3>3, <3>5, <4>1, <4>4
        <4>6. mmcm'["rx"].ph = "falling" /\ gt'["rx"].ph = "off" => gt'["rx"].k < mmcm'["rx"].k
          <5> SUFFICES ASSUME mmcm'["rx"].ph = "falling", gt'["rx"].ph = "off"
                       PROVE  gt'["rx"].k < mmcm'["rx"].k
            OBVIOUS
          <5>1. mmcm["rx"].ph = "falling" /\ mmcm'["rx"].k = mmcm["rx"].k + 1
            BY <2>2, <3>2, <4>3 DEF DeviceDoes, Device
          <5>2. mmcm["rx"].k \in Nat /\ gt["rx"].k \in Nat
            BY <2>2 DEF Device
          <5>3. gt'["rx"].k = 0 \/ (gt["rx"].ph = "off" /\ gt'["rx"].k = gt["rx"].k + 1)
            BY <2>2, <3>2 DEF DeviceDoes, Device
          <5> QED
            BY <4>1, <5>1, <5>2, <5>3
        <4>7. gt'["rx"].ph = "on" => mmcm'["rx"].ph = "on"
          <5> SUFFICES ASSUME gt'["rx"].ph = "on"
                       PROVE  mmcm["rx"].ph = "on"
            BY <4>3
          <5>1. CASE gt["rx"].ph = "on"
            BY <4>1, <5>1
          <5>2. CASE gt["rx"].ph = "off"
            <6>1. gt["rx"].k >= DROP_TIME /\ High(mmcm["rx"])
              BY <3>2, <5>2 DEF DeviceDoes
            <6>2. ASSUME mmcm["rx"].ph = "falling" PROVE FALSE
              <7>1. gt["rx"].k < mmcm["rx"].k /\ mmcm["rx"].k \in 1 .. DROP_TIME /\ gt["rx"].k \in Nat
                BY <1>1, <2>2, <4>1, <5>2, <6>2 DEF Types, Timely, Device
              <7> QED
                BY <6>1, <7>1, Constants
            <6> QED
              BY <6>1, <6>2 DEF High
          <5> QED
            BY <2>2, <3>2, <5>1, <5>2 DEF DeviceDoes, Device
        <4> QED
          BY <3>1, <4>2, <4>5, <4>6, <4>7 DEF Recovered
      <3> QED
        BY <3>4, <3>5
    <2> QED
      BY <2>2, <2>3, <2>4, <2>5 DEF States
  <1> QED
    BY <1>3, <1>4

(* GthInv is inductive.                                                    *)
LEMMA GthInvStep ==
  ASSUME GthInv, [Next]_vars
  PROVE  GthInv'
  <1>1. CASE Cycle
    <2>1. Types' /\ OnTop'
      BY <1>1, TypesStep, OnTopStep DEF GthInv
    <2>2. (\A s \in Side : Fresh(s)') /\ Recovered'
      BY <1>1, FreshStep, RecoveredStep
    <2> QED
      BY <2>1, <2>2 DEF GthInv
  <1>2. CASE UNCHANGED vars
    BY <1>2 DEF vars, fsm, phy, GthInv, Types, OnTop, Fresh, Recovered, Timely, done
  <1> QED
    BY <1>1, <1>2 DEF Next

(* The state after power-on satisfies the invariant.                       *)
LEMMA GthInvInit ==
  ASSUME Init
  PROVE  GthInv
  BY Constants DEF Init, Both, Pair, Off, GthInv, Types, OnTop, Fresh, Recovered, States, Device,
                   Timely, Side, done

(* A start that found its transceiver down is ready only when the PLL is   *)
(* locked and the transceiver out of its reset: what the FSM of            *)
(* gth_7series_init.py sees through two registers is then the answer to    *)
(* this start.  No relation between the delays is needed.                  *)
THEOREM ReadyMeansUp == Spec => []ReadyIsUp
  <1>1. Init => GthInv
    BY GthInvInit
  <1>2. GthInv /\ [Next]_vars => GthInv'
    BY GthInvStep
  <1>3. GthInv => ReadyIsUp
    BY DEF GthInv, Fresh, ReadyIsUp, done, Locked
  <1> QED
    BY <1>1, <1>2, <1>3, PTL DEF Spec

(* A receiver that is ready and out of its reset runs on a recovered       *)
(* clock: v7_1000basex.py holds the MMCM whose lock is RXUSERRDY in reset  *)
(* until cdr_locked, and a lock left over from before the reset falls      *)
(* before the transceiver can come up on it.                               *)
THEOREM ReceiverOnRecoveredClock == Spec => []ReadyIsRecovered
  <1>1. Init => GthInv
    BY GthInvInit
  <1>2. GthInv /\ [Next]_vars => GthInv'
    BY GthInvStep
  <1>3. GthInv => ReadyIsRecovered
    BY DEF GthInv, Fresh, Recovered, ReadyIsRecovered, done, Locked, Side
  <1> QED
    BY <1>1, <1>2, <1>3, PTL DEF Spec
===============================================================================
