------------------------- MODULE DebugModuleProofs -------------------------
(***************************************************************************)
(* Theorems about DebugModule, for any number of harts.                    *)
(*                                                                         *)
(* A clock edge combines a step of one hart with one of ten things the DMI *)
(* may do.  DmiRequest reduces the ten to the one fact they have in        *)
(* common, so that the proofs about the edge (Clock) are made once.        *)
(***************************************************************************)
EXTENDS DebugModule, TLAPS

Steps == OwnSteps \union BusSteps

\* What a DMI request may make csr_read_write assign.
Requested(dmc, err, cmd, valid, auto, dat, hr, push) ==
    /\ dmc \in dmcontrol_t
    /\ err \subseteq CmdErrBits
    /\ cmd \in CommandKinds
    /\ valid \in BOOLEAN
    /\ auto \subseteq AutoRegs
    /\ dat \in Values
    /\ hr \subseteq Harts
    /\ push \in {0, 1}
    /\ push = 1 => Accepted
    /\ valid => push = 1 /\ ~cmdbusy /\ dmc = dmcontrol /\ err = cmderr
    /\ dmc = dmcontrol \/ (push = 1 /\ MayWrite(dmc))
    /\ (cmd = command /\ dat = data) \/ (push = 1 /\ ~cmdbusy)
    /\ err = cmderr \/ (push = 1 /\ (cmdbusy => err # CmdErrNone))

-----------------------------------------------------------------------------
LEMMA DataResetType == DataReset \in Values
BY DebugModuleAssumption DEF DataReset

LEMMA InactiveType ==
    ASSUME NEW active \in BOOLEAN
    PROVE  InactiveControl(active) \in dmcontrol_t
BY DebugModuleAssumption DEF InactiveControl, dmcontrol_t, Harts

\* Each alternative of Dmi is a clock edge with Requested values.
LEMMA DmiRequest ==
    ASSUME TypeOK, NEW h \in Harts, NEW op \in Steps, Dmi(h, op)
    PROVE  \E dmc, err, cmd, valid, auto, dat, hr, push :
              /\ Requested(dmc, err, cmd, valid, auto, dat, hr, push)
              /\ Clock(dmc, err, cmd, valid, auto, dat, hr, push, h, op)
<1> USE DebugModuleAssumption DEF TypeOK, Requested
<1>1. CASE NoRequest(h, op)
  <2>1. Requested(dmcontrol, cmderr, command, FALSE, abstractauto, data,
                  havereset, 0)
    BY <1>1 DEF NoRequest
  <2>2. Clock(dmcontrol, cmderr, command, FALSE, abstractauto, data,
                  havereset, 0, h, op)
    BY <1>1 DEF NoRequest
  <2> QED BY <2>1, <2>2
<1>2. CASE ReadStatus(h, op)
  <2>1. Requested(dmcontrol, cmderr, command, FALSE, abstractauto, data,
                  havereset, 1)
    BY <1>2 DEF ReadStatus
  <2>2. Clock(dmcontrol, cmderr, command, FALSE, abstractauto, data,
                  havereset, 1, h, op)
    BY <1>2 DEF ReadStatus
  <2> QED BY <2>1, <2>2
<1>3. CASE RefuseBusy(h, op)
  <2> DEFINE err == IF cmderr = CmdErrNone THEN CmdErrBusy ELSE cmderr
  <2>1. err \subseteq CmdErrBits
    BY DEF CmdErrBusy, CmdErrBits
  <2>2. Requested(dmcontrol, err, command, FALSE, abstractauto, data,
                  havereset, 1)
    BY <1>3, <2>1 DEF RefuseBusy
  <2>3. Clock(dmcontrol, err, command, FALSE, abstractauto, data, havereset,
              1, h, op)
    BY <1>3 DEF RefuseBusy
  <2> QED BY <2>2, <2>3
<1>4. CASE AccessData(h, op)
  <2>1. PICK dat \in Values :
           Clock(dmcontrol, cmderr, command, "Data0" \in abstractauto,
                 abstractauto, dat, havereset, 1, h, op)
    BY <1>4 DEF AccessData
  <2>2. Requested(dmcontrol, cmderr, command, "Data0" \in abstractauto,
                  abstractauto, dat, havereset, 1)
    BY <1>4 DEF AccessData
  <2> QED BY <2>1, <2>2
<1>5. CASE ReadData(h, op)
  <2>1. Requested(dmcontrol, cmderr, command, "Data0" \in abstractauto,
                  abstractauto, data, havereset, 1)
    BY <1>5 DEF ReadData
  <2>2. Clock(dmcontrol, cmderr, command, "Data0" \in abstractauto,
                  abstractauto, data, havereset, 1, h, op)
    BY <1>5 DEF ReadData
  <2> QED BY <2>1, <2>2
<1>6. CASE AccessProgBuf(h, op)
  <2>1. Requested(dmcontrol, cmderr, command, "ProgBuf0" \in abstractauto,
                  abstractauto, data, havereset, 1)
    BY <1>6 DEF AccessProgBuf
  <2>2. Clock(dmcontrol, cmderr, command, "ProgBuf0" \in abstractauto,
                  abstractauto, data, havereset, 1, h, op)
    BY <1>6 DEF AccessProgBuf
  <2> QED BY <2>1, <2>2
<1>7. CASE WriteCommand(h, op)
  <2>1. PICK cmd \in Commands :
           Clock(dmcontrol, cmderr, cmd, TRUE, abstractauto, data, havereset,
                 1, h, op)
    BY <1>7 DEF WriteCommand
  <2>2. Requested(dmcontrol, cmderr, cmd, TRUE, abstractauto, data,
                  havereset, 1)
    BY <1>7 DEF WriteCommand
  <2> QED BY <2>1, <2>2
<1>8. CASE WriteAbstractCS(h, op)
  <2>1. PICK mask \in {CmdErrBits, CmdErrBusy} :
           Clock(dmcontrol, cmderr \ mask, command, FALSE, abstractauto, data,
                 havereset, 1, h, op)
    BY <1>8 DEF WriteAbstractCS
  <2>2. Requested(dmcontrol, cmderr \ mask, command, FALSE, abstractauto,
                  data, havereset, 1)
    BY <1>8 DEF WriteAbstractCS
  <2> QED BY <2>1, <2>2
<1>9. CASE WriteAbstractAuto(h, op)
  <2>1. PICK auto \in SUBSET AutoRegs :
           Clock(dmcontrol, cmderr, command, FALSE, auto, data, havereset,
                 1, h, op)
    BY <1>9 DEF WriteAbstractAuto
  <2>2. Requested(dmcontrol, cmderr, command, FALSE, auto, data, havereset, 1)
    BY <1>9 DEF WriteAbstractAuto
  <2> QED BY <2>1, <2>2
<1>10. CASE WriteDMControl(h, op)
  <2>1. PICK w \in dmcontrol_t, ack \in Acks :
           /\ MayWrite(w)
           /\ Clock(w, cmderr, command, FALSE, abstractauto, data,
                    IF ack THEN havereset \ {hartsel} ELSE havereset,
                    1, h, op)
    BY <1>10 DEF WriteDMControl
  <2> DEFINE hr == IF ack THEN havereset \ {hartsel} ELSE havereset
  <2>2. hr \subseteq Harts
    OBVIOUS
  <2>3. Requested(w, cmderr, command, FALSE, abstractauto, data, hr, 1)
    BY <1>10, <2>1, <2>2 DEF WriteDMControl
  <2> QED BY <2>1, <2>3
<1> QED BY <1>1, <1>2, <1>3, <1>4, <1>5, <1>6, <1>7, <1>8, <1>9, <1>10
        DEF Dmi

-----------------------------------------------------------------------------
(* Type correctness *)

\* The registers after an edge, whatever the harts do.
LEMMA ClockType ==
    ASSUME TypeOK, NEW h \in Harts, NEW op \in Steps,
           NEW dmc, NEW err, NEW cmd, NEW valid, NEW auto, NEW dat, NEW hr,
           NEW push,
           Requested(dmc, err, cmd, valid, auto, dat, hr, push),
           Clock(dmc, err, cmd, valid, auto, dat, hr, push, h, op)
    PROVE  /\ dmcontrol' \in dmcontrol_t
           /\ cmderr' \subseteq CmdErrBits
           /\ command' \in CommandKinds
           /\ cmd_valid' \in BOOLEAN
           /\ abstractauto' \subseteq AutoRegs
           /\ data' \in Values
           /\ havereset' \subseteq Harts
           /\ resp_queue' \in 0 .. 2
           /\ state' \in {"Idle", "Go", "Resume", "CmdExecuting"}
           /\ halted' \subseteq Harts
           /\ resuming' \subseteq Harts
           /\ owed' \subseteq Harts
<1> USE DebugModuleAssumption DEF TypeOK, Requested
<1>1. dmcontrol' \in dmcontrol_t
  <2>1. resumeack_clears(dmc) \in dmcontrol_t
    BY DEF resumeack_clears, dmcontrol_t
  <2>2. dmc.dmactive \in BOOLEAN
    BY DEF dmcontrol_t
  <2> QED BY <2>1, <2>2, InactiveType DEF Clock
<1>2. cmderr' \subseteq CmdErrBits
  BY DEF Clock, cmderror, CmdErrBits, CmdErrNone, CmdErrorException,
         CmdErrNotSupported, CmdErrorHaltResume
<1>3. command' \in CommandKinds /\ cmd_valid' \in BOOLEAN
  BY DEF Clock, CommandKinds
<1>4. abstractauto' \subseteq AutoRegs
  BY DEF Clock
<1>5. data' \in Values
  BY DataResetType DEF Clock
<1>6. havereset' \subseteq Harts
  BY DEF Clock
<1>7. resp_queue' \in 0 .. 2
  BY DEF Clock, Accepted
<1>8. state' \in {"Idle", "Go", "Resume", "CmdExecuting"}
  BY DEF Clock, state_d
<1>9. halted' \subseteq Harts /\ resuming' \subseteq Harts
  <2>1. hartsel \in Harts
    BY DEF hartsel, dmcontrol_t
  <2> QED BY <2>1 DEF Clock, halted_d, resuming_d
<1>10. owed' \subseteq Harts
  <2>1. dmc.hartsel \in Harts
    BY DEF dmcontrol_t
  <2> QED BY <2>1 DEF Clock
<1> QED BY <1>1, <1>2, <1>3, <1>4, <1>5, <1>6, <1>7, <1>8, <1>9, <1>10

\* A hart only ever moves within the debug ROM, its program and the command.
LEMMA RomStepType ==
    ASSUME pc \in [Harts -> HartPcs], NEW h \in Harts, NEW op \in Steps,
           RomStep(h, op)
    PROVE  pc' \in [Harts -> HartPcs]
BY DEF RomStep, Enter, ParkLoop, StartCommand, Execute, Leave, Goto, HartPcs

LEMMA InitType == Init => TypeOK
<1> SUFFICES ASSUME Init PROVE TypeOK
  OBVIOUS
<1> USE DebugModuleAssumption DEF Init
<1>1. dmcontrol \in dmcontrol_t
  BY InactiveType
<1>2. data \in Values
  BY DataResetType
<1>3. pc \in [Harts -> HartPcs]
  BY DEF HartPcs
<1>4. cmderr \subseteq CmdErrBits /\ command \in CommandKinds
  BY DEF CmdErrNone, CommandKinds
<1>5. resp_queue \in 0 .. 2
  OBVIOUS
<1>9. cmd_valid \in BOOLEAN
  OBVIOUS
<1>6. abstractauto \subseteq AutoRegs /\ havereset \subseteq Harts
  OBVIOUS
<1>7. halted \subseteq Harts /\ resuming \subseteq Harts /\ owed \subseteq Harts
  OBVIOUS
<1>8. state \in {"Idle", "Go", "Resume", "CmdExecuting"}
  OBVIOUS
<1> HIDE DEF Init
<1> QED BY <1>1, <1>2, <1>3, <1>4, <1>5, <1>6, <1>7, <1>8, <1>9
       DEF TypeOK

LEMMA TypeStep == TypeOK /\ [Next]_vars => TypeOK'
<1> SUFFICES ASSUME TypeOK, [Next]_vars PROVE TypeOK'
  OBVIOUS
<1>1. CASE Next
  <2>1. PICK h \in Harts, op \in Steps : RomStep(h, op) /\ Dmi(h, op)
    BY <1>1 DEF Next, Steps, Cycle
  <2>2. PICK dmc, err, cmd, valid, auto, dat, hr, push :
           /\ Requested(dmc, err, cmd, valid, auto, dat, hr, push)
           /\ Clock(dmc, err, cmd, valid, auto, dat, hr, push, h, op)
    BY <2>1, DmiRequest
  <2>3. pc' \in [Harts -> HartPcs]
    BY <2>1, RomStepType DEF TypeOK
  <2> QED BY <2>2, <2>3, ClockType DEF TypeOK
<1>2. CASE UNCHANGED vars
  BY <1>2 DEF vars, TypeOK
<1> QED BY <1>1, <1>2

\* The registers of DebugModule keep their types: TypeOK of the specification,
\* for any debugger and any number of harts.
THEOREM TypeCorrect == Spec => []TypeOK
BY InitType, TypeStep, PTL DEF Spec

-----------------------------------------------------------------------------
(* A debugger that resets neither the harts nor the debug module.          *)
(*                                                                         *)
(* While dmactive is not set nothing is under way, and once it is set it   *)
(* stays; no hart is taken out of the ROM behind the back of dm_mem.       *)

ActiveInv ==
    /\ TypeOK
    /\ ~dmcontrol.ndmreset
    /\ ~dmcontrol.dmactive =>
          state = "Idle" /\ ~cmd_valid /\ ~dmcontrol.resumereq
    /\ HaltedIsParked

\* What an edge does to the parts of dmcontrol the invariant needs.
LEMMA EdgeControl ==
    ASSUME ~Resets, ActiveInv, NEW h \in Harts, NEW op \in Steps,
           NEW dmc, NEW err, NEW cmd, NEW valid, NEW auto, NEW dat, NEW hr,
           NEW push,
           Requested(dmc, err, cmd, valid, auto, dat, hr, push),
           Clock(dmc, err, cmd, valid, auto, dat, hr, push, h, op)
    PROVE  /\ ~dmcontrol'.ndmreset
           /\ ~dmcontrol'.dmactive =>
                 ~dmcontrol.dmactive /\ ~cmd_valid' /\ ~dmcontrol'.resumereq
           /\ Discipline /\ cmdbusy => dmcontrol'.hartsel = hartsel
<1> USE DEF ActiveInv, Requested
<1>1. dmc = dmcontrol \/ (~dmc.ndmreset /\ dmc.dmactive)
  BY DEF MayWrite
<1>2. Discipline /\ cmdbusy => dmc.hartsel = hartsel
  BY DEF MayWrite, Disciplined, hartsel
<1>3. cmdbusy => dmcontrol.dmactive
  BY DEF cmdbusy
<1>4. CASE dmcontrol.dmactive
  <2>1. dmcontrol' = resumeack_clears(dmc)
    BY <1>4 DEF Clock
  <2>2. /\ dmcontrol'.ndmreset = dmc.ndmreset
        /\ dmcontrol'.dmactive = dmc.dmactive
        /\ dmcontrol'.hartsel = dmc.hartsel
    BY <2>1 DEF resumeack_clears, dmcontrol_t
  <2> QED BY <1>1, <1>2, <1>4, <2>2
<1>5. CASE ~dmcontrol.dmactive
  <2>1. dmcontrol' = InactiveControl(dmc.dmactive) /\ cmd_valid' = FALSE
    BY <1>5 DEF Clock
  <2>2. ~dmcontrol'.ndmreset /\ ~dmcontrol'.resumereq
    BY <2>1 DEF InactiveControl
  <2> QED BY <1>3, <1>5, <2>1, <2>2
<1> QED BY <1>4, <1>5

\* The same for the state machine while dmactive is not set.
LEMMA EdgeInactive ==
    ASSUME ActiveInv, ~dmcontrol.dmactive, NEW h \in Harts, NEW op \in Steps
    PROVE  state_d(h, op) = "Idle"
BY DEF ActiveInv, state_d, resumereq

\* Harts other than h stay where they are; h leaves its place only by the
\* step the ROM has there.
LEMMA HartMoves ==
    ASSUME TypeOK, ~dmcontrol.ndmreset,
           NEW h \in Harts, NEW op \in Steps, RomStep(h, op)
    PROVE  /\ \A i \in Harts \ {h} : pc'[i] = pc[i]
           /\ op = "GOING" => pc[h] = "going"
           /\ op = "HALTED" => pc[h] = "entry" /\ pc'[h] = "pollgo"
           /\ pc'[h] = "run" => pc[h] = "run" \/ op = "RESUMING"
           /\ pc'[h] = "going" => \/ pc[h] = "going" /\ op # "GOING"
                                  \/ op = "GO" /\ flag_go(h)
           /\ pc'[h] = "whereto" => pc[h] = "whereto" \/ op = "GOING"
           /\ pc'[h] = "exec" => pc[h] \in {"whereto", "exec"}
           /\ pc'[h] = "exception" => pc[h] \in {"exec", "exception"}
BY DEF TypeOK, RomStep, Enter, ParkLoop, StartCommand, Execute,
       Leave, Goto, HartPcs, Steps, OwnSteps, BusSteps

LEMMA ActiveStep ==
    ASSUME ~Resets, ActiveInv, NEW h \in Harts, NEW op \in Steps,
           RomStep(h, op), Dmi(h, op), TypeOK'
    PROVE  ActiveInv'
<1>1. PICK dmc, err, cmd, valid, auto, dat, hr, push :
         /\ Requested(dmc, err, cmd, valid, auto, dat, hr, push)
         /\ Clock(dmc, err, cmd, valid, auto, dat, hr, push, h, op)
  BY DmiRequest DEF ActiveInv
<1>2. /\ ~dmcontrol'.ndmreset
      /\ ~dmcontrol'.dmactive =>
            ~dmcontrol.dmactive /\ ~cmd_valid' /\ ~dmcontrol'.resumereq
  BY <1>1, EdgeControl
<1>3. state' = state_d(h, op) /\ halted' = halted_d(h, op)
  BY <1>1 DEF Clock
<1>4. ~dmcontrol'.dmactive =>
         state' = "Idle" /\ ~cmd_valid' /\ ~dmcontrol'.resumereq
  BY <1>2, <1>3, EdgeInactive
<1>5. ASSUME NEW i \in Harts, i \in halted'
      PROVE  pc'[i] # "run"
  BY <1>3, <1>5, HartMoves DEF halted_d, ActiveInv, HaltedIsParked
<1>6. HaltedIsParked'
  BY <1>5 DEF HaltedIsParked, TypeOK
<1> QED BY <1>2, <1>4, <1>6 DEF ActiveInv

LEMMA ActiveInvariant ==
    ASSUME ~Resets
    PROVE  Spec => []ActiveInv
<1>1. Init => ActiveInv
  BY InitType DEF Init, InactiveControl, ActiveInv, HaltedIsParked
<1>2. ActiveInv /\ [Next]_vars => ActiveInv'
  <2> SUFFICES ASSUME ActiveInv, [Next]_vars PROVE ActiveInv'
    OBVIOUS
  <2>1. TypeOK'
    BY TypeStep DEF ActiveInv
  <2>2. CASE Next
    <3>1. PICK h \in Harts, op \in Steps : RomStep(h, op) /\ Dmi(h, op)
      BY <2>2 DEF Next, Steps, Cycle
    <3> QED BY <2>1, <3>1, ActiveStep
  <2>3. CASE UNCHANGED vars
    BY <2>3 DEF vars, ActiveInv, TypeOK, HaltedIsParked
  <2> QED BY <2>2, <2>3
<1> QED BY <1>1, <1>2, PTL DEF Spec

\* dmstatus shows a hart as halted only while it is in the debug ROM or in a
\* command (halted_q of dm_mem.sv), for any debugger that resets nothing.
THEOREM HaltedHartsAreParked ==
    ASSUME ~Resets
    PROVE  Spec => []HaltedIsParked
<1>1. ActiveInv => HaltedIsParked
  BY DEF ActiveInv
<1> QED BY <1>1, ActiveInvariant, PTL

-----------------------------------------------------------------------------
(* A command executes only while the state machine tracks it.              *)
(*                                                                         *)
(* ExecutionTracked is not inductive by itself: hartsel could change under *)
(* a busy state machine.  It does not, because dmactive is set whenever    *)
(* the state machine is busy and the debugger then keeps hartsel.          *)

TrackInv == ActiveInv /\ ExecutionTracked

LEMMA TrackStep ==
    ASSUME Discipline, ~Resets, TrackInv, NEW h \in Harts, NEW op \in Steps,
           RomStep(h, op), Dmi(h, op)
    PROVE  ExecutionTracked'
<1>1. PICK dmc, err, cmd, valid, auto, dat, hr, push :
         /\ Requested(dmc, err, cmd, valid, auto, dat, hr, push)
         /\ Clock(dmc, err, cmd, valid, auto, dat, hr, push, h, op)
  BY DmiRequest DEF TrackInv, ActiveInv
<1>2. cmdbusy => dmcontrol'.hartsel = hartsel
  BY <1>1, EdgeControl DEF TrackInv
<1>3. state' = state_d(h, op)
  BY <1>1 DEF Clock
<1>4. TypeOK /\ ~dmcontrol.ndmreset
  BY DEF TrackInv, ActiveInv
<1>5. ASSUME NEW i \in Harts, pc'[i] = "going"
      PROVE  state' = "Go" /\ i = hartsel'
  <2>1. state = "Go" /\ i = hartsel
    BY <1>4, <1>5, HartMoves DEF TrackInv, ExecutionTracked, flag_go
  <2>2. op # "GOING"
    BY <1>4, <1>5, <2>1, HartMoves DEF TrackInv, ExecutionTracked, flag_go
  <2> QED BY <1>2, <1>3, <2>1, <2>2 DEF state_d, cmdbusy, hartsel
<1>6. ASSUME NEW i \in Harts, pc'[i] \in {"whereto", "exec", "exception"}
      PROVE  state' = "CmdExecuting" /\ i = hartsel'
  <2>1. CASE op = "GOING"
    <3>1. pc[h] = "going"
      BY <1>4, <2>1, HartMoves
    <3>2. state = "Go" /\ h = hartsel
      BY <3>1 DEF TrackInv, ExecutionTracked
    <3>3. i = h
      BY <1>4, <1>6, <3>2, HartMoves DEF TrackInv, ExecutionTracked
    <3> QED BY <1>2, <1>3, <2>1, <3>2, <3>3 DEF state_d, cmdbusy, hartsel
  <2>2. CASE op # "GOING"
    <3>1. pc[i] \in {"whereto", "exec", "exception"}
      BY <1>4, <1>6, <2>2, HartMoves
    <3>2. state = "CmdExecuting" /\ i = hartsel
      BY <3>1 DEF TrackInv, ExecutionTracked
    <3>3. ~(op = "HALTED" /\ h = hartsel)
      BY <1>4, <3>1, <3>2, HartMoves
    <3> QED BY <1>2, <1>3, <3>2, <3>3 DEF state_d, cmdbusy, hartsel
  <2> QED BY <2>1, <2>2
<1> QED BY <1>5, <1>6 DEF ExecutionTracked

LEMMA TrackInvariant ==
    ASSUME Discipline, ~Resets
    PROVE  Spec => []TrackInv
<1>1. Init => ExecutionTracked
  BY DEF Init, ExecutionTracked
<1>2. ActiveInv /\ ExecutionTracked /\ [Next]_vars => ExecutionTracked'
  <2> SUFFICES ASSUME ActiveInv, ExecutionTracked, [Next]_vars PROVE ExecutionTracked'
    OBVIOUS
  <2>1. CASE Next
    <3>1. PICK h \in Harts, op \in Steps : RomStep(h, op) /\ Dmi(h, op)
      BY <2>1 DEF Next, Steps, Cycle
    <3> QED BY <3>1, TrackStep DEF TrackInv
  <2>2. CASE UNCHANGED vars
    BY <2>2 DEF vars, ExecutionTracked, hartsel
  <2> QED BY <2>1, <2>2
<1>3. TrackInv <=> ActiveInv /\ ExecutionTracked
  BY DEF TrackInv
<1> QED BY <1>1, <1>2, <1>3, ActiveInvariant, PTL DEF Spec

\* No hart executes anything of a command unless abstractcs shows busy and
\* the hart is the selected one (dm_mem.sv Go and CmdExecuting, debug_rom.S
\* going and whereto), for a debugger that obeys Disciplined and resets
\* nothing, however many requests it has outstanding.
THEOREM ExecutionIsTracked ==
    ASSUME Discipline, ~Resets
    PROVE  Spec => []ExecutionTracked
<1>1. TrackInv => ExecutionTracked
  BY DEF TrackInv
<1> QED BY <1>1, TrackInvariant, PTL

=============================================================================
