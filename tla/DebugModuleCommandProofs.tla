--------------------- MODULE DebugModuleCommandProofs ---------------------
(***************************************************************************)
(* Theorems about resume requests and commands, for any number of harts.   *)
(* Each is proved for as many debuggers as it holds for: the assumptions   *)
(* name the parts of a debugger's good behaviour that are needed.          *)
(***************************************************************************)
EXTENDS DebugModuleProofs

\* One edge with the values of one DMI request.
Edge(dmc, err, cmd, valid, auto, dat, hr, push, h, op) ==
    /\ RomStep(h, op)
    /\ Requested(dmc, err, cmd, valid, auto, dat, hr, push)
    /\ Clock(dmc, err, cmd, valid, auto, dat, hr, push, h, op)

\* The edge brings a new resume request: clear_resumeack_o.
Asks(dmc) == ~dmcontrol.resumereq /\ dmc.resumereq

LEMMA NextEdge ==
    ASSUME TypeOK, Next
    PROVE  \E h \in Harts, op \in Steps :
              \E dmc, err, cmd, valid, auto, dat, hr, push :
              Edge(dmc, err, cmd, valid, auto, dat, hr, push, h, op) /\ Dmi(h, op)
<1>1. PICK h \in Harts, op \in Steps : RomStep(h, op) /\ Dmi(h, op)
  BY DEF Next, Steps, Cycle
<1> QED BY <1>1, DmiRequest DEF Edge

\* What the edge may do to dmcontrol.
LEMMA EdgeRequest ==
    ASSUME TypeOK, NEW h \in Harts, NEW op \in Steps,
           NEW dmc, NEW err, NEW cmd, NEW valid, NEW auto, NEW dat, NEW hr, NEW push,
           Edge(dmc, err, cmd, valid, auto, dat, hr, push, h, op)
    PROVE  /\ dmc \in dmcontrol_t
           /\ MaxOutstanding = 1 /\ resp_queue >= 1 => dmc = dmcontrol /\ push = 0
           /\ MaxOutstanding = 1 /\ push = 1 => resp_queue' >= 1
           /\ Discipline /\ cmdbusy =>
                 dmc.hartsel = hartsel /\ (dmc.resumereq => dmcontrol.resumereq)
           /\ Discipline /\ Asks(dmc) =>
                 /\ ~cmdbusy /\ ~cmd_valid /\ push = 1
                 /\ dmc.hartsel \in halted /\ ~dmc.haltreq
           /\ ~SelectAndResume /\ Asks(dmc) => dmc.hartsel = hartsel
           /\ dmcontrol.dmactive =>
                 /\ dmcontrol'.hartsel = dmc.hartsel /\ dmcontrol'.haltreq = dmc.haltreq
                 /\ dmcontrol'.resumereq <=>
                       dmc.resumereq /\ ~(dmcontrol.resumereq /\ resuming # {})
<1>1. dmc \in dmcontrol_t
  BY DEF Edge, Requested
<1>2. MaxOutstanding = 1 /\ resp_queue >= 1 => push = 0
  BY DEF Edge, Requested, Accepted, TypeOK
<1>3. dmc = dmcontrol \/ (push = 1 /\ MayWrite(dmc))
  BY DEF Edge, Requested
<1>4. MayWrite(dmc) => /\ Discipline => Disciplined(dmc)
                       /\ ~SelectAndResume => (dmc.resumereq => dmc.hartsel = hartsel)
  BY DEF MayWrite
<1>5. Discipline /\ cmdbusy =>
         dmc.hartsel = hartsel /\ (dmc.resumereq => dmcontrol.resumereq)
  BY <1>3, <1>4 DEF Disciplined, hartsel
<1>6. Discipline /\ Asks(dmc) =>
         /\ ~cmdbusy /\ ~cmd_valid /\ push = 1
         /\ dmc.hartsel \in halted /\ ~dmc.haltreq
  BY <1>3, <1>4 DEF Disciplined, Asks
<1>7. ~SelectAndResume /\ Asks(dmc) => dmc.hartsel = hartsel
  BY <1>3, <1>4 DEF Asks
<1>8. dmcontrol.dmactive =>
         /\ dmcontrol'.hartsel = dmc.hartsel /\ dmcontrol'.haltreq = dmc.haltreq
         /\ dmcontrol'.resumereq <=>
               dmc.resumereq /\ ~(dmcontrol.resumereq /\ resuming # {})
  <2>1. dmcontrol.dmactive => dmcontrol' = resumeack_clears(dmc)
    BY DEF Edge, Clock
  <2> QED BY <1>1, <2>1 DEF resumeack_clears, dmcontrol_t
<1>9. MaxOutstanding = 1 /\ push = 1 => resp_queue' >= 1
  <2> SUFFICES ASSUME MaxOutstanding = 1, push = 1 PROVE resp_queue' >= 1
    OBVIOUS
  <2>1. resp_queue = 0
    BY <1>2 DEF TypeOK
  <2>2. PICK pop \in {0, 1} : pop <= resp_queue /\ resp_queue' = resp_queue + push - pop
    BY DEF Edge, Clock
  <2> QED BY <2>1, <2>2
<1> QED BY <1>1, <1>2, <1>3, <1>5, <1>6, <1>7, <1>8, <1>9

\* The registers the edge leaves for the next cycle.
LEMMA EdgeValues ==
    ASSUME TypeOK, NEW h \in Harts, NEW op \in Steps,
           NEW dmc, NEW err, NEW cmd, NEW valid, NEW auto, NEW dat, NEW hr, NEW push,
           Edge(dmc, err, cmd, valid, auto, dat, hr, push, h, op)
    PROVE  /\ state' = state_d(h, op)
           /\ op # "RESUMING" => halted \subseteq halted'
           /\ op = "RESUMING" => halted \ {h} \subseteq halted'
           /\ resuming' = (IF Asks(dmc) THEN resuming \ {hartsel} ELSE resuming)
                            \union (IF op = "RESUMING" THEN {h} ELSE {})
           /\ owed' \subseteq (owed \union (IF Asks(dmc) THEN {dmc.hartsel} ELSE {}))
                                 \ (IF op = "RESUMING" THEN {h} ELSE {})
           /\ ~dmcontrol.dmactive => owed' = {} /\ ~dmcontrol'.resumereq
<1>1. state' = state_d(h, op) /\ halted' = halted_d(h, op)
  BY DEF Edge, Clock
<1>2. resuming' = resuming_d(h, op, Asks(dmc))
  BY DEF Edge, Clock, Asks
<1>3. owed' \subseteq (owed \union (IF Asks(dmc) THEN {dmc.hartsel} ELSE {}))
                         \ (IF op = "RESUMING" THEN {h} ELSE {})
  BY DEF Edge, Clock, Asks
<1>4. ~dmcontrol.dmactive => owed' = {} /\ ~dmcontrol'.resumereq
  BY DEF Edge, Clock, InactiveControl
<1> QED BY <1>1, <1>2, <1>3, <1>4 DEF halted_d, resuming_d

-----------------------------------------------------------------------------
(* Resume requests                                                         *)

LEMMA FreshStep ==
    ASSUME ~SelectAndResume, TypeOK, ResumeAckFresh, [Next]_vars
    PROVE  ResumeAckFresh'
<1>1. CASE Next
  <2>1. PICK h \in Harts, op \in Steps :
           \E dmc, err, cmd, valid, auto, dat, hr, push :
              Edge(dmc, err, cmd, valid, auto, dat, hr, push, h, op)
    BY <1>1, NextEdge
  <2>2. PICK dmc, err, cmd, valid, auto, dat, hr, push :
           Edge(dmc, err, cmd, valid, auto, dat, hr, push, h, op)
    BY <2>1
  <2>3. Asks(dmc) => dmc.hartsel = hartsel
    BY <2>2, EdgeRequest
  <2>4. /\ resuming' = (IF Asks(dmc) THEN resuming \ {hartsel} ELSE resuming)
                         \union (IF op = "RESUMING" THEN {h} ELSE {})
        /\ owed' \subseteq (owed \union (IF Asks(dmc) THEN {dmc.hartsel} ELSE {}))
                              \ (IF op = "RESUMING" THEN {h} ELSE {})
    BY <2>2, EdgeValues
  <2> QED BY <2>3, <2>4 DEF ResumeAckFresh
<1>2. CASE UNCHANGED vars
  BY <1>2 DEF vars, ResumeAckFresh
<1> QED BY <1>1, <1>2

\* dmstatus.resumeack is raised for a hart only if it has resumed since it was
\* last told to: clear_resumeack and the write of RESUMING leave no
\* acknowledge of an earlier resume to be read.  All it takes is that the
\* debugger selects a hart before the write that resumes it.
THEOREM ResumeAcksAreFresh ==
    ASSUME ~SelectAndResume PROVE Spec => []ResumeAckFresh
<1>1. Init => ResumeAckFresh
  BY DEF Init, ResumeAckFresh
<1> QED BY <1>1, FreshStep, TypeCorrect, PTL DEF Spec

\* The debugger of ResumesAreNotDropped.
AskingDebugger == Discipline /\ ~SelectAndResume /\ MaxOutstanding = 1

\* What is owed is owed by the selected hart, which is halted, and is being
\* served or will be from the next cycle on: in the cycle in which the request
\* is in dmcontrol and not yet seen, the response to the write keeps the
\* debugger from changing it.
OwedIsServed ==
    \/ owed = {}
    \/ state = "Resume"
    \/ /\ state = "Idle" /\ dmcontrol.resumereq /\ ~dmcontrol.haltreq
       /\ resp_queue >= 1

ResumeInv == /\ owed \subseteq {hartsel} \cap halted
             /\ ResumeAckFresh
             /\ OwedIsServed

LEMMA ServedStep ==
    ASSUME AskingDebugger, TypeOK, ResumeInv, ResumeAckFresh',
           NEW h \in Harts, NEW op \in Steps,
           NEW dmc, NEW err, NEW cmd, NEW valid, NEW auto, NEW dat, NEW hr, NEW push,
           Edge(dmc, err, cmd, valid, auto, dat, hr, push, h, op)
    PROVE  ResumeInv'
<1> USE DEF AskingDebugger
<1>1. CASE owed' = {}
  BY <1>1 DEF ResumeInv, OwedIsServed
<1>2. CASE owed' # {} /\ Asks(dmc)
  <2>1. /\ ~cmdbusy /\ ~cmd_valid /\ push = 1
        /\ dmc.hartsel = hartsel /\ hartsel \in halted /\ ~dmc.haltreq
    BY <1>2, EdgeRequest
  <2>2. dmcontrol.dmactive
    BY <1>2, EdgeValues
  <2>3. hartsel' = hartsel /\ ~dmcontrol'.haltreq /\ dmcontrol'.resumereq
    BY <1>2, <2>1, <2>2, EdgeRequest DEF Asks, hartsel
  <2>4. state' = "Idle"
    BY <1>2, <2>1, EdgeValues DEF state_d, resumereq, cmdbusy, Asks
  <2>5. resp_queue' >= 1
    BY <2>1, EdgeRequest
  <2>6. owed' \subseteq {hartsel} \cap halted'
    BY <2>1, EdgeValues DEF ResumeInv
  <2> QED BY <2>3, <2>4, <2>5, <2>6 DEF ResumeInv, OwedIsServed
<1>3. CASE owed' # {} /\ ~Asks(dmc)
  <2>1. /\ dmcontrol.dmactive /\ owed # {}
        /\ owed' \subseteq {hartsel} \cap halted'
    BY <1>3, EdgeValues DEF ResumeInv
  <2>2. hartsel \in halted /\ hartsel \notin resuming
    BY <2>1 DEF ResumeInv, ResumeAckFresh
  <2>3. CASE state = "Resume"
    <3>1. hartsel' = hartsel
      BY <2>1, <2>3, EdgeRequest DEF cmdbusy, hartsel
    <3>2. state' = "Resume"
      BY <2>2, <2>3, EdgeValues DEF state_d
    <3> QED BY <2>1, <3>1, <3>2 DEF ResumeInv, OwedIsServed
  <2>4. CASE /\ state = "Idle" /\ dmcontrol.resumereq /\ ~dmcontrol.haltreq
             /\ resp_queue >= 1
    <3>1. hartsel' = hartsel
      BY <2>1, <2>4, EdgeRequest DEF hartsel
    <3>2. state' = "Resume"
      BY <2>2, <2>4, EdgeValues DEF state_d, resumereq, haltreq
    <3> QED BY <2>1, <3>1, <3>2 DEF ResumeInv, OwedIsServed
  <2> QED BY <2>1, <2>3, <2>4 DEF ResumeInv, OwedIsServed
<1> QED BY <1>1, <1>2, <1>3

\* No resume request is dropped, although the acknowledge of any hart clears
\* resumereq (dm_csrs.sv:521): what is owed is still in dmcontrol or is
\* served, also when harts and debug module are reset in between.
THEOREM ResumesAreNotDropped ==
    ASSUME AskingDebugger PROVE Spec => []ResumeNotDropped
<1>1. Init => ResumeInv
  BY DEF Init, ResumeInv, ResumeAckFresh, OwedIsServed
<1>2. TypeOK /\ ResumeInv /\ ResumeAckFresh' /\ [Next]_vars => ResumeInv'
  <2> SUFFICES ASSUME TypeOK, ResumeInv, ResumeAckFresh', [Next]_vars PROVE ResumeInv'
    OBVIOUS
  <2>1. CASE Next
    BY <2>1, NextEdge, ServedStep
  <2>2. CASE UNCHANGED vars
    BY <2>2 DEF vars, ResumeInv, OwedIsServed, hartsel
  <2> QED BY <2>1, <2>2
<1>3. ResumeInv => ResumeNotDropped
  BY DEF ResumeInv, OwedIsServed, ResumeNotDropped
<1>4. Spec => []ResumeAckFresh
  BY ResumeAcksAreFresh DEF AskingDebugger
<1> QED BY <1>1, <1>2, <1>3, <1>4, TypeCorrect, PTL DEF Spec

-----------------------------------------------------------------------------
(* The inputs of a command                                                 *)

\* In the one cycle in which a command is valid and not yet shown as busy, the
\* response to the access that started it is still to be read.
ValidWaits == cmd_valid => resp_queue >= 1

LEMMA ValidStep ==
    ASSUME MaxOutstanding = 1, ActiveInv, ValidWaits, [Next]_vars
    PROVE  /\ ValidWaits'
           /\ cmd_valid \/ state \in {"Go", "CmdExecuting"} =>
                 /\ command' = command
                 /\ data' # data => \E i \in Harts : pc[i] = "exec"
<1>1. CASE Next
  <2>1. PICK h \in Harts, op \in Steps : RomStep(h, op) /\ Dmi(h, op)
    BY <1>1 DEF Next, Steps, Cycle
  <2>2. PICK dmc, err, cmd, valid, auto, dat, hr, push :
           /\ Requested(dmc, err, cmd, valid, auto, dat, hr, push)
           /\ Clock(dmc, err, cmd, valid, auto, dat, hr, push, h, op)
    BY <2>1, DmiRequest DEF ActiveInv
  <2>3. resp_queue >= 1 => push = 0
    BY <2>2 DEF Requested, Accepted, ActiveInv, TypeOK
  <2>4. ValidWaits'
    <3> SUFFICES ASSUME cmd_valid' PROVE resp_queue' >= 1
      BY DEF ValidWaits
    <3>1. push = 1
      BY <2>2 DEF Clock, Requested
    <3>2. resp_queue = 0
      BY <2>3, <3>1 DEF ActiveInv, TypeOK
    <3>3. PICK pop \in {0, 1} : pop <= resp_queue /\ resp_queue' = resp_queue + push - pop
      BY <2>2 DEF Clock
    <3> QED BY <3>1, <3>2, <3>3
  <2>5. ASSUME cmd_valid \/ state \in {"Go", "CmdExecuting"}
        PROVE  /\ command' = command
               /\ data' # data => \E i \in Harts : pc[i] = "exec"
    <3>1. push = 0 \/ cmdbusy
      BY <2>3, <2>5 DEF ValidWaits, cmdbusy
    <3>2. dmcontrol.dmactive
      BY <2>5 DEF ActiveInv
    <3>3. cmd = command /\ dat = data
      BY <2>2, <3>1 DEF Requested
    <3>4. op = "DATA" => pc[h] = "exec"
      BY <2>1 DEF RomStep, Enter, ParkLoop, StartCommand, Execute, Leave
    <3> QED BY <2>2, <3>2, <3>3, <3>4 DEF Clock
  <2> QED BY <2>4, <2>5
<1>2. CASE UNCHANGED vars
  BY <1>2 DEF vars, ValidWaits
<1> QED BY <1>1, <1>2

\* From the access that starts a command until it ends, the debugger changes
\* neither the command nor its data (the guards on cmdbusy_i and the cycle
\* before cmdbusy rises), if it waits for each response and resets nothing.
THEOREM InputsAreStable ==
    ASSUME ~Resets, MaxOutstanding = 1 PROVE Spec => CommandInputsStable
<1>1. Init => ValidWaits
  BY DEF Init, ValidWaits
<1>2. ActiveInv /\ ValidWaits /\ [Next]_vars => ValidWaits'
  BY ValidStep
<1>3. ActiveInv /\ ValidWaits /\ [Next]_vars =>
         [cmd_valid \/ state \in {"Go", "CmdExecuting"} =>
             /\ command' = command
             /\ data' # data => \E h \in Harts : pc[h] = "exec"]_vars
  BY ValidStep
<1>4. Spec => []ActiveInv
  BY ActiveInvariant
<1> QED BY <1>1, <1>2, <1>3, <1>4, PTL DEF Spec, CommandInputsStable

-----------------------------------------------------------------------------
(* DebugModule implements AbstractCommand.                                 *)

\* The debugger of CommandsAreAbstract.
CommandDebugger == Discipline /\ ~Resets /\ MaxOutstanding = 1

\* A resume request that the state machine has not seen yet asks a halted
\* hart, and the response to its write is still to be read; none waits for a
\* command to end.
RequestIsNew ==
    dmcontrol.resumereq =>
        /\ state = "Idle" => resp_queue >= 1 /\ hartsel \in halted /\ ~dmcontrol.haltreq
        /\ state \notin {"Go", "CmdExecuting"}

\* A hart resumes once for one request: the state machine serves it until it
\* has, and it does not find the flag again.
ResumesOnce ==
    /\ \A h \in Harts :
          pc[h] = "resume" => state = "Resume" /\ h = hartsel /\ h \notin resuming
    /\ state = "Resume" /\ hartsel \in resuming => pc[hartsel] = "run"

\* A valid command finds the state machine in Idle with no resume request in
\* front of it, and the response to its access is still to be read.
ValidInv ==
    cmd_valid => state = "Idle" /\ ~dmcontrol.resumereq /\ resp_queue >= 1

CommandInv == TrackInv /\ RequestIsNew /\ ResumesOnce /\ ValidInv

LEMMA CommandInit == Init => RequestIsNew /\ ResumesOnce /\ ValidInv
BY DEF Init, InactiveControl, RequestIsNew, ResumesOnce, ValidInv

LEMMA BusyEdge ==
    ASSUME CommandDebugger, CommandInv, cmdbusy,
           NEW h \in Harts, NEW op \in Steps,
           NEW dmc, NEW err, NEW cmd, NEW valid, NEW auto, NEW dat, NEW hr, NEW push,
           Edge(dmc, err, cmd, valid, auto, dat, hr, push, h, op)
    PROVE  /\ hartsel' = hartsel
           /\ dmcontrol'.resumereq => dmcontrol.resumereq /\ resuming = {}
           /\ resuming' = resuming \union (IF op = "RESUMING" THEN {h} ELSE {})
<1> USE DEF CommandInv, TrackInv, ActiveInv, CommandDebugger
<1>1. dmcontrol.dmactive
  BY DEF cmdbusy
<1>2. dmc.hartsel = hartsel /\ (dmc.resumereq => dmcontrol.resumereq)
  BY EdgeRequest
<1> QED BY <1>1, <1>2, EdgeRequest, EdgeValues DEF hartsel, Asks

LEMMA ResumeMoves ==
    ASSUME CommandInv, NEW h \in Harts, NEW op \in Steps, RomStep(h, op)
    PROVE  /\ op = "RESUMING" => /\ state = "Resume" /\ h = hartsel /\ h \notin resuming
                                 /\ pc'[h] = "run"
           /\ \A i \in Harts : pc'[i] = "resume" =>
                 \/ pc[i] = "resume" /\ op # "RESUMING"
                 \/ pc[i] = "pollresume" /\ flag_resume(i)
<1> USE DEF CommandInv, TrackInv, ActiveInv
<1>1. op = "RESUMING" => pc[h] = "resume" /\ pc'[h] = "run"
  BY DEF TypeOK, RomStep, Enter, ParkLoop, StartCommand, Execute, Leave, Goto, HartPcs
<1>2. pc[h] = "whereto" => cmdbusy
  BY DEF ExecutionTracked, cmdbusy
<1>3. \A i \in Harts \ {h} : pc'[i] = pc[i]
  BY HartMoves
<1>4. pc'[h] = "resume" => \/ pc[h] = "resume" /\ op # "RESUMING"
                           \/ pc[h] = "pollresume" /\ flag_resume(h)
  BY <1>2 DEF TypeOK, RomStep, Enter, ParkLoop, StartCommand, Execute, Leave, Goto, HartPcs
<1>5. \A i \in Harts \ {h} : pc[i] = "resume" => op # "RESUMING"
  BY <1>1 DEF ResumesOnce
<1> QED BY <1>1, <1>3, <1>4, <1>5 DEF ResumesOnce

LEMMA RequestIsNewStep ==
    ASSUME CommandDebugger, CommandInv, NEW h \in Harts, NEW op \in Steps,
           NEW dmc, NEW err, NEW cmd, NEW valid, NEW auto, NEW dat, NEW hr, NEW push,
           Edge(dmc, err, cmd, valid, auto, dat, hr, push, h, op)
    PROVE  RequestIsNew'
<1> SUFFICES ASSUME dmcontrol'.resumereq
             PROVE  /\ state' = "Idle" => /\ resp_queue' >= 1 /\ hartsel' \in halted'
                                          /\ ~dmcontrol'.haltreq
                    /\ state' \notin {"Go", "CmdExecuting"}
  BY DEF RequestIsNew
<1>1. TypeOK
  BY DEF CommandInv, TrackInv, ActiveInv
<1>2. dmcontrol.dmactive
  BY <1>1, EdgeValues
<1>3. dmc.resumereq /\ ~(dmcontrol.resumereq /\ resuming # {})
  BY <1>1, <1>2, EdgeRequest
<1>4. op = "RESUMING" => state = "Resume"
  BY ResumeMoves DEF Edge
<1>5. CASE cmdbusy
  <2>1. dmcontrol.resumereq /\ resuming = {}
    BY <1>5, BusyEdge
  <2>2. state = "Resume"
    BY <1>1, <1>5, <2>1 DEF CommandInv, RequestIsNew, cmdbusy, TypeOK
  <2>3. state' = "Resume"
    BY <1>1, <2>1, <2>2, EdgeValues DEF state_d
  <2> QED BY <2>3
<1>6. CASE ~cmdbusy /\ dmcontrol.resumereq
  <2>1. /\ state = "Idle" /\ resp_queue >= 1 /\ resuming = {}
        /\ hartsel \in halted /\ ~dmcontrol.haltreq
    BY <1>3, <1>6 DEF CommandInv, RequestIsNew, cmdbusy
  <2>2. state' = "Resume"
    BY <1>1, <1>6, <2>1, EdgeValues DEF state_d, resumereq, haltreq
  <2> QED BY <2>2
<1>7. CASE ~cmdbusy /\ ~dmcontrol.resumereq
  <2>1. Asks(dmc)
    BY <1>3, <1>7 DEF Asks
  <2>2. ~cmd_valid /\ push = 1 /\ dmc.hartsel \in halted /\ ~dmc.haltreq
    BY <1>1, <2>1, EdgeRequest DEF CommandDebugger
  <2>3. state' = "Idle"
    BY <1>1, <1>7, <2>2, EdgeValues DEF state_d, resumereq, cmdbusy
  <2>4. resp_queue' >= 1
    BY <1>1, <2>2, EdgeRequest DEF CommandDebugger
  <2>5. halted \subseteq halted'
    BY <1>1, <1>4, <1>7, EdgeValues DEF cmdbusy
  <2>6. hartsel' = dmc.hartsel /\ dmcontrol'.haltreq = dmc.haltreq
    BY <1>1, <1>2, EdgeRequest DEF hartsel
  <2> QED BY <2>2, <2>3, <2>4, <2>5, <2>6
<1> QED BY <1>5, <1>6, <1>7

LEMMA ResumesOnceStep ==
    ASSUME CommandDebugger, CommandInv, NEW h \in Harts, NEW op \in Steps,
           NEW dmc, NEW err, NEW cmd, NEW valid, NEW auto, NEW dat, NEW hr, NEW push,
           Edge(dmc, err, cmd, valid, auto, dat, hr, push, h, op)
    PROVE  ResumesOnce'
<1>1. TypeOK
  BY DEF CommandInv, TrackInv, ActiveInv
<1>2. op = "RESUMING" => /\ state = "Resume" /\ h = hartsel /\ h \notin resuming
                         /\ pc'[h] = "run"
  BY ResumeMoves DEF Edge
<1>3. ASSUME NEW i \in Harts, pc'[i] = "resume"
      PROVE  state' = "Resume" /\ i = hartsel' /\ i \notin resuming'
  <2>1. \/ pc[i] = "resume" /\ op # "RESUMING"
        \/ pc[i] = "pollresume" /\ flag_resume(i)
    BY <1>3, ResumeMoves DEF Edge
  <2>2. state = "Resume" /\ i = hartsel
    BY <2>1 DEF CommandInv, ResumesOnce, flag_resume
  <2>3. i \notin resuming
    BY <2>1, <2>2 DEF CommandInv, ResumesOnce
  <2>4. i # h \/ op # "RESUMING"
    BY <1>2, <1>3
  <2>5. state' = "Resume"
    BY <1>1, <2>2, <2>3, EdgeValues DEF state_d
  <2>6. hartsel' = hartsel /\ i \notin resuming'
    BY <2>2, <2>3, <2>4, BusyEdge DEF cmdbusy
  <2> QED BY <2>2, <2>5, <2>6
<1>4. ASSUME state' = "Resume", hartsel' \in resuming'
      PROVE  pc'[hartsel'] = "run"
  <2>1. CASE state = "Resume"
    <3>1. hartsel \notin resuming
      BY <1>1, <1>4, <2>1, EdgeValues DEF state_d
    <3>2. hartsel' = hartsel /\ op = "RESUMING"
      BY <1>4, <2>1, <3>1, BusyEdge DEF cmdbusy
    <3> QED BY <1>2, <3>2
  <2>2. CASE state # "Resume"
    <3>1. state = "Idle" /\ dmcontrol.resumereq /\ hartsel \notin resuming
      BY <1>1, <1>4, <2>2, EdgeValues DEF state_d, resumereq, TypeOK
    <3>2. resp_queue >= 1 /\ op # "RESUMING"
      BY <1>2, <2>2, <3>1 DEF CommandInv, RequestIsNew
    <3>3. dmc = dmcontrol
      BY <1>1, <3>2, EdgeRequest DEF CommandDebugger
    <3>4. dmcontrol.dmactive
      BY <3>1 DEF CommandInv, TrackInv, ActiveInv
    <3>5. hartsel' = hartsel
      BY <1>1, <3>3, <3>4, EdgeRequest DEF hartsel
    <3>6. resuming' \subseteq resuming
      BY <1>1, <3>2, EdgeValues
    <3> QED BY <1>4, <3>1, <3>5, <3>6
  <2> QED BY <2>1, <2>2
<1> QED BY <1>3, <1>4 DEF ResumesOnce

LEMMA ValidInvStep ==
    ASSUME CommandDebugger, CommandInv, NEW h \in Harts, NEW op \in Steps,
           NEW dmc, NEW err, NEW cmd, NEW valid, NEW auto, NEW dat, NEW hr, NEW push,
           Edge(dmc, err, cmd, valid, auto, dat, hr, push, h, op)
    PROVE  ValidInv'
<1> SUFFICES ASSUME cmd_valid'
             PROVE  state' = "Idle" /\ ~dmcontrol'.resumereq /\ resp_queue' >= 1
  BY DEF ValidInv
<1> USE DEF CommandDebugger
<1>1. TypeOK
  BY DEF CommandInv, TrackInv, ActiveInv
<1>2. dmcontrol.dmactive /\ valid
  BY DEF Edge, Clock
<1>3. push = 1 /\ ~cmdbusy /\ dmc = dmcontrol
  BY <1>2 DEF Edge, Requested
<1>4. state = "Idle" /\ ~(resp_queue >= 1)
  BY <1>1, <1>3, EdgeRequest DEF cmdbusy
<1>5. ~dmcontrol.resumereq /\ ~cmd_valid
  BY <1>4 DEF CommandInv, RequestIsNew, ValidInv
<1>6. state' = "Idle"
  BY <1>1, <1>4, <1>5, EdgeValues DEF state_d, resumereq
<1>7. ~dmcontrol'.resumereq
  BY <1>1, <1>2, <1>3, <1>5, EdgeRequest
<1>8. resp_queue' >= 1
  BY <1>1, <1>3, EdgeRequest
<1> QED BY <1>6, <1>7, <1>8

-----------------------------------------------------------------------------
(* Where a command is, from the registers and the selected hart.           *)

PhaseView ==
    /\ state = "Idle" => phase = IF cmd_valid THEN "accepted" ELSE "idle"
    /\ state = "Resume" => phase = "idle"
    /\ state = "Go" => phase = "accepted"
    /\ state = "CmdExecuting" =>
          /\ pc[hartsel] = "whereto" => phase = "accepted"
          /\ pc[hartsel] = "exec" => phase = "executing"
          /\ pc[hartsel] = "exception" => phase = "faulted"
          /\ pc[hartsel] \notin {"whereto", "exec", "exception"} => phase = "finished"

LEMMA PhaseShows == CommandInv => PhaseView
<1> SUFFICES ASSUME CommandInv PROVE PhaseView
  OBVIOUS
<1> USE DEF PhaseView
<1>1. \A i \in Harts : pc[i] \in {"whereto", "exec", "exception"} =>
         state = "CmdExecuting" /\ i = hartsel
  BY DEF CommandInv, TrackInv, ExecutionTracked
<1>2. hartsel \in Harts
  BY DEF CommandInv, TrackInv, ActiveInv, TypeOK, dmcontrol_t, hartsel
<1>3. CASE state # "CmdExecuting"
  BY <1>1, <1>3 DEF phase, CommandInv, ValidInv
<1>4. CASE state = "CmdExecuting"
  BY <1>1, <1>2, <1>4 DEF phase, CommandInv, ValidInv
<1> QED BY <1>3, <1>4

\* The same in the next state.
LEMMA PhaseShowsNext == CommandInv' => PhaseView'
BY PhaseShows, PTL

\* cmderr while a command is in progress: an access may set it, only the
\* write of abstractcs clears it, and that is refused.
LEMMA ErrorStays ==
    ASSUME CommandDebugger, CommandInv, cmdbusy \/ cmd_valid,
           NEW h \in Harts, NEW op \in Steps,
           NEW dmc, NEW err, NEW cmd, NEW valid, NEW auto, NEW dat, NEW hr, NEW push,
           Edge(dmc, err, cmd, valid, auto, dat, hr, push, h, op)
    PROVE  /\ cmderr # CmdErrNone => cmderr' # CmdErrNone
           /\ cmderror_valid(op) => cmderr' # CmdErrNone
           /\ ~cmd_valid'
<1>1. dmcontrol.dmactive
  BY DEF CommandInv, TrackInv, ActiveInv, cmdbusy
<1>2. push = 0 \/ cmdbusy
  BY EdgeRequest DEF CommandInv, TrackInv, ActiveInv, ValidInv, CommandDebugger
<1>3. cmderror(op) # CmdErrNone
  BY DEF cmderror, CmdErrorException, CmdErrNotSupported, CmdErrorHaltResume, CmdErrNone
<1>4. cmderr # CmdErrNone => err # CmdErrNone
  BY <1>2 DEF Edge, Requested
<1>5. ~valid
  BY <1>2 DEF Edge, Requested
<1>6. cmderr' = (IF cmderror_valid(op) THEN cmderror(op) ELSE err) /\ cmd_valid' = valid
  BY <1>1 DEF Edge, Clock
<1> QED BY <1>3, <1>4, <1>5, <1>6

-----------------------------------------------------------------------------
(* Steps of AbstractCommand, one lemma for each state of dm_mem            *)

AbstractStep == [AC!Next]_(AC!vars)

\* Idle without a command: one is accepted, or cmderr may change.
LEMMA FromIdle ==
    ASSUME CommandDebugger, CommandInv, CommandInv', state = "Idle", ~cmd_valid,
           NEW h \in Harts, NEW op \in Steps,
           NEW dmc, NEW err, NEW cmd, NEW valid, NEW auto, NEW dat, NEW hr, NEW push,
           Edge(dmc, err, cmd, valid, auto, dat, hr, push, h, op)
    PROVE  AbstractStep
<1>1. phase = "idle"
  BY PhaseShows DEF PhaseView
<1>2. state' \in {"Idle", "Resume"}
  BY EdgeValues DEF state_d, CommandInv, TrackInv, ActiveInv
<1>3. CASE ~cmd_valid'
  <2>1. phase' = "idle"
    BY <1>2, <1>3, PhaseShowsNext DEF PhaseView
  <2> QED BY <1>1, <2>1 DEF AbstractStep, AC!Next, AC!SetError
<1>4. CASE cmd_valid'
  <2>1. phase' = "accepted"
    BY <1>4, PhaseShowsNext DEF PhaseView, CommandInv, ValidInv
  <2>2. dmcontrol.dmactive /\ valid
    BY <1>4 DEF Edge, Clock
  <2>3. err = cmderr
    BY <2>2 DEF Edge, Requested
  <2>4. op # "EXCEPTION"
    <3>1. pc[h] # "exception"
      BY DEF CommandInv, TrackInv, ExecutionTracked
    <3> QED BY <3>1 DEF Edge, CommandInv, TrackInv, RomStep, Enter, ParkLoop, StartCommand,
                        Execute, Leave
  <2>5. cmderr' = cmderr
    BY <2>2, <2>3, <2>4 DEF Edge, Clock, cmderror_valid
  <2> QED BY <1>1, <2>1, <2>5 DEF AbstractStep, AC!Next, AC!Accept, AC!MayAddError
<1> QED BY <1>3, <1>4

\* Idle with a command: the state machine takes it, or it is rejected.
LEMMA FromValid ==
    ASSUME CommandDebugger, CommandInv, CommandInv', cmd_valid,
           NEW h \in Harts, NEW op \in Steps,
           NEW dmc, NEW err, NEW cmd, NEW valid, NEW auto, NEW dat, NEW hr, NEW push,
           Edge(dmc, err, cmd, valid, auto, dat, hr, push, h, op)
    PROVE  AbstractStep
<1>1. state = "Idle" /\ ~dmcontrol.resumereq /\ phase = "accepted"
  BY PhaseShows DEF PhaseView, CommandInv, ValidInv
<1>2. /\ cmderr # CmdErrNone => cmderr' # CmdErrNone
      /\ cmderror_valid(op) => cmderr' # CmdErrNone
      /\ ~cmd_valid'
  BY ErrorStays
<1>3. CASE hartsel \in halted /\ ~unsupported_command
  <2>1. state' = "Go"
    BY <1>1, <1>3, EdgeValues DEF state_d, resumereq, CommandInv, TrackInv, ActiveInv
  <2>2. phase' = "accepted"
    BY <2>1, PhaseShowsNext DEF PhaseView
  <2> QED BY <1>1, <1>2, <2>2 DEF AbstractStep, AC!Next, AC!Busy, AC!vars
<1>4. CASE hartsel \notin halted \/ unsupported_command
  <2>1. state' = "Idle"
    BY <1>1, <1>4, EdgeValues DEF state_d, resumereq, CommandInv, TrackInv, ActiveInv
  <2>2. phase' = "idle"
    BY <1>2, <2>1, PhaseShowsNext DEF PhaseView
  <2>3. cmderr' # CmdErrNone
    BY <1>1, <1>2, <1>4 DEF cmderror_valid
  <2> QED BY <1>1, <2>2, <2>3 DEF AbstractStep, AC!Next, AC!Reject
<1> QED BY <1>3, <1>4

LEMMA FromResume ==
    ASSUME CommandDebugger, CommandInv, CommandInv', state = "Resume",
           NEW h \in Harts, NEW op \in Steps,
           NEW dmc, NEW err, NEW cmd, NEW valid, NEW auto, NEW dat, NEW hr, NEW push,
           Edge(dmc, err, cmd, valid, auto, dat, hr, push, h, op)
    PROVE  AbstractStep
<1>1. state' \in {"Idle", "Resume"}
  BY EdgeValues DEF state_d, CommandInv, TrackInv, ActiveInv
<1>2. ~cmd_valid'
  BY ErrorStays DEF cmdbusy
<1>3. phase = "idle" /\ phase' = "idle"
  BY <1>1, <1>2, PhaseShows, PhaseShowsNext DEF PhaseView
<1> QED BY <1>3 DEF AbstractStep, AC!Next, AC!SetError

\* A step that leaves the command where it is.
LEMMA CommandWaits ==
    ASSUME phase # "idle", phase' = phase, cmderr # CmdErrNone => cmderr' # CmdErrNone
    PROVE  AbstractStep
BY DEF AbstractStep, AC!Next, AC!Busy, AC!vars

LEMMA FromGo ==
    ASSUME CommandDebugger, CommandInv, CommandInv', state = "Go",
           NEW h \in Harts, NEW op \in Steps,
           NEW dmc, NEW err, NEW cmd, NEW valid, NEW auto, NEW dat, NEW hr, NEW push,
           Edge(dmc, err, cmd, valid, auto, dat, hr, push, h, op)
    PROVE  AbstractStep
<1>1. cmderr # CmdErrNone => cmderr' # CmdErrNone
  BY ErrorStays DEF cmdbusy
<1>2. phase = "accepted"
  BY PhaseShows DEF PhaseView
<1>3. CASE op # "GOING"
  <2>1. state' = "Go"
    BY <1>3, EdgeValues DEF state_d, CommandInv, TrackInv, ActiveInv
  <2>2. phase' = "accepted"
    BY <2>1, PhaseShowsNext DEF PhaseView
  <2> QED BY <1>1, <1>2, <2>2, CommandWaits
<1>4. CASE op = "GOING"
  <2>1. state' = "CmdExecuting"
    BY <1>4, EdgeValues DEF state_d, CommandInv, TrackInv, ActiveInv
  <2>2. pc[h] = "going"
    BY <1>4, HartMoves DEF Edge, CommandInv, TrackInv, ActiveInv
  <2>3. h = hartsel /\ hartsel' = hartsel
    BY <2>2, BusyEdge DEF CommandInv, TrackInv, ExecutionTracked, cmdbusy
  <2>4. pc'[h] = "whereto"
    BY <1>4, <2>2 DEF Edge, CommandInv, TrackInv, ActiveInv, TypeOK, RomStep, Enter, ParkLoop,
       StartCommand, Execute, Leave, Goto
  <2>5. phase' = "accepted"
    BY <2>1, <2>3, <2>4, PhaseShowsNext DEF PhaseView
  <2> QED BY <1>1, <1>2, <2>5, CommandWaits
<1> QED BY <1>3, <1>4

\* Where the selected hart may go while its command is tracked.
LEMMA SelectedMoves ==
    ASSUME CommandInv, state = "CmdExecuting", NEW h \in Harts, NEW op \in Steps,
           RomStep(h, op)
    PROVE  LET here == pc[hartsel]
               next == pc'[hartsel]
           IN  /\ here = "whereto"   => next \in {"whereto", "exec"}
               /\ here = "exec"      => next \in {"exec", "entry", "exception"}
               /\ here = "exception" => \/ next = "exception"
                                        \/ next = "entry" /\ op = "EXCEPTION"
               /\ here \notin {"whereto", "exec", "exception"} =>
                     next \notin {"whereto", "exec", "exception"}
<1>1. hartsel \in Harts
  BY DEF CommandInv, TrackInv, ActiveInv, TypeOK, dmcontrol_t, hartsel
<1>2. CASE h = hartsel
  <2>1. pc[h] # "going"
    BY DEF CommandInv, TrackInv, ExecutionTracked
  <2>2. cmdbusy
    BY DEF cmdbusy
  <2> QED BY <1>2, <2>1, <2>2 DEF CommandInv, TrackInv, ActiveInv, TypeOK, RomStep, Enter, ParkLoop,
      StartCommand, Execute, Leave, Goto, HartPcs
<1>3. CASE h # hartsel
  <2>1. pc'[hartsel] = pc[hartsel]
    BY <1>1, <1>3, HartMoves DEF CommandInv, TrackInv, ActiveInv
  <2> QED BY <2>1
<1> QED BY <1>2, <1>3

LEMMA FromCmdExecuting ==
    ASSUME CommandDebugger, CommandInv, CommandInv', state = "CmdExecuting",
           NEW h \in Harts, NEW op \in Steps,
           NEW dmc, NEW err, NEW cmd, NEW valid, NEW auto, NEW dat, NEW hr, NEW push,
           Edge(dmc, err, cmd, valid, auto, dat, hr, push, h, op)
    PROVE  AbstractStep
<1> DEFINE here == pc[hartsel]
           next == pc'[hartsel]
<1>1. /\ cmderr # CmdErrNone => cmderr' # CmdErrNone
      /\ cmderror_valid(op) => cmderr' # CmdErrNone
      /\ ~cmd_valid'
  BY ErrorStays DEF cmdbusy
<1>2. hartsel' = hartsel
  BY BusyEdge DEF CommandInv, cmdbusy
<1>3. state' = IF op = "HALTED" /\ h = hartsel THEN "Idle" ELSE "CmdExecuting"
  BY EdgeValues DEF state_d, CommandInv, TrackInv, ActiveInv
<1>4. op = "HALTED" /\ h = hartsel => here = "entry" /\ next = "pollgo"
  BY HartMoves DEF Edge, CommandInv, TrackInv, ActiveInv
<1>5. CASE here = "whereto"
  <2>1. phase = "accepted" /\ state' = "CmdExecuting"
    BY <1>3, <1>4, <1>5, PhaseShows DEF PhaseView
  <2>2. CASE next = "whereto"
    <3>1. phase' = "accepted"
      BY <1>2, <2>1, <2>2, PhaseShowsNext DEF PhaseView
    <3> QED BY <1>1, <2>1, <3>1, CommandWaits
  <2>3. CASE next = "exec"
    <3>1. phase' = "executing"
      BY <1>2, <2>1, <2>3, PhaseShowsNext DEF PhaseView
    <3> QED BY <1>1, <2>1, <3>1 DEF AbstractStep, AC!Next, AC!Start, AC!MayAddError
  <2> QED BY <1>5, <2>2, <2>3, SelectedMoves DEF Edge
<1>6. CASE here = "exec"
  <2>1. phase = "executing" /\ state' = "CmdExecuting"
    BY <1>3, <1>4, <1>6, PhaseShows DEF PhaseView
  <2>2. CASE next = "exec"
    <3>1. phase' = "executing"
      BY <1>2, <2>1, <2>2, PhaseShowsNext DEF PhaseView
    <3> QED BY <1>1, <2>1, <3>1, CommandWaits
  <2>3. CASE next = "entry"
    <3>1. phase' = "finished"
      BY <1>2, <2>1, <2>3, PhaseShowsNext DEF PhaseView
    <3> QED BY <1>1, <2>1, <3>1 DEF AbstractStep, AC!Next, AC!Finish, AC!MayAddError
  <2>4. CASE next = "exception"
    <3>1. phase' = "faulted"
      BY <1>2, <2>1, <2>4, PhaseShowsNext DEF PhaseView
    <3> QED BY <1>1, <2>1, <3>1 DEF AbstractStep, AC!Next, AC!Fault, AC!MayAddError
  <2> QED BY <1>6, <2>2, <2>3, <2>4, SelectedMoves DEF Edge
<1>7. CASE here = "exception"
  <2>1. phase = "faulted" /\ state' = "CmdExecuting"
    BY <1>3, <1>4, <1>7, PhaseShows DEF PhaseView
  <2>2. CASE next = "exception"
    <3>1. phase' = "faulted"
      BY <1>2, <2>1, <2>2, PhaseShowsNext DEF PhaseView
    <3> QED BY <1>1, <2>1, <3>1, CommandWaits
  <2>3. CASE next = "entry" /\ op = "EXCEPTION"
    <3>1. phase' = "finished"
      BY <1>2, <2>1, <2>3, PhaseShowsNext DEF PhaseView
    <3>2. cmderr' # CmdErrNone
      BY <1>1, <2>3 DEF cmderror_valid
    <3> QED BY <2>1, <3>1, <3>2 DEF AbstractStep, AC!Next, AC!Report
  <2> QED BY <1>7, <2>2, <2>3, SelectedMoves DEF Edge
<1>8. CASE here \notin {"whereto", "exec", "exception"}
  <2>1. phase = "finished"
    BY <1>8, PhaseShows DEF PhaseView
  <2>2. CASE state' = "Idle"
    <3>1. phase' = "idle"
      BY <1>1, <2>2, PhaseShowsNext DEF PhaseView
    <3> QED BY <1>1, <2>1, <3>1 DEF AbstractStep, AC!Next, AC!End, AC!MayAddError
  <2>3. CASE state' = "CmdExecuting"
    <3>1. next \notin {"whereto", "exec", "exception"}
      BY <1>8, SelectedMoves DEF Edge
    <3>2. phase' = "finished"
      BY <1>2, <2>3, <3>1, PhaseShowsNext DEF PhaseView
    <3> QED BY <1>1, <2>1, <3>2, CommandWaits
  <2> QED BY <1>3, <2>2, <2>3
<1> QED BY <1>5, <1>6, <1>7, <1>8

-----------------------------------------------------------------------------
LEMMA CommandInvStep ==
    ASSUME CommandDebugger, CommandInv, TrackInv', [Next]_vars
    PROVE  CommandInv' /\ AbstractStep
<1>1. CASE Next
  <2>1. PICK h \in Harts, op \in Steps :
           \E dmc, err, cmd, valid, auto, dat, hr, push :
              Edge(dmc, err, cmd, valid, auto, dat, hr, push, h, op)
    BY <1>1, NextEdge DEF CommandInv, TrackInv, ActiveInv
  <2>2. PICK dmc, err, cmd, valid, auto, dat, hr, push :
           Edge(dmc, err, cmd, valid, auto, dat, hr, push, h, op)
    BY <2>1
  <2>3. CommandInv'
    <3>1. RequestIsNew'
      BY <2>2, RequestIsNewStep
    <3>2. ResumesOnce'
      BY <2>2, ResumesOnceStep
    <3>3. ValidInv'
      BY <2>2, ValidInvStep
    <3> QED BY <3>1, <3>2, <3>3 DEF CommandInv
  <2>4. state \in {"Idle", "Go", "Resume", "CmdExecuting"}
    BY DEF CommandInv, TrackInv, ActiveInv, TypeOK
  <2>5. AbstractStep
    BY <2>2, <2>3, <2>4, FromIdle, FromValid, FromResume, FromGo, FromCmdExecuting
  <2> QED BY <2>3, <2>5
<1>2. CASE UNCHANGED vars
  <2>1. CommandInv'
    BY <1>2 DEF vars, CommandInv, RequestIsNew, ResumesOnce, ValidInv, hartsel
  <2>2. UNCHANGED <<phase, cmderr>>
    BY <1>2 DEF vars, phase
  <2> QED BY <2>1, <2>2 DEF AbstractStep, AC!vars
<1> QED BY <1>1, <1>2

LEMMA AbstractInit == Init => AC!Init
BY DEF Init, AC!Init, phase, CmdErrNone

\* The debug module implements AbstractCommand: every accepted command is
\* rejected with an error or executed once and to its end, a fault is in cmderr
\* before busy falls, and cmderr is cleared only between commands
\* (p_hart_ctrl_queue of dm_mem.sv, csr_read_write of dm_csrs.sv).  The
\* debugger may select a hart and resume it in one write.
THEOREM CommandsAreAbstract ==
    ASSUME CommandDebugger PROVE Spec => ImplementsAbstractCommand
<1>1. Init => RequestIsNew /\ ResumesOnce /\ ValidInv /\ AC!Init
  BY CommandInit, AbstractInit
<1>2. /\ TrackInv /\ TrackInv' /\ RequestIsNew /\ ResumesOnce /\ ValidInv /\ [Next]_vars
      => RequestIsNew' /\ ResumesOnce' /\ ValidInv' /\ [AC!Next]_(AC!vars)
  BY CommandInvStep DEF CommandInv, AbstractStep
<1>3. Spec => []TrackInv
  BY TrackInvariant DEF CommandDebugger
<1>4. Spec => AC!Init /\ [][AC!Next]_(AC!vars)
  BY <1>1, <1>2, <1>3, PTL DEF Spec
<1> QED BY <1>4 DEF ImplementsAbstractCommand, AC!Spec

=============================================================================
