---------------------------- MODULE DebugModule ----------------------------
(***************************************************************************)
(* Run control and abstract commands of the debug module: the registers of *)
(* src/dm_csrs.sv, the hart control state machine and shared memory of     *)
(* src/dm_mem.sv, and the harts in the debug ROM (debug_rom/debug_rom.S).  *)
(*                                                                         *)
(* The hardware is synchronous: one step is one rising clock edge.  In a   *)
(* step the DMI port carries a request or none, and at most one hart h     *)
(* takes a step op, which may be an access to the slave port of dm_mem.    *)
(* The always_comb nets are operators over the registers and h, op; Clock  *)
(* is the always_ff blocks.                                                *)
(*                                                                         *)
(* cmderr is the set of its bits that are 1, so that write-1-to-clear is   *)
(* set difference, as in the code.                                         *)
(***************************************************************************)
EXTENDS Naturals, FiniteSets

CONSTANTS
    NrHarts,         \* harts 0 .. NrHarts-1, all selectable
    Values,          \* contents of the Data registers
    Commands,        \* kinds of command the debugger writes
    AutoRegs,        \* registers whose autoexec bit the debugger uses
    MaxOutstanding,  \* DMI requests the DTM may have without a response
    Discipline,      \* the debugger obeys Disciplined
    SelectAndResume, \* one dmcontrol write may change hartsel and resume
    Resets,          \* the debugger uses ndmreset and dmactive = 0
    Acks             \* values of ackhavereset it writes

\* What p_abstract_cmd_rom tells apart: a program (register transfer, program
\* buffer or both), neither of them (abstract_cmd[0] is then
\* an illegal instruction), and an unsupported command.
CommandKinds == {"program", "illegal", "unsupported"}

ASSUME DebugModuleAssumption ==
    /\ NrHarts \in Nat \ {0}
    /\ Values # {}
    /\ Commands \subseteq CommandKinds
    /\ AutoRegs \subseteq {"Data0", "ProgBuf0"}
    /\ MaxOutstanding \in {1, 2}
    /\ {Discipline, SelectAndResume, Resets} \subseteq BOOLEAN
    /\ Acks \subseteq BOOLEAN

VARIABLES
    dmcontrol,     \* dmcontrol_q, the fields that are kept
    cmderr,        \* cmderr_q
    command,       \* command_q
    cmd_valid,     \* cmd_valid_q
    abstractauto,  \* abstractauto_q
    data,          \* data_q
    havereset,     \* havereset_q
    resp_queue,    \* fill level of the response FIFO
    state,         \* dm_mem: state_q
    halted,        \* dm_mem: halted_q
    resuming,      \* dm_mem: resuming_q
    pc,            \* where each hart is in the debug ROM
    owed           \* history: harts told to resume that have not yet done so

vars == <<dmcontrol, cmderr, command, cmd_valid, abstractauto, data, havereset,
          resp_queue, state, halted, resuming, pc, owed>>

Harts == 0 .. NrHarts - 1

\* cmderr_e
CmdErrNone         == {}
CmdErrBusy         == {0}
CmdErrNotSupported == {1}
CmdErrorException  == {0, 1}
CmdErrorHaltResume == {2}
CmdErrBits         == {0, 1, 2}

dmcontrol_t == [haltreq : BOOLEAN, resumereq : BOOLEAN, ndmreset : BOOLEAN,
                dmactive : BOOLEAN, hartsel : Harts]

\* The value of dmcontrol_q after reset, with the one bit that is writable
\* while the debug module is inactive.
InactiveControl(active) ==
    [haltreq |-> FALSE, resumereq |-> FALSE, ndmreset |-> FALSE,
     dmactive |-> active, hartsel |-> 0]

DataReset == CHOOSE v \in Values : TRUE

\* A hart runs its program, is at one of the bus accesses of debug_rom.S, or
\* executes the program of an abstract command.
HartPcs == {"run", "entry", "pollgo", "pollresume", "going", "whereto",
            "exec", "exception", "resume"}
Parked  == {"entry", "pollgo", "pollresume"}

-----------------------------------------------------------------------------
(* Nets *)

hartsel == dmcontrol.hartsel
\* Mutant: busy only from the acknowledge of the hart on.
cmdbusy_AfterGoing == state = "CmdExecuting"
cmdbusy == state # "Idle"
unsupported_command == command = "unsupported"

\* haltreq_o and resumereq_o: only the selected hart's bit can be set.
haltreq(h)   == dmcontrol.haltreq /\ h = hartsel
resumereq(h) == dmcontrol.resumereq /\ h = hartsel

\* The flag byte a hart reads: the selected hart sees go and resume.
flag_go_AnyHart(h)  == state = "Go"           \* mutant: not per hart
flag_go_HartZero(h) == state = "Go" /\ h = 0  \* mutant: wrong hart's byte
flag_go(h)     == state = "Go" /\ h = hartsel
flag_resume(h) == state = "Resume" /\ h = hartsel

\* The error the hart control queue reports in this cycle; later
\* assignments of p_hart_ctrl_queue override earlier ones.
cmderror_valid_NoHaltCheck(op) ==  \* mutant: a running hart is no error
    (cmd_valid /\ unsupported_command) \/ op = "EXCEPTION"
cmderror_valid(op) ==
    \/ cmd_valid /\ unsupported_command
    \/ cmd_valid /\ state = "Idle" /\ hartsel \notin halted
    \/ op = "EXCEPTION"

cmderror(op) == IF op = "EXCEPTION" THEN CmdErrorException
                ELSE IF unsupported_command THEN CmdErrNotSupported
                ELSE CmdErrorHaltResume

-----------------------------------------------------------------------------
(* The next value of dm_mem's registers when hart h does op.  clear is the *)
(* net clear_resumeack.                                                    *)

\* Mutant: CmdExecuting waits for halted_q to rise, not for the write.
state_d_HaltedEdge(h, op) ==
    CASE state = "Idle" ->
            IF cmd_valid /\ hartsel \in halted /\ ~unsupported_command
            THEN "Go" ELSE "Idle"
      [] state = "Go"     -> IF op = "GOING" THEN "CmdExecuting" ELSE "Go"
      [] OTHER            -> IF op = "HALTED" /\ h = hartsel /\ h \notin halted
                             THEN "Idle" ELSE "CmdExecuting"

\* In Idle the resume request overrides the go of a command.
state_d(h, op) ==
    CASE state = "Idle" ->
            IF /\ resumereq(hartsel) /\ ~haltreq(hartsel)
               /\ hartsel \in halted \ resuming
            THEN "Resume"
            ELSE IF cmd_valid /\ hartsel \in halted /\ ~unsupported_command
            THEN "Go" ELSE "Idle"
      [] state = "Go"     -> IF op = "GOING" THEN "CmdExecuting" ELSE "Go"
      [] state = "Resume" -> IF hartsel \in resuming THEN "Idle" ELSE "Resume"
      [] OTHER            -> IF op = "HALTED" /\ h = hartsel
                             THEN "Idle" ELSE "CmdExecuting"

\* Mutants: halted_q survives the resume; it is set after commands only.
halted_d_Sticky(h, op) == IF op = "HALTED" THEN halted \union {h} ELSE halted
halted_d_AfterCommand(h, op) ==
    CASE op = "HALTED" /\ cmdbusy -> halted \union {h}
      [] op = "RESUMING"           -> halted \ {h}
      [] OTHER                     -> halted

halted_d(h, op) == CASE op = "HALTED"   -> halted \union {h}
                     [] op = "RESUMING" -> halted \ {h}
                     [] OTHER           -> halted

resuming_d_NoClear(h, op, clear) ==  \* mutant: the old acknowledge stays
    resuming \union (IF op = "RESUMING" THEN {h} ELSE {})
resuming_d(h, op, clear) ==
    (IF clear THEN resuming \ {hartsel} ELSE resuming)
        \union (IF op = "RESUMING" THEN {h} ELSE {})

-----------------------------------------------------------------------------
(* The harts.  RomStep(h, op) is one step of hart h: an access of the ROM  *)
(* to dm_mem, named after the address it writes or the flag it reads, or a *)
(* step on its own (stall, enter, ebreak, trap).                           *)

Goto(h, next) == pc' = [pc EXCEPT ![h] = next]

OwnSteps == {"stall", "enter", "ebreak", "trap"}
BusSteps == {"HALTED", "GO", "RESUME", "GOING", "WHERETO", "DATA",
             "EXCEPTION", "RESUMING"}

\* A running hart enters debug mode when debug_req_o asks it to, or at an
\* ebreak or a single step of its own.
Enter(h, op) == op = "enter" /\ pc[h] = "run" /\ Goto(h, "entry")

\* entry_loop: report halted, poll the go flag, poll the resume flag.
ParkLoop(h, op) ==
    \/ op = "HALTED" /\ pc[h] = "entry" /\ Goto(h, "pollgo")
    \/ op = "GO" /\ pc[h] = "pollgo"
         /\ Goto(h, IF flag_go(h) THEN "going" ELSE "pollresume")
    \/ op = "RESUME" /\ pc[h] = "pollresume"
         /\ Goto(h, IF flag_resume(h) THEN "resume" ELSE "entry")

\* going: acknowledge and jump to whereto.  While cmdbusy the word there jumps
\* to the command; otherwise it is the last word any hart read, or resume.
StartCommand(h, op) ==
    \/ op = "GOING" /\ pc[h] = "going" /\ Goto(h, "whereto")
    \/ /\ op = "WHERETO" /\ pc[h] = "whereto"
       /\ \E next \in {"exec", "resume"} :
             (cmdbusy => next = "exec") /\ Goto(h, next)

\* The abstract command and the program buffer may write Data registers; they
\* end at ebreak, back at entry, or with a trap to exception.
Execute(h, op) ==
    /\ pc[h] = "exec"
    /\ \/ op = "DATA" /\ command # "illegal" /\ Goto(h, "exec")
       \/ op = "ebreak" /\ command # "illegal" /\ Goto(h, "entry")
       \/ op = "trap" /\ Goto(h, "exception")

\* _exception and _resume.
Leave(h, op) ==
    \/ op = "EXCEPTION" /\ pc[h] = "exception" /\ Goto(h, "entry")
    \/ op = "RESUMING" /\ pc[h] = "resume" /\ Goto(h, "run")

RomStep(h, op) ==
    IF dmcontrol.ndmreset
    THEN op = "stall" /\ pc' = [i \in Harts |-> "run"]
    ELSE \/ op = "stall" /\ pc' = pc
         \/ Enter(h, op)
         \/ ParkLoop(h, op)
         \/ StartCommand(h, op)
         \/ Execute(h, op)
         \/ Leave(h, op)

-----------------------------------------------------------------------------
(* The clock edge.  The arguments are the values csr_read_write gives to   *)
(* the registers from the DMI request of this cycle; what it assigns       *)
(* whatever the request is (cmderror_valid, data_valid, ndmreset and the   *)
(* clearing of resumereq) is in Clock.                                     *)

resumeack_clears_Always(dmc) ==  \* mutant: a request dropped as it is made
    [dmc EXCEPT !.resumereq = @ /\ resuming = {}]
resumeack_clears(dmc) ==
    [dmc EXCEPT !.resumereq = @ /\ ~(dmcontrol.resumereq /\ resuming # {})]

Clock(dmc, err, cmd, valid, auto, dat, hr, push, h, op) ==
    LET clear == ~dmcontrol.resumereq /\ dmc.resumereq
        asked == clear /\ dmc.hartsel \in halted /\ ~dmc.haltreq
    IN
    /\ IF dmcontrol.dmactive
       THEN /\ dmcontrol' = resumeack_clears(dmc)
            /\ cmderr' = IF cmderror_valid(op) THEN cmderror(op) ELSE err
            /\ command' = cmd
            /\ cmd_valid' = valid
            /\ abstractauto' = auto
            /\ data' \in IF op = "DATA" THEN Values ELSE {dat}
       ELSE /\ dmcontrol' = InactiveControl(dmc.dmactive)
            /\ cmderr' = CmdErrNone
            /\ command' = "illegal"  \* all bits 0: no transfer, no postexec
            /\ cmd_valid' = FALSE
            /\ abstractauto' = {}
            /\ data' = DataReset
    /\ havereset' = IF dmcontrol.ndmreset THEN Harts ELSE hr
    /\ \E pop \in {0, 1} : /\ pop <= resp_queue
                           /\ resp_queue' = resp_queue + push - pop
    /\ state' = state_d(h, op)
    /\ halted' = halted_d(h, op)
    /\ resuming' = resuming_d(h, op, clear)
    /\ owed' = IF dmcontrol.dmactive /\ ~dmcontrol.ndmreset
               THEN (owed \union (IF asked THEN {dmc.hartsel} ELSE {}))
                       \ (IF op = "RESUMING" THEN {h} ELSE {})
               ELSE {}

-----------------------------------------------------------------------------
(* What the DMI port does in a cycle.                                      *)

\* The request is taken when the response FIFO has room and the DTM has not
\* MaxOutstanding requests without a response already.
Accepted_NoReady == TRUE  \* mutant: a request is taken with the FIFO full
Accepted == resp_queue < MaxOutstanding /\ resp_queue < 2

NoRequest(h, op) ==
    Clock(dmcontrol, cmderr, command, FALSE, abstractauto, data, havereset,
          0, h, op)

\* Reads of dmstatus, abstractcs, dmcontrol and the like change no register.
ReadStatus(h, op) ==
    /\ Accepted
    /\ Clock(dmcontrol, cmderr, command, FALSE, abstractauto, data, havereset,
             1, h, op)

\* A register that may not be accessed while a command runs.
RefuseBusy(h, op) ==
    /\ Accepted /\ cmdbusy
    /\ Clock(dmcontrol, IF cmderr = CmdErrNone THEN CmdErrBusy ELSE cmderr,
             command, FALSE, abstractauto, data, havereset, 1, h, op)

\* Data and program buffer registers, which may start the command again.
AccessData(h, op) ==
    /\ Accepted /\ ~cmdbusy
    /\ \E dat \in Values :
          Clock(dmcontrol, cmderr, command, "Data0" \in abstractauto,
                abstractauto, dat, havereset, 1, h, op)

ReadData(h, op) ==
    /\ Accepted /\ ~cmdbusy
    /\ Clock(dmcontrol, cmderr, command, "Data0" \in abstractauto,
             abstractauto, data, havereset, 1, h, op)

AccessProgBuf(h, op) ==
    /\ Accepted /\ ~cmdbusy
    /\ Clock(dmcontrol, cmderr, command, "ProgBuf0" \in abstractauto,
             abstractauto, data, havereset, 1, h, op)

WriteCommand(h, op) ==
    /\ Accepted /\ ~cmdbusy
    /\ \E cmd \in Commands :
          Clock(dmcontrol, cmderr, cmd, TRUE, abstractauto, data, havereset,
                1, h, op)

WriteAbstractCS(h, op) ==
    /\ Accepted /\ ~cmdbusy
    /\ \E mask \in {CmdErrBits, CmdErrBusy} :
          Clock(dmcontrol, cmderr \ mask, command, FALSE, abstractauto, data,
                havereset, 1, h, op)

WriteAbstractAuto(h, op) ==
    /\ Accepted /\ ~cmdbusy
    /\ \E auto \in SUBSET AutoRegs :
          Clock(dmcontrol, cmderr, command, FALSE, auto, data, havereset,
                1, h, op)

\* What the debug specification asks of a debugger that writes dmcontrol: no
\* new hart and no request while a command is in progress, and a resume
\* request only for a hart that is halted.
Disciplined(w) ==
    /\ cmdbusy \/ cmd_valid =>
          w.hartsel = hartsel /\ ~w.haltreq /\ ~w.resumereq
    /\ w.resumereq => w.hartsel \in halted /\ ~w.haltreq

MayWrite(w) ==
    /\ Discipline => Disciplined(w)
    /\ ~SelectAndResume => (w.resumereq => w.hartsel = hartsel)
    /\ ~Resets => w.dmactive /\ ~w.ndmreset

\* ackhavereset acts on the hart selected before the write.
WriteDMControl(h, op) ==
    /\ Accepted
    /\ \E w \in dmcontrol_t, ackhavereset \in Acks :
          /\ MayWrite(w)
          /\ Clock(w, cmderr, command, FALSE, abstractauto, data,
                   IF ackhavereset THEN havereset \ {hartsel} ELSE havereset,
                   1, h, op)

-----------------------------------------------------------------------------
Init ==
    /\ dmcontrol = InactiveControl(FALSE)
    /\ cmderr = CmdErrNone
    /\ command = "illegal"
    /\ cmd_valid = FALSE
    /\ abstractauto = {}
    /\ data = DataReset
    /\ havereset = Harts
    /\ resp_queue = 0
    /\ state = "Idle"
    /\ halted = {}
    /\ resuming = {}
    /\ pc = [h \in Harts |-> "run"]
    /\ owed = {}

Dmi(h, op) ==
    \/ NoRequest(h, op)
    \/ ReadStatus(h, op)
    \/ RefuseBusy(h, op)
    \/ AccessData(h, op)
    \/ ReadData(h, op)
    \/ AccessProgBuf(h, op)
    \/ WriteCommand(h, op)
    \/ WriteAbstractCS(h, op)
    \/ WriteAbstractAuto(h, op)
    \/ WriteDMControl(h, op)

Cycle(h, op) == RomStep(h, op) /\ Dmi(h, op)

Next == \E h \in Harts, op \in OwnSteps \union BusSteps : Cycle(h, op)

Spec == Init /\ [][Next]_vars

RomProgress == {"ebreak", "trap", "HALTED", "GO", "RESUME", "GOING",
                "WHERETO", "EXCEPTION", "RESUMING"}

\* The clock runs; a hart in the debug ROM keeps executing, the program of a
\* command ends, and a hart whose debug_req_o stays high enters debug mode.
Fairness ==
    /\ WF_vars(\E h \in Harts : Cycle(h, "stall"))
    /\ \A h \in Harts :
          /\ WF_vars(\E op \in RomProgress : Cycle(h, op))
          /\ WF_vars(haltreq(h) /\ Cycle(h, "enter"))

FairSpec == Spec /\ Fairness

-----------------------------------------------------------------------------
(* Properties *)

\* Type correctness of the registers.
TypeOK ==
    /\ dmcontrol \in dmcontrol_t
    /\ cmderr \subseteq CmdErrBits
    /\ command \in CommandKinds
    /\ cmd_valid \in BOOLEAN
    /\ abstractauto \subseteq AutoRegs
    /\ data \in Values
    /\ havereset \subseteq Harts
    /\ resp_queue \in 0 .. 2
    /\ state \in {"Idle", "Go", "Resume", "CmdExecuting"}
    /\ halted \subseteq Harts
    /\ resuming \subseteq Harts
    /\ pc \in [Harts -> HartPcs]
    /\ owed \subseteq Harts

\* A hart leaves the park loop for a command only while the state machine
\* tracks that command, and only the selected hart does: abstractcs.busy
\* covers every instruction the command executes (dm_mem.sv, Go and
\* CmdExecuting; debug_rom.S, going).
ExecutionTracked ==
    \A h \in Harts :
        /\ pc[h] = "going" => state = "Go" /\ h = hartsel
        /\ pc[h] \in {"whereto", "exec", "exception"} =>
              state = "CmdExecuting" /\ h = hartsel

\* dmstatus never reports a hart halted that is running its program
\* (halted_q of dm_mem.sv against the position of the hart).
HaltedIsParked == \A h \in halted : pc[h] # "run"

\* dmstatus.resumeack is raised for a hart only if it has resumed since the
\* debugger last asked it to (dm_csrs.sv clear_resumeack_o, dm_mem.sv
\* resuming_q).
ResumeAckFresh == owed \intersect resuming = {}

\* No resume request is dropped: while one is owed, dmcontrol still holds it
\* or the state machine is serving it for that hart.
ResumeNotDropped ==
    \A h \in owed : /\ h = hartsel
                    /\ dmcontrol.resumereq \/ state = "Resume"

\* From the write that starts a command until the command has ended, neither
\* the command nor the Data registers change, except that the hart itself
\* stores its result (the guards on cmdbusy_i in csr_read_write, and the one
\* cycle in which cmd_valid_q is set and cmdbusy is not yet).
CommandInputsStable ==
    [][cmd_valid \/ state \in {"Go", "CmdExecuting"} =>
          /\ command' = command
          /\ data' # data => \E h \in Harts : pc[h] = "exec"]_vars

\* Which part of the life of a command the registers and the harts show.
phase ==
    IF \E h \in Harts : pc[h] = "exec" THEN "executing"
    ELSE IF \E h \in Harts : pc[h] = "exception" THEN "faulted"
    ELSE IF cmd_valid \/ state = "Go" \/ \E h \in Harts : pc[h] = "whereto"
         THEN "accepted"
    ELSE IF state = "CmdExecuting" THEN "finished"
    ELSE "idle"

\* The command interface a debugger relies on.
AC == INSTANCE AbstractCommand
          WITH phase <- phase, error <- cmderr # CmdErrNone

\* Every accepted command is rejected with an error or executed exactly once
\* and to its end, faults are reported before busy falls, and errors are
\* cleared only between commands: the debug module implements
\* AbstractCommand.
ImplementsAbstractCommand == AC!Spec

\* Progress of the same interface: busy always falls again, because the hart
\* that takes the go flag acknowledges it, runs and comes back to entry.
CommandTerminates == AC!Terminates

\* A halt request that is held is served (haltreq_o, debug_req_o, the HALTED
\* write of entry_loop).
HaltServed ==
    \A h \in Harts : haltreq(h) ~> (h \in halted \/ ~haltreq(h))

\* A resume request the debug module accepted is served.
ResumeServed == \A h \in Harts : (h \in owed) ~> (h \notin owed)

\* Whatever happened before, resets of harts and of the debug module
\* included: a debugger that keeps the debug module active and keeps its
\* halt request finds the command interface idle again.
Recovers ==
    <>[](dmcontrol.haltreq /\ dmcontrol.dmactive /\ ~dmcontrol.ndmreset)
        => []<>(state = "Idle")

\* And dmstatus tells the truth again: halted_q, which no reset of a hart
\* clears, ends up describing a hart that is in the debug ROM.
HaltStatusRecovers ==
    <>[](dmcontrol.haltreq /\ dmcontrol.dmactive /\ ~dmcontrol.ndmreset)
        => <>[](hartsel \in halted /\ pc[hartsel] # "run")

=============================================================================
