------------------------------ MODULE JtagLink ------------------------------
(***************************************************************************)
(* An OpenOCD-like client, the remote bitbang server and the JTAG debug    *)
(* transport in one simulation (tb_test_env.sv).  The client clocks the    *)
(* TAP along any path; it presents TMS and TDI with TCK low, asks for TDO  *)
(* when the TAP shifts, raises TCK, and reads the reply before it goes on. *)
(***************************************************************************)
EXTENDS JtagDtm, RemoteBitbang

CONSTANTS LeaveStates   \* TAP states in which the client may quit or go away

ASSUME JtagLinkAssumption == LeaveStates \subseteq TapStates

vars == <<dtm, link>>

LinkInit == Init /\ RbsInit

-----------------------------------------------------------------------------
(* The client                                                              *)

Connect ==
    /\ peer = "away" /\ peer' = "connected"
    /\ UNCHANGED <<dtm, pins, client_fd, ended, tosrv, tocli>>

\* The next commands go out once the reply to the last ones has been read.
Send(commands) ==
    /\ peer = "connected" /\ ~ended
    /\ tosrv = <<>>
    /\ tosrv' = commands /\ tocli' = <<>>
    /\ UNCHANGED <<dtm, pins, client_fd, ended, peer>>

\* A scan may pause or be given up, and never shifts more than the register.
Length ==
    IF tap_state \in {"CaptureIr", "ShiftIr", "Exit1Ir", "PauseIr", "Exit2Ir"} THEN 2
    ELSE IF ir = DMIACCESS THEN 3
    ELSE IF ir = DTMCSR THEN 2
    ELSE 1

InScan(tms) ==
    /\ tap_state \in {"ShiftDr", "ShiftIr"} /\ shifted + 1 = Length => tms = 1
    /\ tap_state \in {"Exit2Dr", "Exit2Ir"} /\ shifted = Length => tms = 1

\* The client loads DTMCSR or DMIACCESS (the last bit of both is one), scans
\* any word into the DMI register, and dmireset into dtmcs.
Offering(tdi) ==
    CASE tap_state = "ShiftIr" -> shifted = 1 => tdi = 1
      [] tap_state = "ShiftDr" /\ dmi_access -> TRUE
      [] tap_state = "ShiftDr" /\ dtmcs_select -> shifted = 0 => tdi = 0
      [] OTHER -> tdi = 0

SendBit(tms, tdi) ==
    /\ InScan(tms) /\ Offering(tdi)
    /\ Send(IF tap_state \in {"ShiftDr", "ShiftIr"}
            THEN <<Write(0, tms, tdi), ReadTdo, Write(1, tms, tdi)>>
            ELSE <<Write(0, tms, tdi), Write(1, tms, tdi)>>)

MayLeave == tap_state \in LeaveStates

SendQuit == MayLeave /\ Send(<<Quit>>)

Leave ==
    /\ MayLeave /\ peer = "connected" /\ peer' = "closed"
    /\ UNCHANGED <<dtm, pins, client_fd, ended, tosrv, tocli>>

Client ==
    \/ Connect \/ SendQuit \/ Leave
    \/ \E tms, tdi \in Bit : SendBit(tms, tdi)

-----------------------------------------------------------------------------
(* jtag_tick and the edges of TCK it makes                                 *)

Edge ==
    CASE pins.tck = 0 /\ pins'.tck = 1 -> Rise(pins'.tms, pins'.tdi)
      [] pins.tck = 1 /\ pins'.tck = 0 -> Fall
      [] OTHER -> UNCHANGED dtm

Tick ==
    \* TRSTn is released and TCK raised at once: the registers see a clock edge
    \* or still their reset, as the simulator happens to order the two.
    \/ Accept /\ (Edge \/ UNCHANGED dtm)
    \/ Execute(td_o) /\ Edge
    \/ (EndOfFile \/ Abort) /\ UNCHANGED dtm

\* The debug module's clock runs from one call of jtag_tick to the next.
Core(step) == ~ended /\ client_fd /\ step /\ UNCHANGED link

\* The simulation has ended.
Finished == ended /\ UNCHANGED vars

Next == Client \/ Tick \/ Core(CoreStep) \/ Finished

\* The client goes on clocking the TAP until it leaves, calls of jtag_tick
\* return when there is a command, and the debug module answers.
Fairness ==
    /\ WF_vars(Connect) /\ WF_vars(\E tms, tdi \in Bit : SendBit(tms, tdi))
    /\ WF_vars(Tick) /\ WF_vars(Core(CoreStep))

Spec == LinkInit /\ [][Next]_vars /\ Fairness

-----------------------------------------------------------------------------
(* Properties                                                              *)

\* Every variable has a value of its type.
TypeOK ==
    /\ tap_state \in TapStates
    /\ ir \in Instructions /\ ir_shift \in Instructions \cup {<<>>}
    /\ dr \in UNION {[1 .. n -> Bit] : n \in 0 .. 3}
    /\ td_o \in Bit \cup {Off}
    /\ state \in {"Idle", "Read", "WaitReadValid", "Write", "WaitWriteValid"}
    /\ data \in Bit /\ error \in {NoError, Busy}
    /\ req_cdc \in {"idle", "sent", "acked"} /\ resp_cdc \in {"idle", "sent", "acked"}
    /\ request \in Requests \cup {NoRequest} /\ device \in {"idle", "working"}
    /\ response \in Bit
    /\ pins \in Pins /\ peer \in {"away", "connected", "closed"}
    /\ client_fd \in BOOLEAN /\ ended \in BOOLEAN

\* Five clocks with TMS high reach TestLogicReset from every state of the TAP,
\* whatever it did before: how a client finds the TAP after connecting.
SyncByFiveOnes == ones = 5 => tap_state = "TestLogicReset"

\* The reply to bit n of a scan is bit n of what the register captured: TDO
\* changes with the falling edge and is sampled before the rising one shifts.
ScanIsCapture ==
    [][tocli = <<>> /\ tocli' # <<>>
          /\ tap_state \in {"ShiftDr", "ShiftIr"} /\ shifted < Len(captured)
       => tocli' = <<captured[shifted + 1]>>]_vars

Capturing == capture_dr /\ captured = <<>> /\ captured' # <<>>

\* A client whose scan of the DMI register or of dtmcs reports no error has had
\* all its operations accepted since it last cleared the error.
LossIsReported ==
    [][Capturing /\ lost /\ (dmi_access \/ dtmcs_select)
       => captured'[1] = Busy]_vars

\* The operation the debug module is given, and where it is; "torn" if the
\* crossings are in use while dmi_jtag believes they are free.
port_phase ==
    CASE state = "Idle" /\ req_cdc # "sent" /\ device = "idle" /\ resp_cdc # "sent" -> "free"
      [] state \in {"Read", "Write"}                                   -> "accepted"
      [] state \in {"WaitReadValid", "WaitWriteValid"} /\ req_cdc = "sent" -> "accepted"
      [] state \in {"WaitReadValid", "WaitWriteValid"} /\ device = "working" -> "taken"
      [] state \in {"WaitReadValid", "WaitWriteValid"} /\ resp_cdc = "sent" -> "answered"
      [] OTHER -> "torn"

Crossing == request # NoRequest

port_op ==
    IF Crossing THEN request.op
    ELSE CASE state \in {"Read", "WaitReadValid"}   -> "read"
           [] state \in {"Write", "WaitWriteValid"} -> "write"
           [] OTHER -> "none"

port_word ==
    IF Crossing THEN request.data
    ELSE IF state = "WaitReadValid" THEN response ELSE data

Port == INSTANCE DmiPort WITH Data <- Bit, phase <- port_phase, op <- port_op, word <- port_word

\* Every accepted scan becomes one operation of the debug module, with its
\* data, answered before the next is accepted.
ImplementsDmiPort == Port!Spec

\* A scan that reports no error carries the word of the port, and no read is
\* still on its way.
CaptureIsCurrent ==
    [][Capturing /\ dmi_access /\ captured'[1] = NoError
       => port_op # "read" /\ captured'[3] = port_word]_vars

\* An operation that was accepted is answered, unless the client goes away.
RequestEnds == state # "Idle" ~> (state = "Idle" \/ ended \/ peer = "closed")
=============================================================================
