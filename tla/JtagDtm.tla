------------------------------ MODULE JtagDtm ------------------------------
(***************************************************************************)
(* The JTAG debug transport: the TAP (dmi_jtag_tap.sv), the state machine  *)
(* that turns scans into DMI operations (dmi_jtag.sv), its clock domain    *)
(* crossings (dmi_cdc.sv) and the debug module behind them.                *)
(*                                                                         *)
(* A data register is a sequence of bits, the one shifted out first at the *)
(* head: DMI is <<op[0], op[1], data>>, DTMCS <<dmistat, dmireset>>, IDCODE*)
(* and BYPASS one bit.  The address, further data bits and the constant    *)
(* fields of DTMCS behave as the data bit.  What a register holds between  *)
(* its scans is not kept: a scan captures it before it shifts or updates.  *)
(***************************************************************************)
EXTENDS Naturals, Sequences, FiniteSets

Bit == {0, 1}

TapStates == {"TestLogicReset", "RunTestIdle", "SelectDrScan", "CaptureDr",
    "ShiftDr", "Exit1Dr", "PauseDr", "Exit2Dr", "UpdateDr", "SelectIrScan",
    "CaptureIr", "ShiftIr", "Exit1Ir", "PauseIr", "Exit2Ir", "UpdateIr"}

\* Two of the five bits of an instruction tell the four registers apart.
BYPASS    == <<0, 0>>
IDCODE    == <<1, 0>>
DTMCSR    == <<0, 1>>
DMIACCESS == <<1, 1>>
Instructions == {IDCODE, BYPASS, DTMCSR, DMIACCESS}

DTM_READ  == <<1, 0>>
DTM_WRITE == <<0, 1>>

NoError == 0
Busy    == 1   \* DMIBusy: all of its bits are one

Off == 2   \* TDO without output enable

Requests  == [op : {"read", "write"}, data : Bit]
NoRequest == [op |-> "none", data |-> 0]

VARIABLES
    tap_state,  \* tap_state_q
    ir_shift,   \* jtag_ir_shift_q, in a scan
    ir,         \* jtag_ir_q
    dr,         \* the data register that ir selects, in a scan
    td_o,       \* td_o, which follows the falling edge of TCK
    state,      \* state_q of dmi_jtag
    data,       \* data_q
    error,      \* error_q
    req_cdc,    \* request crossing: "idle", "sent" or "acked"
    request,    \* the request in the crossing or at the debug module
    device,     \* the debug module: "idle" or "working"
    resp_cdc,   \* response crossing: "idle", "sent" or "acked"
    response,   \* the response in the crossing
    captured,   \* history: what the register last captured
    shifted,    \* history: how many bits were shifted since
    lost,       \* history: an operation was not accepted since dmireset
    ones        \* history: clocks with TMS high, the last ones in a row

tap   == <<tap_state, ir_shift, ir, dr, captured, shifted, ones>>
fsm   == <<state, data, error, lost>>
cdc   == <<req_cdc, request, device, resp_cdc, response>>
dtm   == <<tap, td_o, fsm, cdc>>

\* The registers after trst_ni.
Init ==
    /\ tap_state = "RunTestIdle"
    /\ ir_shift = <<>> /\ ir = IDCODE /\ dr = <<>>
    /\ td_o = Off
    /\ state = "Idle" /\ data = 0 /\ error = NoError
    /\ req_cdc = "idle" /\ request = NoRequest /\ device = "idle"
    /\ resp_cdc = "idle" /\ response = 0
    /\ captured = <<>> /\ shifted = 0 /\ lost = FALSE /\ ones = 0

-----------------------------------------------------------------------------
(* dmi_jtag_tap                                                            *)

\* p_tap_fsm: the state after a rising edge of TCK.
Go(tms, high, low) == IF tms = 1 THEN high ELSE low

AfterPause_Shift(tms, update, shift) == shift

AfterPause(tms, update, shift) == Go(tms, update, shift)

Succ(s, tms) ==
    CASE s = "TestLogicReset" -> Go(tms, "TestLogicReset", "RunTestIdle")
      [] s \in {"RunTestIdle", "UpdateDr", "UpdateIr"} ->
                                 Go(tms, "SelectDrScan", "RunTestIdle")
      [] s = "SelectDrScan"   -> Go(tms, "SelectIrScan", "CaptureDr")
      [] s \in {"CaptureDr", "ShiftDr"} -> Go(tms, "Exit1Dr", "ShiftDr")
      [] s = "Exit1Dr"        -> Go(tms, "UpdateDr", "PauseDr")
      [] s = "PauseDr"        -> Go(tms, "Exit2Dr", "PauseDr")
      [] s = "Exit2Dr"        -> AfterPause(tms, "UpdateDr", "ShiftDr")
      [] s = "SelectIrScan"   -> Go(tms, "TestLogicReset", "CaptureIr")
      [] s \in {"CaptureIr", "ShiftIr"} -> Go(tms, "Exit1Ir", "ShiftIr")
      [] s = "Exit1Ir"        -> Go(tms, "UpdateIr", "PauseIr")
      [] s = "PauseIr"        -> Go(tms, "Exit2Ir", "PauseIr")
      [] s = "Exit2Ir"        -> AfterPause(tms, "UpdateIr", "ShiftIr")

capture_dr   == tap_state = "CaptureDr"
update_dr    == tap_state = "UpdateDr"
dmi_access   == ir = DMIACCESS
dtmcs_select == ir = DTMCSR
dmi_reset    == dtmcs_select /\ dr[2] = 1

\* dmi.op of the scanned word
ScannedOp == SubSeq(dr, 1, 2)

error_dmi_busy_NoUpdate  == capture_dr /\ state \in {"Read", "WaitReadValid"}
error_dmi_busy_NoCapture == update_dr /\ state # "Idle"

\* A busy error is raised by this edge, whichever register is selected.
error_dmi_busy ==
    \/ update_dr /\ state # "Idle"
    \/ capture_dr /\ state \in {"Read", "WaitReadValid"}

\* What a register loads in CaptureDr.
Captured ==
    CASE dmi_access   -> LET e == IF error_dmi_busy THEN Busy ELSE error
                         IN  <<e, e, data>>
      [] dtmcs_select -> <<error, 0>>
      [] ir = IDCODE  -> <<1>>
      [] OTHER        -> <<0>>

ShiftIn_Grows(reg, tdi)    == Append(reg, tdi)
ShiftIn_MsbFirst(reg, tdi) == <<tdi>> \o SubSeq(reg, 1, Len(reg) - 1)

ShiftIn(reg, tdi) == Append(Tail(reg), tdi)

\* The registers of the TAP at a rising edge.
TapClock(tms, tdi) ==
    /\ tap_state' = Succ(tap_state, tms)
    /\ ones' = IF tms = 0 THEN 0 ELSE IF ones < 5 THEN ones + 1 ELSE ones
    /\ ir_shift' = CASE tap_state = "ShiftIr"        -> ShiftIn(ir_shift, tdi)
                     [] tap_state = "CaptureIr"      -> <<1, 0>>
                     [] tap_state = "UpdateIr"       -> <<>>
                     [] OTHER                        -> ir_shift
    /\ ir' = CASE tap_state = "UpdateIr"       -> ir_shift
               [] tap_state = "TestLogicReset" -> IDCODE
               [] OTHER                        -> ir
    /\ dr' = CASE capture_dr                     -> Captured
               [] tap_state = "ShiftDr"          -> ShiftIn(dr, tdi)
               [] update_dr                      -> <<>>
               [] OTHER                          -> dr
    /\ captured' = CASE capture_dr              -> Captured
                     [] tap_state = "CaptureIr" -> <<1, 0>>
                     [] tap_state \in {"UpdateDr", "UpdateIr"} -> <<>>
                     [] OTHER                   -> captured
    /\ shifted' = CASE tap_state \in {"ShiftDr", "ShiftIr"} -> shifted + 1
                    [] tap_state \in {"UpdateDr", "UpdateIr"} -> 0
                    [] OTHER -> shifted

\* p_tdo_regs at a falling edge: the bit the next rising edge shifts out, if
\* tdo_oe_o enables the pad.
TdoClock ==
    td_o' = CASE tap_state = "ShiftIr" -> Head(ir_shift)
              [] tap_state = "ShiftDr" -> Head(dr)
              [] OTHER                 -> Off

-----------------------------------------------------------------------------
(* dmi_jtag and its side of the clock domain crossings                     *)

dmi_req_ready_Read == state = "Read" /\ req_cdc = "idle"

dmi_req_valid  == state \in {"Read", "Write"}
dmi_req_ready  == req_cdc = "idle"
dmi_resp_valid == resp_cdc = "sent"

Accepting_NotIdle == dmi_access /\ update_dr /\ error = NoError

\* An update of the DMI register without a sticky error is accepted.
Accepting == state = "Idle" /\ dmi_access /\ update_dr /\ error = NoError

state_d ==
    CASE Accepting /\ ScannedOp = DTM_READ       -> "Read"
      [] Accepting /\ ScannedOp = DTM_WRITE      -> "Write"
      [] state = "Read" /\ dmi_req_ready         -> "WaitReadValid"
      [] state = "Write" /\ dmi_req_ready        -> "WaitWriteValid"
      [] state \in {"WaitReadValid", "WaitWriteValid"} /\ dmi_resp_valid -> "Idle"
      [] OTHER -> state

data_d ==
    CASE Accepting                                  -> dr[3]
      [] state = "WaitReadValid" /\ dmi_resp_valid  -> response
      [] OTHER                                      -> data

error_d ==
    IF update_dr /\ dmi_reset THEN NoError
    ELSE IF error_dmi_busy THEN Busy
    ELSE error

DmiClock ==
    /\ state' = state_d /\ data' = data_d /\ error' = error_d
    /\ lost' = CASE update_dr /\ dmi_reset -> FALSE
                 [] update_dr /\ dmi_access /\ ~Accepting
                       /\ ScannedOp \in {DTM_READ, DTM_WRITE} -> TRUE
                 [] OTHER -> lost

\* The crossings at a rising edge: a request leaves, a response is consumed
\* (dmi_resp_ready is always high).  What an empty crossing holds is not kept.
CdcClock ==
    /\ IF dmi_req_valid /\ dmi_req_ready
       THEN /\ req_cdc' = "sent"
            /\ request' = [op |-> IF state = "Write" THEN "write" ELSE "read",
                           data |-> data]
       ELSE UNCHANGED <<req_cdc, request>>
    /\ IF dmi_resp_valid THEN resp_cdc' = "acked" /\ response' = 0
                         ELSE UNCHANGED <<resp_cdc, response>>
    /\ UNCHANGED device

Rise(tms, tdi) == TapClock(tms, tdi) /\ DmiClock /\ CdcClock /\ UNCHANGED td_o
Fall           == TdoClock /\ UNCHANGED <<tap, fsm, cdc>>

-----------------------------------------------------------------------------
(* The clock domain of the debug module                                    *)

\* The debug module takes the request that has crossed.
DeviceTakes ==
    /\ req_cdc = "sent" /\ device = "idle"
    /\ req_cdc' = "acked" /\ device' = "working"
    /\ UNCHANGED <<tap, td_o, fsm, request, resp_cdc, response>>

\* It answers, a read with any data.
DeviceAnswers ==
    /\ device = "working" /\ resp_cdc = "idle"
    /\ device' = "idle" /\ request' = NoRequest
    /\ resp_cdc' = "sent"
    /\ \E d \in Bit : response' = IF request.op = "read" THEN d ELSE 0
    /\ UNCHANGED <<tap, td_o, fsm, req_cdc>>

\* The acknowledge of a crossing returns to its source.
ReqAcknowledged ==
    /\ req_cdc = "acked" /\ req_cdc' = "idle"
    /\ UNCHANGED <<tap, td_o, fsm, request, device, resp_cdc, response>>

RespAcknowledged ==
    /\ resp_cdc = "acked" /\ resp_cdc' = "idle"
    /\ UNCHANGED <<tap, td_o, fsm, req_cdc, request, device, response>>

\* Every step but the edges of TCK, which the owner of the pins makes.
CoreStep == DeviceTakes \/ DeviceAnswers \/ ReqAcknowledged \/ RespAcknowledged
=============================================================================
