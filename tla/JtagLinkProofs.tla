--------------------------- MODULE JtagLinkProofs ---------------------------
(***************************************************************************)
(* What JtagLink promises, for every set LeaveStates of states in which    *)
(* the client may go away.  Every step of the simulation is an edge of TCK,*)
(* a step of the debug module's clock domain, or leaves the transport      *)
(* alone; the invariants are proved for those.                             *)
(***************************************************************************)
EXTENDS JtagLink, SequenceTheorems, TLAPS

\* The TAP states between CaptureDr and UpdateDr, and those of an instruction.
InDrScan == tap_state \in {"ShiftDr", "Exit1Dr", "PauseDr", "Exit2Dr", "UpdateDr"}
InIrScan == tap_state \in {"ShiftIr", "Exit1Ir", "PauseIr", "Exit2Ir", "UpdateIr"}

Register(n) == [1 .. n -> Bit]
DrLength == IF ir = DMIACCESS THEN 3 ELSE IF ir = DTMCSR THEN 2 ELSE 1

LinkTypes ==
    /\ pins \in Pins /\ tosrv \in Seq(Commands)
    /\ peer \in {"away", "connected", "closed"}
    /\ client_fd \in BOOLEAN /\ ended \in BOOLEAN

TapTypes ==
    /\ tap_state \in TapStates
    /\ ir \in Register(2)
    /\ ir_shift \in Register(2) \cup {<<>>} /\ (InIrScan => ir_shift \in Register(2))
    /\ dr \in Register(1) \cup Register(2) \cup Register(3) \cup {<<>>}
    /\ InDrScan => dr \in Register(DrLength)
    /\ td_o \in Bit \cup {Off}

FsmTypes ==
    /\ state \in {"Idle", "Read", "WaitReadValid", "Write", "WaitWriteValid"}
    /\ data \in Bit /\ error \in {NoError, Busy}
    /\ req_cdc \in {"idle", "sent", "acked"} /\ resp_cdc \in {"idle", "sent", "acked"}
    /\ request \in Requests \cup {NoRequest} /\ device \in {"idle", "working"}
    /\ response \in Bit

DtmTypes == TapTypes /\ FsmTypes

\* The edges of TCK and the steps of the debug module's clock.
DtmNext ==
    \/ \E tms, tdi \in Bit : Rise(tms, tdi)
    \/ Fall
    \/ CoreStep

-----------------------------------------------------------------------------
(* Registers                                                               *)

\* A shift keeps the length of a register that is not empty.
LEMMA ShiftKeepsLength ==
    ASSUME NEW n \in {1, 2, 3}, NEW reg \in Register(n), NEW bit \in Bit
    PROVE  ShiftIn(reg, bit) \in Register(n)
<1>1. reg \in Seq(Bit) /\ Len(reg) = n
  BY DEF Register
<1>2. Tail(reg) \in Seq(Bit) /\ Len(Tail(reg)) = n - 1
  BY <1>1
<1>3. Append(Tail(reg), bit) \in Seq(Bit) /\ Len(Append(Tail(reg), bit)) = n
  BY <1>2
<1>4. Append(Tail(reg), bit) \in [1 .. n -> Bit]
  BY <1>3, LenProperties
<1>5. QED
  BY <1>4 DEF ShiftIn, Register

\* The bits of a register.
LEMMA RegisterBits ==
    ASSUME NEW n \in {1, 2, 3}, NEW reg \in Register(n)
    PROVE  /\ Head(reg) \in Bit
           /\ \A i \in 1 .. n : reg[i] \in Bit
BY DEF Register

LEMMA InstructionRegisters ==
    /\ Register(2) = Instructions
    /\ DMIACCESS \in Register(2) /\ DTMCSR \in Register(2) /\ IDCODE \in Register(2)
    /\ DMIACCESS # DTMCSR /\ DMIACCESS # IDCODE /\ DTMCSR # IDCODE
<1>1. \A a, b \in Bit : <<a, b>> \in Register(2)
  BY DEF Register
<1>2. \A r \in Register(2) : r = <<r[1], r[2]>> /\ r[1] \in Bit /\ r[2] \in Bit
  BY DEF Register
<1>3. Instructions \subseteq Register(2)
  BY <1>1 DEF Instructions, IDCODE, BYPASS, DTMCSR, DMIACCESS, Bit
<1>4. Register(2) \subseteq Instructions
  <2>1. ASSUME NEW r \in Register(2) PROVE r \in Instructions
    <3>1. r = <<r[1], r[2]>> /\ r[1] \in Bit /\ r[2] \in Bit
      BY <1>2
    <3>2. CASE r[1] = 0 /\ r[2] = 0
      BY <3>1, <3>2 DEF Instructions, BYPASS
    <3>3. CASE r[1] = 1 /\ r[2] = 0
      BY <3>1, <3>3 DEF Instructions, IDCODE
    <3>4. CASE r[1] = 0 /\ r[2] = 1
      BY <3>1, <3>4 DEF Instructions, DTMCSR
    <3>5. CASE r[1] = 1 /\ r[2] = 1
      BY <3>1, <3>5 DEF Instructions, DMIACCESS
    <3>6. QED
      BY <3>1, <3>2, <3>3, <3>4, <3>5 DEF Bit
  <2>2. QED
    BY <2>1
<1>5. QED
  BY <1>3, <1>4 DEF Instructions, IDCODE, BYPASS, DTMCSR, DMIACCESS

-----------------------------------------------------------------------------
(* The steps                                                               *)

LEMMA CommandTypes ==
    /\ \A p, q, r \in Bit : Write(p, q, r) \in Commands
    /\ ReadTdo \in Commands /\ Quit \in Commands /\ Blink \in Commands
BY DEF Commands, Bit, Pin

LEMMA ClientSteps ==
    ASSUME LinkTypes, Client
    PROVE  LinkTypes' /\ UNCHANGED dtm
<1>1. CASE Connect \/ Leave
  BY <1>1 DEF Connect, Leave, LinkTypes
<1>2. CASE SendQuit
  <2>1. <<Quit>> \in Seq(Commands)
    BY CommandTypes
  <2>2. QED
    BY <1>2, <2>1 DEF SendQuit, Send, LinkTypes
<1>3. ASSUME NEW tms \in Bit, NEW tdi \in Bit, SendBit(tms, tdi)
      PROVE  LinkTypes' /\ UNCHANGED dtm
  <2> DEFINE low == Write(0, tms, tdi)
             high == Write(1, tms, tdi)
  <2>1. low \in Commands /\ high \in Commands /\ ReadTdo \in Commands
    BY CommandTypes DEF Bit
  <2>2. <<low, ReadTdo, high>> \in Seq(Commands) /\ <<low, high>> \in Seq(Commands)
    <3> HIDE DEF low, high
    <3>1. QED
      BY <2>1
  <2>3. tosrv' \in Seq(Commands)
    BY <1>3, <2>2 DEF SendBit, Send
  <2>4. QED
    BY <1>3, <2>3 DEF SendBit, Send, LinkTypes
<1>4. QED
  BY <1>1, <1>2, <1>3 DEF Client

LEMMA EdgeSteps ==
    ASSUME LinkTypes, pins' \in Pins, Edge
    PROVE  DtmNext \/ UNCHANGED dtm
<1>1. pins'.tms \in Bit /\ pins'.tdi \in Bit
  BY DEF Pins, Pin, Bit
<1>2. CASE pins.tck = 0 /\ pins'.tck = 1
  BY <1>1, <1>2 DEF Edge, DtmNext
<1>3. CASE ~(pins.tck = 0 /\ pins'.tck = 1) /\ pins.tck = 1 /\ pins'.tck = 0
  BY <1>3 DEF Edge, DtmNext
<1>4. CASE ~(pins.tck = 0 /\ pins'.tck = 1) /\ ~(pins.tck = 1 /\ pins'.tck = 0)
  BY <1>4 DEF Edge
<1>5. QED
  BY <1>2, <1>3, <1>4

LEMMA TickSteps ==
    ASSUME LinkTypes, Tick
    PROVE  LinkTypes' /\ (DtmNext \/ UNCHANGED dtm)
<1>1. CASE Accept /\ (Edge \/ UNCHANGED dtm)
  <2>1. LinkTypes'
    BY <1>1 DEF Accept, LinkTypes, Pins, Pin
  <2>2. QED
    BY <1>1, <2>1, EdgeSteps DEF LinkTypes
<1>2. CASE Execute(td_o) /\ Edge
  <2>1. Head(tosrv) \in Commands /\ Tail(tosrv) \in Seq(Commands)
    BY <1>2 DEF Execute, LinkTypes
  <2>2. pins' \in Pins
    <3>1. CASE Head(tosrv).name = "write"
      <4>1. PICK p, q, r \in Pin : Head(tosrv) = Write(p, q, r)
        BY <2>1, <3>1 DEF Commands, ReadTdo, Quit, Blink
      <4>2. QED
        BY <1>2, <3>1, <4>1 DEF Execute, LinkTypes, Pins, Write
    <3>2. CASE Head(tosrv).name # "write"
      BY <1>2, <3>2 DEF Execute, LinkTypes
    <3>3. QED
      BY <3>1, <3>2
  <2>3. tosrv' \in Seq(Commands) /\ ended' \in BOOLEAN /\ client_fd' \in BOOLEAN
    BY <1>2, <2>1 DEF Execute
  <2>4. LinkTypes'
    BY <1>2, <2>2, <2>3 DEF Execute, LinkTypes
  <2>5. QED
    BY <1>2, <2>2, <2>4, EdgeSteps
<1>3. CASE (EndOfFile \/ Abort) /\ UNCHANGED dtm
  BY <1>3 DEF EndOfFile, Abort, LinkTypes, link
<1>4. QED
  BY <1>1, <1>2, <1>3 DEF Tick

\* Each step of the simulation is one of the transport, or leaves it alone.
LEMMA LinkSteps ==
    ASSUME LinkTypes, [Next]_vars
    PROVE  LinkTypes' /\ (DtmNext \/ UNCHANGED dtm)
<1>1. CASE Core(CoreStep)
  BY <1>1 DEF Core, DtmNext, LinkTypes, link
<1>2. CASE Finished \/ UNCHANGED vars
  BY <1>2 DEF Finished, vars, LinkTypes, link
<1>3. QED
  BY <1>1, <1>2, ClientSteps, TickSteps DEF Next

-----------------------------------------------------------------------------
(* Types                                                                   *)

LEMMA SuccTypes ==
    ASSUME NEW tms \in Bit, NEW s \in TapStates
    PROVE  Succ(s, tms) \in TapStates
BY DEF Succ, Go, AfterPause, TapStates

\* A capture fills the register that is selected.
LEMMA CapturedTypes ==
    ASSUME DtmTypes
    PROVE  Captured \in Register(DrLength)
<1>1. /\ \A a \in Bit : <<a>> \in Register(1)
      /\ \A a, b \in Bit : <<a, b>> \in Register(2)
      /\ \A a, b, c \in Bit : <<a, b, c>> \in Register(3)
  BY DEF Register
<1>2. error \in Bit /\ data \in Bit /\ 0 \in Bit /\ 1 \in Bit /\ Busy \in Bit
  BY DEF DtmTypes, FsmTypes, NoError, Busy, Bit
<1>3. CASE dmi_access
  <2> DEFINE e == IF error_dmi_busy THEN Busy ELSE error
  <2>1. Captured = <<e, e, data>>
    BY <1>3, InstructionRegisters DEF Captured, dmi_access, dtmcs_select
  <2>2. e \in Bit
    BY <1>2
  <2>3. DrLength = 3
    BY <1>3 DEF DrLength, dmi_access
  <2> HIDE DEF e
  <2>4. QED
    BY <1>1, <1>2, <2>1, <2>2, <2>3
<1>4. CASE dtmcs_select
  BY <1>1, <1>2, <1>4, InstructionRegisters
     DEF Captured, DrLength, dmi_access, dtmcs_select
<1>5. CASE ~dmi_access /\ ~dtmcs_select
  BY <1>1, <1>2, <1>5 DEF Captured, DrLength, dmi_access, dtmcs_select
<1>6. QED
  BY <1>3, <1>4, <1>5

\* The instruction register over an edge.
LEMMA IrTypes ==
    ASSUME DtmTypes, NEW tms \in Bit, NEW tdi \in Bit, TapClock(tms, tdi)
    PROVE  /\ tap_state' \in TapStates
           /\ ir' \in Register(2)
           /\ ir_shift' \in Register(2) \cup {<<>>}
           /\ InIrScan' => ir_shift' \in Register(2)
           /\ tap_state \notin {"UpdateIr", "TestLogicReset"} => ir' = ir
<1>1. tap_state' \in TapStates /\ tap_state' = Succ(tap_state, tms)
  BY SuccTypes DEF DtmTypes, TapTypes, TapClock
<1>2. ir' \in Register(2)
  BY InstructionRegisters DEF TapClock, DtmTypes, TapTypes, InIrScan
<1>3. CASE tap_state = "ShiftIr"
  <2>1. ir_shift' = ShiftIn(ir_shift, tdi) /\ ir_shift \in Register(2)
    BY <1>3 DEF TapClock, DtmTypes, TapTypes, InIrScan
  <2>2. ir_shift' \in Register(2)
    BY <2>1, ShiftKeepsLength
  <2>3. QED
    BY <1>1, <1>2, <1>3, <2>2 DEF TapClock
<1>4. CASE tap_state = "CaptureIr"
  <2>1. ir_shift' = <<1, 0>>
    BY <1>4 DEF TapClock
  <2>2. ir_shift' \in Register(2)
    BY <2>1 DEF Register, Bit
  <2>3. QED
    BY <1>1, <1>2, <1>4, <2>2 DEF TapClock
<1>5. CASE tap_state = "UpdateIr"
  <2>1. ir_shift' = <<>> /\ tap_state' \in {"SelectDrScan", "RunTestIdle"}
    BY <1>1, <1>5 DEF TapClock, Succ, Go
  <2>2. QED
    BY <1>1, <1>2, <1>5, <2>1 DEF InIrScan
<1>6. CASE tap_state \notin {"ShiftIr", "CaptureIr", "UpdateIr"}
  <2>1. ir_shift' = ir_shift /\ (tap_state # "TestLogicReset" => ir' = ir)
    BY <1>6 DEF TapClock
  <2>2. InIrScan' => InIrScan
    BY <1>1, <1>6 DEF Succ, Go, AfterPause, TapStates, InIrScan, DtmTypes, TapTypes
  <2>3. QED
    BY <1>1, <1>2, <2>1, <2>2 DEF DtmTypes, TapTypes
<1>7. QED
  BY <1>3, <1>4, <1>5, <1>6

\* The data register over an edge.
LEMMA DrTypes ==
    ASSUME DtmTypes, NEW tms \in Bit, NEW tdi \in Bit, TapClock(tms, tdi)
    PROVE  /\ dr' \in Register(1) \cup Register(2) \cup Register(3) \cup {<<>>}
           /\ InDrScan' => dr' \in Register(DrLength')
<1>1. tap_state' = Succ(tap_state, tms) /\ tap_state \in TapStates
  BY DEF TapClock, DtmTypes, TapTypes
<1>2. DrLength \in {1, 2, 3} /\ (ir' = ir => DrLength' = DrLength)
  BY DEF DrLength
<1>3. \A r \in Register(DrLength) : r \in Register(1) \cup Register(2) \cup Register(3)
  BY <1>2
<1>4. CASE tap_state = "CaptureDr"
  <2>1. dr' = Captured
    BY <1>4 DEF TapClock, capture_dr, update_dr
  <2>2. ir' = ir
    BY <1>4, IrTypes
  <2>3. QED
    BY <1>2, <1>3, <2>1, <2>2, CapturedTypes
<1>5. CASE tap_state = "ShiftDr"
  <2>1. dr' = ShiftIn(dr, tdi)
    BY <1>5 DEF TapClock, capture_dr, update_dr
  <2>2. dr \in Register(DrLength)
    BY <1>5 DEF DtmTypes, TapTypes, InDrScan
  <2>3. dr' \in Register(DrLength)
    BY <1>2, <2>1, <2>2, ShiftKeepsLength
  <2>4. QED
    BY <1>2, <1>3, <1>5, <2>3, IrTypes
<1>6. CASE tap_state = "UpdateDr"
  <2>1. dr' = <<>> /\ tap_state' \in {"SelectDrScan", "RunTestIdle"}
    BY <1>1, <1>6 DEF TapClock, capture_dr, update_dr, Succ, Go
  <2>2. QED
    BY <2>1 DEF InDrScan
<1>7. CASE tap_state \notin {"CaptureDr", "ShiftDr", "UpdateDr"}
  <2>1. dr' = dr
    BY <1>7 DEF TapClock, capture_dr, update_dr
  <2>2. InDrScan' => InDrScan /\ ir' = ir
    <3>1. InDrScan' => InDrScan
      BY <1>1, <1>7 DEF Succ, Go, AfterPause, TapStates, InDrScan
    <3>2. QED
      BY <3>1, IrTypes DEF InDrScan
  <2>3. QED
    BY <1>2, <2>1, <2>2 DEF DtmTypes, TapTypes
<1>8. QED
  BY <1>4, <1>5, <1>6, <1>7

LEMMA TapSteps ==
    ASSUME DtmTypes, DtmNext
    PROVE  TapTypes'
<1>1. ASSUME NEW tms \in Bit, NEW tdi \in Bit, Rise(tms, tdi)
      PROVE  TapTypes'
  BY <1>1, IrTypes, DrTypes DEF Rise, DtmTypes, TapTypes
<1>2. CASE Fall
  <2>1. CASE tap_state = "ShiftIr"
    <3>1. ir_shift \in Register(2)
      BY <2>1 DEF DtmTypes, TapTypes, InIrScan
    <3>2. td_o' = Head(ir_shift)
      BY <1>2, <2>1 DEF Fall, TdoClock
    <3>3. td_o' \in Bit
      BY <3>1, <3>2, RegisterBits
    <3>4. QED
      BY <1>2, <3>3 DEF Fall, tap, DtmTypes, TapTypes, InDrScan, InIrScan, DrLength
  <2>2. CASE tap_state = "ShiftDr"
    <3>1. dr \in Register(DrLength) /\ DrLength \in {1, 2, 3}
      BY <2>2 DEF DtmTypes, TapTypes, InDrScan, DrLength
    <3>2. td_o' = Head(dr)
      BY <1>2, <2>2 DEF Fall, TdoClock
    <3>3. td_o' \in Bit
      BY <3>1, <3>2, RegisterBits
    <3>4. QED
      BY <1>2, <3>3 DEF Fall, tap, DtmTypes, TapTypes, InDrScan, InIrScan, DrLength
  <2>3. CASE tap_state \notin {"ShiftIr", "ShiftDr"}
    <3>1. td_o' = Off
      BY <1>2, <2>3 DEF Fall, TdoClock
    <3>2. QED
      BY <1>2, <3>1 DEF Fall, tap, DtmTypes, TapTypes, InDrScan, InIrScan, DrLength
  <2>4. QED
    BY <2>1, <2>2, <2>3
<1>3. CASE CoreStep
  BY <1>3 DEF CoreStep, DeviceTakes, DeviceAnswers, ReqAcknowledged, RespAcknowledged,
              tap, DtmTypes, TapTypes, InDrScan, InIrScan, DrLength
<1>4. QED
  BY <1>1, <1>2, <1>3 DEF DtmNext

\* A scan that is accepted brings a word of three bits.
LEMMA AcceptedWord ==
    ASSUME DtmTypes, Accepting
    PROVE  dr[3] \in Bit
<1>1. dr \in Register(3)
  BY DEF DtmTypes, TapTypes, Accepting, update_dr, dmi_access, InDrScan, DrLength
<1>2. QED
  BY <1>1, RegisterBits

LEMMA FsmSteps ==
    ASSUME DtmTypes, DtmNext
    PROVE  FsmTypes'
<1>1. ASSUME NEW tms \in Bit, NEW tdi \in Bit, Rise(tms, tdi)
      PROVE  FsmTypes'
  <2>1. state' \in {"Idle", "Read", "WaitReadValid", "Write", "WaitWriteValid"}
    BY <1>1 DEF Rise, DmiClock, state_d, DtmTypes, FsmTypes, Accepting
  <2>2. data' \in Bit
    BY <1>1, AcceptedWord DEF Rise, DmiClock, data_d, DtmTypes, FsmTypes, Accepting
  <2>3. error' \in {NoError, Busy}
    BY <1>1 DEF Rise, DmiClock, error_d, DtmTypes, FsmTypes
  <2>4. /\ req_cdc' \in {"idle", "sent", "acked"} /\ resp_cdc' \in {"idle", "sent", "acked"}
        /\ device' \in {"idle", "working"} /\ response' \in Bit
    BY <1>1 DEF Rise, CdcClock, DtmTypes, FsmTypes, Bit
  <2>5. request' \in Requests \cup {NoRequest}
    BY <1>1 DEF Rise, CdcClock, DtmTypes, FsmTypes, Requests
  <2>6. QED
    BY <2>1, <2>2, <2>3, <2>4, <2>5 DEF FsmTypes
<1>2. CASE Fall
  BY <1>2 DEF Fall, fsm, cdc, DtmTypes, FsmTypes
<1>3. CASE CoreStep
  BY <1>3 DEF CoreStep, DeviceTakes, DeviceAnswers, ReqAcknowledged, RespAcknowledged,
              fsm, DtmTypes, FsmTypes, Bit
<1>4. QED
  BY <1>1, <1>2, <1>3 DEF DtmNext

\* The types, for every step of the simulation.
LEMMA TypeSteps ==
    ASSUME LinkTypes, DtmTypes, [Next]_vars
    PROVE  LinkTypes' /\ DtmTypes'
<1>1. LinkTypes' /\ (DtmNext \/ UNCHANGED dtm)
  BY LinkSteps
<1>2. CASE DtmNext
  BY <1>1, <1>2, TapSteps, FsmSteps DEF DtmTypes
<1>3. CASE UNCHANGED dtm
  BY <1>1, <1>3 DEF dtm, tap, fsm, cdc, DtmTypes, TapTypes, FsmTypes, InDrScan, InIrScan,
                    DrLength
<1>4. QED
  BY <1>1, <1>2, <1>3

LEMMA TypeInit == LinkInit => LinkTypes /\ DtmTypes
<1>1. LinkInit => LinkTypes
  <2>1. <<>> \in Seq(Commands)
    OBVIOUS
  <2>2. [tck |-> 0, tms |-> 0, tdi |-> 0, trstn |-> 0] \in Pins
    BY DEF Pins, Pin
  <2>3. QED
    BY <2>1, <2>2, Zenon DEF LinkInit, RbsInit, LinkTypes
<1>2. LinkInit => DtmTypes
  BY InstructionRegisters DEF LinkInit, Init, DtmTypes, TapTypes, FsmTypes, TapStates,
     InDrScan, InIrScan, Bit
<1>3. QED
  BY <1>1, <1>2

\* Every variable has a value of its type; in particular a data register has as
\* many bits as the instruction says when it is shifted and updated.
THEOREM TypeCorrect == Spec => []TypeOK
<1>1. LinkTypes /\ DtmTypes => TypeOK
  <2>1. Register(2) = Instructions
    BY InstructionRegisters
  <2>2. ASSUME NEW n \in {1, 2, 3}, NEW r \in Register(n)
        PROVE  r \in UNION {[1 .. m -> Bit] : m \in 0 .. 3}
    <3>1. r \in [1 .. n -> Bit] /\ n \in 0 .. 3
      BY DEF Register
    <3>2. QED
      BY <3>1
  <2>3. <<>> \in UNION {[1 .. m -> Bit] : m \in 0 .. 3}
    <3>1. <<>> \in [1 .. 0 -> Bit]
      OBVIOUS
    <3>2. QED
      BY <3>1
  <2>4. QED
    BY <2>1, <2>2, <2>3 DEF LinkTypes, DtmTypes, TapTypes, FsmTypes, TypeOK
<1>2. QED
  BY <1>1, TypeInit, TypeSteps, PTL DEF Spec

-----------------------------------------------------------------------------
(* Synchronisation                                                         *)

\* The clocks with TMS high that a state is away from TestLogicReset.
Distance(s) ==
    IF s = "TestLogicReset" THEN 0
    ELSE IF s = "SelectIrScan" THEN 1
    ELSE IF s = "SelectDrScan" THEN 2
    ELSE IF s \in {"RunTestIdle", "UpdateDr", "UpdateIr"} THEN 3
    ELSE IF s \in {"Exit1Dr", "Exit1Ir", "Exit2Dr", "Exit2Ir"} THEN 4
    ELSE 5

Approaching == ones \in 0 .. 5 /\ Distance(tap_state) + ones =< 5

LEMMA HighApproaches ==
    ASSUME NEW s \in TapStates
    PROVE  /\ Distance(s) \in 0 .. 5
           /\ Distance(Succ(s, 1)) =< IF Distance(s) = 0 THEN 0 ELSE Distance(s) - 1
<1>1. Distance(s) \in 0 .. 5
  BY DEF Distance
<1>2. /\ Succ("TestLogicReset", 1) = "TestLogicReset"
      /\ Succ("SelectIrScan", 1) = "TestLogicReset"
      /\ Succ("SelectDrScan", 1) = "SelectIrScan"
      /\ \A t \in {"RunTestIdle", "UpdateDr", "UpdateIr"} : Succ(t, 1) = "SelectDrScan"
      /\ \A t \in {"Exit1Dr", "Exit1Ir", "Exit2Dr", "Exit2Ir"} :
             Succ(t, 1) \in {"UpdateDr", "UpdateIr"}
      /\ \A t \in {"CaptureDr", "ShiftDr", "PauseDr", "CaptureIr", "ShiftIr", "PauseIr"} :
             Succ(t, 1) \in {"Exit1Dr", "Exit2Dr", "Exit1Ir", "Exit2Ir"}
  BY DEF Succ, Go, AfterPause
<1>3. QED
  BY <1>1, <1>2 DEF Distance, TapStates

LEMMA ApproachSteps ==
    ASSUME LinkTypes, DtmTypes, Approaching, [Next]_vars
    PROVE  Approaching'
<1>1. DtmNext \/ UNCHANGED dtm
  BY LinkSteps
<1>2. tap_state \in TapStates
  BY DEF DtmTypes, TapTypes
<1>3. ASSUME NEW tms \in Bit, NEW tdi \in Bit, Rise(tms, tdi)
      PROVE  Approaching'
  <2>1. tap_state' = Succ(tap_state, tms)
        /\ ones' = IF tms = 0 THEN 0 ELSE IF ones < 5 THEN ones + 1 ELSE ones
    BY <1>3 DEF Rise, TapClock
  <2>2. CASE tms = 1
    <3> DEFINE d == Distance(tap_state)
               e == Distance(tap_state')
    <3>1. d \in 0 .. 5 /\ e =< (IF d = 0 THEN 0 ELSE d - 1)
      BY <1>2, <2>1, <2>2, HighApproaches
    <3>2. e \in 0 .. 5
      BY <1>2, <2>1, SuccTypes, HighApproaches
    <3>3. ones' = (IF ones < 5 THEN ones + 1 ELSE ones) /\ ones \in 0 .. 5 /\ d + ones =< 5
      BY <2>1, <2>2 DEF Approaching
    <3> HIDE DEF d, e
    <3>4. ones' \in 0 .. 5 /\ e + ones' =< 5
      BY <3>1, <3>2, <3>3
    <3>5. QED
      BY <3>4 DEF Approaching, e
  <2>3. CASE tms = 0
    BY <1>2, <2>1, <2>3, SuccTypes, HighApproaches DEF Approaching, Bit
  <2>4. QED
    BY <2>2, <2>3 DEF Bit
<1>4. CASE Fall \/ CoreStep \/ UNCHANGED dtm
  BY <1>4 DEF Fall, CoreStep, DeviceTakes, DeviceAnswers, ReqAcknowledged, RespAcknowledged,
              dtm, tap, Approaching
<1>5. QED
  BY <1>1, <1>3, <1>4 DEF DtmNext

\* Five clocks with TMS high reach TestLogicReset, from wherever the TAP is when
\* the client begins.
THEOREM Synchronises == Spec => []SyncByFiveOnes
<1>1. LinkInit => Approaching
  BY DEF LinkInit, Init, Approaching, Distance
<1>2. DtmTypes /\ Approaching => SyncByFiveOnes
  BY HighApproaches DEF DtmTypes, TapTypes, Approaching, SyncByFiveOnes, Distance
<1>3. QED
  BY <1>1, <1>2, TypeInit, TypeSteps, ApproachSteps, PTL DEF Spec

-----------------------------------------------------------------------------
(* Lost operations                                                         *)

LossInv == lost => error = Busy

LEMMA LossSteps ==
    ASSUME LinkTypes, DtmTypes, LossInv, [Next]_vars
    PROVE  LossInv'
<1>1. DtmNext \/ UNCHANGED dtm
  BY LinkSteps
<1>2. ASSUME NEW tms \in Bit, NEW tdi \in Bit, Rise(tms, tdi)
      PROVE  LossInv'
  <2>1. error' = error_d
    BY <1>2 DEF Rise, DmiClock
  <2>2. CASE update_dr /\ dmi_reset
    <3>1. ~lost'
      BY <1>2, <2>2, InstructionRegisters
         DEF Rise, DmiClock, dmi_reset, dtmcs_select, dmi_access
    <3>2. QED
      BY <3>1 DEF LossInv
  <2>3. CASE ~(update_dr /\ dmi_reset) /\ update_dr /\ dmi_access /\ ~Accepting
    <3>1. CASE state = "Idle"
      BY <2>1, <2>3, <3>1 DEF Accepting, error_d, DtmTypes, FsmTypes, LossInv
    <3>2. CASE state # "Idle"
      BY <2>1, <2>3, <3>2 DEF error_d, error_dmi_busy, LossInv
    <3>3. QED
      BY <3>1, <3>2
  <2>4. CASE ~(update_dr /\ dmi_reset) /\ ~(update_dr /\ dmi_access /\ ~Accepting)
    <3>1. lost' = lost
      BY <1>2, <2>4 DEF Rise, DmiClock
    <3>2. QED
      BY <2>1, <2>4, <3>1 DEF error_d, LossInv
  <2>5. QED
    BY <2>2, <2>3, <2>4
<1>3. CASE Fall \/ CoreStep \/ UNCHANGED dtm
  BY <1>3 DEF Fall, CoreStep, DeviceTakes, DeviceAnswers, ReqAcknowledged, RespAcknowledged,
              dtm, fsm, LossInv
<1>4. QED
  BY <1>1, <1>2, <1>3 DEF DtmNext

\* A step that captures is a rising edge in CaptureDr.
LEMMA CaptureSteps ==
    ASSUME LinkTypes, [Next]_vars, Capturing
    PROVE  captured' = Captured
<1>1. DtmNext \/ UNCHANGED dtm
  BY LinkSteps
<1>2. captured' # captured
  BY DEF Capturing
<1>3. PICK tms, tdi \in Bit : Rise(tms, tdi)
  BY <1>1, <1>2 DEF DtmNext, Fall, CoreStep, DeviceTakes, DeviceAnswers,
                    ReqAcknowledged, RespAcknowledged, dtm, tap
<1>4. QED
  BY <1>3 DEF Rise, TapClock, Capturing, capture_dr

\* What the two registers with an error field capture.
LEMMA CapturedFields ==
    /\ dmi_access => Captured = LET e == IF error_dmi_busy THEN Busy ELSE error
                                IN  <<e, e, data>>
    /\ dtmcs_select => Captured = <<error, 0>>
BY InstructionRegisters DEF Captured, dmi_access, dtmcs_select

\* A client whose scan reports no error has lost none of its operations.
THEOREM LossReported == Spec => LossIsReported
<1>1. LinkInit => LossInv
  BY DEF LinkInit, Init, LossInv
<1>2. ASSUME LinkTypes, DtmTypes, LossInv, [Next]_vars
      PROVE  [Capturing /\ lost /\ (dmi_access \/ dtmcs_select) => captured'[1] = Busy]_vars
  <2>1. SUFFICES ASSUME Capturing, lost, dmi_access \/ dtmcs_select
                 PROVE  captured'[1] = Busy
    OBVIOUS
  <2>2. error = Busy /\ captured' = Captured
    BY <1>2, <2>1, CaptureSteps DEF LossInv
  <2>3. CASE dmi_access
    <3>1. captured' = <<Busy, Busy, data>>
      BY <2>2, <2>3, CapturedFields
    <3>2. QED
      BY <3>1
  <2>4. CASE dtmcs_select
    <3>1. captured' = <<Busy, 0>>
      BY <2>2, <2>4, CapturedFields
    <3>2. QED
      BY <3>1
  <2>5. QED
    BY <2>1, <2>3, <2>4
<1>3. QED
  BY <1>1, <1>2, TypeInit, TypeSteps, LossSteps, PTL DEF Spec, LossIsReported

-----------------------------------------------------------------------------
(* The crossings                                                           *)

Waiting == state \in {"WaitReadValid", "WaitWriteValid"}

\* The request that dmi_jtag has sent.
Own == [op |-> IF state = "WaitReadValid" THEN "read" ELSE "write", data |-> data]

AtRest    == /\ ~Waiting /\ request = NoRequest
             /\ req_cdc # "sent" /\ device = "idle" /\ resp_cdc # "sent"
Leaving   == /\ Waiting /\ request = Own
             /\ req_cdc = "sent" /\ device = "idle" /\ resp_cdc # "sent"
Working   == /\ Waiting /\ request = Own
             /\ req_cdc # "sent" /\ device = "working" /\ resp_cdc # "sent"
Returning == /\ Waiting /\ request = NoRequest
             /\ req_cdc # "sent" /\ device = "idle" /\ resp_cdc = "sent"

\* One operation at most is in the crossings or at the debug module.
CrossingInv == AtRest \/ Leaving \/ Working \/ Returning

\* What the port shows in each of these.
PortView ==
    /\ AtRest /\ state = "Idle" => port_phase = "free" /\ port_op = "none" /\ port_word = data
    /\ AtRest /\ state = "Read"
           => port_phase = "accepted" /\ port_op = "read" /\ port_word = data
    /\ AtRest /\ state = "Write"
           => port_phase = "accepted" /\ port_op = "write" /\ port_word = data
    /\ Leaving => port_phase = "accepted" /\ port_op = Own.op /\ port_word = data
    /\ Working => port_phase = "taken" /\ port_op = Own.op /\ port_word = data
    /\ Returning /\ state = "WaitReadValid"
           => port_phase = "answered" /\ port_op = "read" /\ port_word = response
    /\ Returning /\ state = "WaitWriteValid"
           => port_phase = "answered" /\ port_op = "write" /\ port_word = data

LEMMA PortShows == PortView
<1>1. Own # NoRequest /\ Own.op \in {"read", "write"} /\ Own.data = data
  BY DEF Own, NoRequest
<1>2. AtRest /\ state = "Idle" => port_phase = "free" /\ port_op = "none" /\ port_word = data
  BY DEF AtRest, Waiting, port_phase, port_op, port_word, Crossing
<1>3. AtRest /\ state = "Read"
         => port_phase = "accepted" /\ port_op = "read" /\ port_word = data
  BY DEF AtRest, Waiting, port_phase, port_op, port_word, Crossing
<1>4. AtRest /\ state = "Write"
         => port_phase = "accepted" /\ port_op = "write" /\ port_word = data
  BY DEF AtRest, Waiting, port_phase, port_op, port_word, Crossing
<1>5. Leaving => port_phase = "accepted" /\ port_op = Own.op /\ port_word = data
  BY <1>1 DEF Leaving, Waiting, port_phase, port_op, port_word, Crossing
<1>6. Working => port_phase = "taken" /\ port_op = Own.op /\ port_word = data
  BY <1>1 DEF Working, Waiting, port_phase, port_op, port_word, Crossing
<1>7. Returning /\ state = "WaitReadValid"
         => port_phase = "answered" /\ port_op = "read" /\ port_word = response
  BY DEF Returning, Waiting, port_phase, port_op, port_word, Crossing
<1>8. Returning /\ state = "WaitWriteValid"
         => port_phase = "answered" /\ port_op = "write" /\ port_word = data
  BY DEF Returning, Waiting, port_phase, port_op, port_word, Crossing
<1>9. QED
  BY <1>2, <1>3, <1>4, <1>5, <1>6, <1>7, <1>8 DEF PortView

LEMMA PortShowsNext == PortView'
BY PortShows, PTL

\* What a step of the port looks like.
LEMMA PortMoves ==
    /\ \A d \in Bit :
         port_phase = "free" /\ port_phase' = "free" /\ port_op' = port_op /\ port_word' = d
           => Port!Next
    /\ \A d \in Bit, o \in {"read", "write"} :
         port_phase = "free" /\ port_phase' = "accepted" /\ port_op' = o /\ port_word' = d
           => Port!Next
    /\ port_phase = "accepted" /\ port_phase' = "taken"
           /\ port_op' = port_op /\ port_word' = port_word => Port!Next
    /\ \A d \in Bit :
         port_phase = "taken" /\ port_phase' = "answered" /\ port_op' = port_op
           /\ port_word' = (IF port_op = "read" THEN d ELSE port_word) => Port!Next
    /\ port_phase = "answered" /\ port_phase' = "free" /\ port_op' = "none"
           /\ port_word' = port_word => Port!Next
    /\ port_phase' = port_phase /\ port_op' = port_op /\ port_word' = port_word
           => UNCHANGED Port!vars
BY DEF Port!Next, Port!Nop, Port!Accept, Port!Take, Port!Answer, Port!Collect, Port!vars

\* An edge of TCK with the port free: a scan is accepted, or leaves its data.
LEMMA FreeEdge ==
    ASSUME DtmTypes, AtRest, state = "Idle", NEW tms \in Bit, NEW tdi \in Bit,
           Rise(tms, tdi)
    PROVE  CrossingInv' /\ [Port!Next]_(Port!vars)
<1>1. /\ state' = state_d /\ data' = data_d /\ response' = response
      /\ req_cdc' = req_cdc /\ request' = NoRequest /\ device' = "idle"
      /\ resp_cdc' = resp_cdc
  BY DEF Rise, DmiClock, CdcClock, AtRest, dmi_req_valid, dmi_resp_valid
<1>2. port_phase = "free" /\ port_op = "none" /\ port_word = data /\ data \in Bit
  BY PortShows DEF PortView, DtmTypes, FsmTypes
<1>3. state_d \in {"Idle", "Read", "Write"}
  BY DEF state_d
<1>4. AtRest'
  BY <1>1, <1>3 DEF AtRest, Waiting
<1>5. CASE Accepting
  <2>1. data' = dr[3] /\ dr[3] \in Bit
    BY <1>1, <1>5, AcceptedWord DEF data_d, Accepting
  <2>2. CASE state' = "Idle"
    <3>1. port_phase' = "free" /\ port_op' = "none" /\ port_word' = data'
      BY <1>4, <2>2, PortShowsNext DEF PortView
    <3>2. QED
      BY <1>2, <1>4, <2>1, <3>1, PortMoves DEF CrossingInv
  <2>3. CASE state' = "Read"
    <3>1. port_phase' = "accepted" /\ port_op' = "read" /\ port_word' = data'
      BY <1>4, <2>3, PortShowsNext DEF PortView
    <3>2. QED
      BY <1>2, <1>4, <2>1, <3>1, PortMoves DEF CrossingInv
  <2>4. CASE state' = "Write"
    <3>1. port_phase' = "accepted" /\ port_op' = "write" /\ port_word' = data'
      BY <1>4, <2>4, PortShowsNext DEF PortView
    <3>2. QED
      BY <1>2, <1>4, <2>1, <3>1, PortMoves DEF CrossingInv
  <2>5. QED
    BY <1>1, <1>3, <2>2, <2>3, <2>4
<1>6. CASE ~Accepting
  <2>1. state' = "Idle" /\ data' = data
    BY <1>1, <1>6 DEF state_d, data_d
  <2>2. port_phase' = "free" /\ port_op' = "none" /\ port_word' = data'
    BY <1>4, <2>1, PortShowsNext DEF PortView
  <2>3. QED
    BY <1>2, <1>4, <2>1, <2>2, PortMoves DEF CrossingInv
<1>7. QED
  BY <1>5, <1>6

\* An edge while a request waits for the crossing.
LEMMA SendEdge ==
    ASSUME DtmTypes, AtRest, state \in {"Read", "Write"},
           NEW tms \in Bit, NEW tdi \in Bit, Rise(tms, tdi)
    PROVE  CrossingInv' /\ [Port!Next]_(Port!vars)
<1>1. /\ state' = state_d /\ data' = data /\ response' = response
      /\ device' = "idle" /\ resp_cdc' = resp_cdc /\ resp_cdc # "sent"
  BY DEF Rise, DmiClock, CdcClock, AtRest, dmi_req_valid, dmi_resp_valid, data_d, Accepting
<1>2. /\ port_phase = "accepted" /\ port_word = data
      /\ port_op = IF state = "Read" THEN "read" ELSE "write"
  BY PortShows DEF PortView
<1>3. CASE dmi_req_ready
  <2>1. state' = IF state = "Read" THEN "WaitReadValid" ELSE "WaitWriteValid"
    BY <1>1, <1>3 DEF state_d, Accepting
  <2>2. req_cdc' = "sent" /\ request' = Own'
    BY <1>1, <1>3, <2>1 DEF Rise, CdcClock, dmi_req_valid, Own
  <2>3. Leaving'
    BY <1>1, <2>1, <2>2 DEF Leaving, Waiting
  <2>4. port_phase' = "accepted" /\ port_op' = Own'.op /\ port_word' = data'
    BY <2>3, PortShowsNext DEF PortView
  <2>5. Own'.op = IF state = "Read" THEN "read" ELSE "write"
    BY <2>1 DEF Own
  <2>6. QED
    BY <1>1, <1>2, <2>3, <2>4, <2>5, PortMoves DEF CrossingInv
<1>4. CASE ~dmi_req_ready
  <2>1. state' = state
    BY <1>1, <1>4 DEF state_d, Accepting
  <2>2. AtRest'
    BY <1>1, <1>4, <2>1 DEF Rise, CdcClock, AtRest, Waiting
  <2>3. /\ port_phase' = "accepted" /\ port_word' = data'
        /\ port_op' = IF state' = "Read" THEN "read" ELSE "write"
    BY <2>1, <2>2, PortShowsNext DEF PortView
  <2>4. QED
    BY <1>1, <1>2, <2>1, <2>2, <2>3, PortMoves DEF CrossingInv
<1>5. QED
  BY <1>3, <1>4

\* An edge while the operation is on its way or its answer has arrived.
LEMMA WaitEdge ==
    ASSUME DtmTypes, Leaving \/ Working \/ Returning,
           NEW tms \in Bit, NEW tdi \in Bit, Rise(tms, tdi)
    PROVE  CrossingInv' /\ [Port!Next]_(Port!vars)
<1>0. Waiting /\ ~Accepting /\ ~dmi_req_valid
  BY DEF Leaving, Working, Returning, Waiting, Accepting, dmi_req_valid
<1>1. /\ state' = state_d /\ data' = data_d
      /\ req_cdc' = req_cdc /\ request' = request /\ device' = device
  BY <1>0 DEF Rise, DmiClock, CdcClock
<1>2. CASE Leaving \/ Working
  <2>1. ~dmi_resp_valid
    BY <1>2 DEF Leaving, Working, dmi_resp_valid
  <2>2. state' = state /\ data' = data /\ resp_cdc' = resp_cdc
    <3>1. state' = state
      BY <1>0, <1>1, <2>1 DEF state_d, Waiting
    <3>2. data' = data
      BY <1>0, <1>1, <2>1 DEF data_d, Waiting
    <3>3. resp_cdc' = resp_cdc
      BY <2>1 DEF Rise, CdcClock
    <3>4. QED
      BY <3>1, <3>2, <3>3
  <2>3. Own' = Own
    BY <2>2 DEF Own
  <2>4. (Leaving => Leaving') /\ (Working => Working')
    BY <1>1, <2>2, <2>3 DEF Leaving, Working, Waiting
  <2>5. QED
    BY <1>2, <2>2, <2>3, <2>4, PortShows, PortShowsNext, PortMoves DEF PortView, CrossingInv
<1>3. CASE Returning
  <2>1. dmi_resp_valid
    BY <1>3 DEF Returning, dmi_resp_valid
  <2>2. state' = "Idle"
    BY <1>0, <1>1, <2>1 DEF state_d, Waiting
  <2>3. data' = IF state = "WaitReadValid" THEN response ELSE data
    BY <1>0, <1>1, <2>1 DEF data_d, Waiting
  <2>4. resp_cdc' = "acked"
    BY <2>1 DEF Rise, CdcClock
  <2>5. AtRest'
    BY <1>1, <1>3, <2>2, <2>4 DEF Returning, AtRest, Waiting
  <2>6. port_phase' = "free" /\ port_op' = "none" /\ port_word' = data'
    BY <2>2, <2>5, PortShowsNext DEF PortView
  <2>7. port_phase = "answered" /\ port_word = data'
    BY <1>0, <1>3, <2>3, PortShows DEF PortView, Waiting
  <2>8. QED
    BY <2>5, <2>6, <2>7, PortMoves DEF CrossingInv
<1>4. QED
  BY <1>2, <1>3

\* The steps of the debug module's clock domain.
LEMMA CoreSteps ==
    ASSUME DtmTypes, CrossingInv, CoreStep
    PROVE  CrossingInv' /\ [Port!Next]_(Port!vars)
<1>0. UNCHANGED <<state, data>> /\ Own' = Own /\ Waiting' = Waiting
  BY DEF CoreStep, DeviceTakes, DeviceAnswers, ReqAcknowledged, RespAcknowledged, fsm,
         Own, Waiting
<1>1. CASE DeviceTakes
  <2>1. Leaving
    BY <1>1 DEF DeviceTakes, CrossingInv, AtRest, Working, Returning, Leaving
  <2>2. Working'
    BY <1>0, <1>1, <2>1 DEF DeviceTakes, Leaving, Working
  <2>3. QED
    BY <1>0, <2>1, <2>2, PortShows, PortShowsNext, PortMoves DEF PortView, CrossingInv
<1>2. CASE DeviceAnswers
  <2>1. Working
    BY <1>2 DEF DeviceAnswers, CrossingInv, AtRest, Leaving, Returning, Working
  <2>2. Returning'
    BY <1>0, <1>2, <2>1 DEF DeviceAnswers, Working, Returning
  <2>3. port_phase = "taken" /\ port_op = Own.op /\ port_word = data
    BY <2>1, PortShows DEF PortView
  <2>4. request.op = Own.op
    BY <2>1 DEF Working
  <2>5. CASE state = "WaitReadValid"
    <3>1. port_op = "read"
      BY <2>3, <2>5 DEF Own
    <3>2. PICK d \in Bit : response' = d
      BY <1>2, <2>4, <2>5 DEF DeviceAnswers, Own
    <3>3. port_phase' = "answered" /\ port_op' = "read" /\ port_word' = d
      BY <1>0, <2>2, <2>5, <3>2, PortShowsNext DEF PortView
    <3>4. QED
      BY <2>2, <2>3, <3>1, <3>3, PortMoves DEF CrossingInv
  <2>6. CASE state = "WaitWriteValid"
    <3>1. port_op = "write"
      BY <2>3, <2>6 DEF Own
    <3>2. port_phase' = "answered" /\ port_op' = "write" /\ port_word' = data
      BY <1>0, <2>2, <2>6, PortShowsNext DEF PortView
    <3>3. data \in Bit
      BY DEF DtmTypes, FsmTypes
    <3>4. QED
      BY <2>2, <2>3, <3>1, <3>2, <3>3, PortMoves DEF CrossingInv
  <2>7. QED
    BY <2>1, <2>5, <2>6 DEF Working, Waiting
<1>3. CASE ReqAcknowledged \/ RespAcknowledged
  <2>1. /\ UNCHANGED <<request, device, response>>
        /\ (req_cdc' = "sent") = (req_cdc = "sent")
        /\ (resp_cdc' = "sent") = (resp_cdc = "sent")
    BY <1>3 DEF ReqAcknowledged, RespAcknowledged
  <2>2. /\ AtRest => AtRest'
        /\ Leaving => Leaving'
        /\ Working => Working'
        /\ Returning => Returning'
    BY <1>0, <2>1 DEF AtRest, Leaving, Working, Returning
  <2>3. state \in {"Idle", "Read", "WaitReadValid", "Write", "WaitWriteValid"}
    BY DEF DtmTypes, FsmTypes
  <2>4. port_phase' = port_phase /\ port_op' = port_op /\ port_word' = port_word
    BY <1>0, <2>1, <2>2, <2>3, PortShows, PortShowsNext
       DEF PortView, CrossingInv, AtRest, Returning, Waiting
  <2>5. QED
    BY <2>2, <2>4, PortMoves DEF CrossingInv
<1>4. QED
  BY <1>1, <1>2, <1>3 DEF CoreStep

LEMMA PortSteps ==
    ASSUME LinkTypes, DtmTypes, CrossingInv, [Next]_vars
    PROVE  CrossingInv' /\ [Port!Next]_(Port!vars)
<1>1. DtmNext \/ UNCHANGED dtm
  BY LinkSteps
<1>2. ASSUME NEW tms \in Bit, NEW tdi \in Bit, Rise(tms, tdi)
      PROVE  CrossingInv' /\ [Port!Next]_(Port!vars)
  <2>1. state \in {"Idle", "Read", "Write"} \/ Waiting
    BY DEF DtmTypes, FsmTypes, Waiting
  <2>2. QED
    BY <1>2, <2>1, FreeEdge, SendEdge, WaitEdge
       DEF CrossingInv, AtRest, Leaving, Working, Returning
<1>3. CASE Fall \/ UNCHANGED dtm
  <2>1. UNCHANGED <<state, data, cdc>>
    BY <1>3 DEF Fall, dtm, fsm
  <2>2. CrossingInv'
    BY <2>1 DEF cdc, CrossingInv, AtRest, Leaving, Working, Returning, Waiting, Own
  <2>3. UNCHANGED Port!vars
    BY <2>1 DEF cdc, Port!vars, port_phase, port_op, port_word, Crossing
  <2>4. QED
    BY <2>2, <2>3
<1>4. QED
  BY <1>1, <1>2, <1>3, CoreSteps DEF DtmNext

LEMMA CrossingInit ==
    ASSUME LinkInit
    PROVE  CrossingInv /\ Port!Init
<1>1. AtRest /\ state = "Idle" /\ data \in Bit
  BY DEF LinkInit, Init, AtRest, Waiting, Bit
<1>2. QED
  BY <1>1, PortShows DEF CrossingInv, PortView, Port!Init

\* Each scan that is accepted is one operation of the debug module, with its
\* data, whatever the phase between TCK and the debug module's clock.
THEOREM JtagImplementsPort == Spec => ImplementsDmiPort
<1>1. Spec => Port!Init /\ [][Port!Next]_(Port!vars)
  BY TypeInit, TypeSteps, CrossingInit, PortSteps, PTL DEF Spec
<1>2. QED
  BY <1>1 DEF ImplementsDmiPort, Port!Spec

\* A scan without an error shows the answer to the last read, or the word that
\* was written, and no read is still on its way.
THEOREM CapturesCurrent == Spec => CaptureIsCurrent
<1>1. ASSUME LinkTypes, DtmTypes, CrossingInv, [Next]_vars
      PROVE  [Capturing /\ dmi_access /\ captured'[1] = NoError
              => port_op # "read" /\ captured'[3] = port_word]_vars
  <2>1. SUFFICES ASSUME Capturing, dmi_access, captured'[1] = NoError
                 PROVE  port_op # "read" /\ captured'[3] = port_word
    OBVIOUS
  <2> DEFINE e == IF error_dmi_busy THEN Busy ELSE error
  <2>2. captured' = <<e, e, data>>
    BY <1>1, <2>1, CaptureSteps, CapturedFields
  <2>3. captured'[1] = e /\ captured'[3] = data
    <3> HIDE DEF e
    <3>1. QED
      BY <2>2
  <2>4. state \notin {"Read", "WaitReadValid"}
    <3>1. capture_dr
      BY <2>1 DEF Capturing
    <3>2. ~error_dmi_busy
      BY <2>1, <2>3 DEF NoError, Busy
    <3>3. QED
      BY <3>1, <3>2 DEF error_dmi_busy
  <2>5. port_op # "read" /\ port_word = data
    BY <1>1, <2>4, PortShows
       DEF DtmTypes, FsmTypes, CrossingInv, PortView, AtRest, Leaving, Working, Returning,
           Waiting, Own
  <2>6. QED
    BY <2>3, <2>5
<1>2. QED
  BY <1>1, TypeInit, TypeSteps, CrossingInit, PortSteps, PTL DEF Spec, CaptureIsCurrent

-----------------------------------------------------------------------------
(* What a client reads in a scan: the bits not yet shifted out are those   *)
(* captured, TDO shows the next of them while TCK is low, and the client   *)
(* reads only then.                                                        *)

\* The bits of a register that have not been shifted out are those captured.
Carries(reg, n) ==
    /\ captured \in Register(n) /\ shifted \in Nat
    /\ \A i \in 1 .. n : i + shifted <= n => reg[i] = captured[i + shifted]

ScanInv ==
    /\ InDrScan => Carries(dr, DrLength)
    /\ InIrScan => Carries(ir_shift, 2)
    /\ ~InDrScan /\ ~InIrScan => shifted = 0

\* TDO shows the bit that the next rising edge shifts out.
TdoShown ==
    /\ tap_state = "ShiftDr" => td_o = Head(dr)
    /\ tap_state = "ShiftIr" => td_o = Head(ir_shift)

\* The commands of one bit, as the server works them off.
Sent(tms, tdi) == {<<Write(0, tms, tdi), ReadTdo, Write(1, tms, tdi)>>,
                   <<Write(0, tms, tdi), Write(1, tms, tdi)>>}

\* What is on the way to the server, and the level of TCK that goes with it.
LineInv ==
    \/ ended
    \/ /\ ~client_fd /\ tap_state = "RunTestIdle"
       /\ \/ tosrv \in {<<>>, <<Quit>>}
          \/ \E tms, tdi \in Bit : tosrv = <<Write(0, tms, tdi), Write(1, tms, tdi)>>
    \/ /\ client_fd
       /\ \/ tosrv \in {<<>>, <<Quit>>} /\ pins.tck = 1
          \/ \E tms, tdi \in Bit : tosrv \in Sent(tms, tdi) /\ pins.tck = 1
          \/ \E tms, tdi \in Bit : /\ tosrv = <<ReadTdo, Write(1, tms, tdi)>>
                                   /\ pins.tck = 0 /\ TdoShown
          \/ \E tms, tdi \in Bit : tosrv = <<Write(1, tms, tdi)>> /\ pins.tck = 0

LEMMA ShiftMoves ==
    ASSUME NEW n \in {1, 2, 3}, NEW reg \in Register(n), NEW bit \in Bit
    PROVE  \A i \in 1 .. n : i + 1 <= n => ShiftIn(reg, bit)[i] = reg[i + 1]
<1>1. reg \in Seq(Bit) /\ Len(reg) = n
  BY DEF Register
<1>2. /\ Tail(reg) \in Seq(Bit) /\ Len(Tail(reg)) = n - 1
      /\ \A i \in 1 .. n : i + 1 <= n => Tail(reg)[i] = reg[i + 1]
  BY <1>1
<1>3. QED
  BY <1>2 DEF ShiftIn

\* A shift takes the bit that was shown and leaves the others in order.
LEMMA ShiftCarries ==
    ASSUME NEW n \in {1, 2, 3}, NEW reg \in Register(n), NEW bit \in Bit,
           Carries(reg, n), shifted' = shifted + 1, captured' = captured,
           NEW next, next = ShiftIn(reg, bit)
    PROVE  /\ captured' \in Register(n) /\ shifted' \in Nat
           /\ \A i \in 1 .. n : i + shifted' <= n => next[i] = captured'[i + shifted']
<1>1. captured' \in Register(n) /\ shifted' \in Nat
  BY DEF Carries
<1>2. ASSUME NEW i \in 1 .. n, i + shifted' <= n
      PROVE  next[i] = captured'[i + shifted']
  <2>1. i + 1 \in 1 .. n /\ (i + 1) + shifted <= n /\ (i + 1) + shifted = i + shifted'
    BY <1>2 DEF Carries
  <2>2. next[i] = reg[i + 1]
    BY <1>2, <2>1, ShiftMoves
  <2>3. reg[i + 1] = captured[(i + 1) + shifted]
    BY <2>1 DEF Carries
  <2>4. QED
    BY <2>1, <2>2, <2>3
<1>3. QED
  BY <1>1, <1>2

LEMMA ScanRise ==
    ASSUME DtmTypes, DtmTypes', ScanInv, NEW tms \in Bit, NEW tdi \in Bit, TapClock(tms, tdi)
    PROVE  ScanInv'
<1>1. tap_state' = Succ(tap_state, tms) /\ tap_state \in TapStates
  BY DEF TapClock, DtmTypes, TapTypes
<1>2. tap_state \notin {"UpdateIr", "TestLogicReset"} => ir' = ir /\ DrLength' = DrLength
  BY IrTypes DEF DrLength
<1>3. DrLength \in {1, 2, 3}
  BY DEF DrLength
<1>4. CASE tap_state = "CaptureDr"
  <2>1. captured' = Captured /\ dr' = Captured /\ shifted' = 0
    BY <1>4 DEF TapClock, capture_dr, update_dr, ScanInv, InDrScan, InIrScan
  <2>2. InDrScan' /\ ~InIrScan' /\ DrLength' = DrLength
    BY <1>1, <1>2, <1>4 DEF Succ, Go, InDrScan, InIrScan
  <2>3. QED
    BY <1>3, <2>1, <2>2, CapturedTypes DEF ScanInv, Carries
<1>5. CASE tap_state = "CaptureIr"
  <2>1. captured' = <<1, 0>> /\ ir_shift' = <<1, 0>> /\ shifted' = 0
    BY <1>5 DEF TapClock, capture_dr, update_dr, ScanInv, InDrScan, InIrScan
  <2>2. InIrScan' /\ ~InDrScan'
    BY <1>1, <1>5 DEF Succ, Go, InDrScan, InIrScan
  <2>3. captured' \in Register(2)
    BY <2>1, <2>2 DEF DtmTypes, TapTypes
  <2>4. QED
    BY <2>1, <2>2, <2>3 DEF ScanInv, Carries
<1>6. CASE tap_state = "ShiftDr"
  <2>1. /\ dr' = ShiftIn(dr, tdi) /\ shifted' = shifted + 1 /\ captured' = captured
        /\ dr \in Register(DrLength) /\ Carries(dr, DrLength)
    BY <1>6 DEF TapClock, capture_dr, update_dr, DtmTypes, TapTypes, ScanInv, InDrScan
  <2>2. InDrScan' /\ ~InIrScan' /\ DrLength' = DrLength
    BY <1>1, <1>2, <1>6 DEF Succ, Go, InDrScan, InIrScan
  <2>3. Carries(dr, DrLength)'
    BY <1>3, <2>1, <2>2, ShiftCarries DEF Carries
  <2>4. QED
    BY <2>2, <2>3 DEF ScanInv
<1>7. CASE tap_state = "ShiftIr"
  <2>1. /\ ir_shift' = ShiftIn(ir_shift, tdi) /\ shifted' = shifted + 1
        /\ captured' = captured /\ ir_shift \in Register(2) /\ Carries(ir_shift, 2)
    BY <1>7 DEF TapClock, capture_dr, update_dr, DtmTypes, TapTypes, ScanInv, InIrScan
  <2>2. InIrScan' /\ ~InDrScan'
    BY <1>1, <1>7 DEF Succ, Go, InDrScan, InIrScan
  <2>3. Carries(ir_shift, 2)'
    BY <2>1, ShiftCarries DEF Carries
  <2>4. QED
    BY <2>2, <2>3 DEF ScanInv
<1>8. CASE tap_state \in {"UpdateDr", "UpdateIr"}
  <2>1. shifted' = 0 /\ ~InDrScan' /\ ~InIrScan'
    BY <1>1, <1>8 DEF TapClock, Succ, Go, InDrScan, InIrScan
  <2>2. QED
    BY <2>1 DEF ScanInv
<1>9. CASE tap_state \in {"Exit1Dr", "PauseDr", "Exit2Dr", "Exit1Ir", "PauseIr", "Exit2Ir"}
  <2>1. UNCHANGED <<captured, shifted, dr, ir_shift>>
    BY <1>9 DEF TapClock, capture_dr, update_dr
  <2>2. (InDrScan' <=> InDrScan) /\ (InIrScan' <=> InIrScan) /\ DrLength' = DrLength
    BY <1>1, <1>2, <1>9 DEF Succ, Go, AfterPause, InDrScan, InIrScan
  <2>3. QED
    BY <2>1, <2>2 DEF ScanInv, Carries
<1>10. CASE tap_state \in {"TestLogicReset", "RunTestIdle", "SelectDrScan", "SelectIrScan"}
  <2>1. shifted' = 0 /\ ~InDrScan' /\ ~InIrScan'
    BY <1>1, <1>10 DEF TapClock, Succ, Go, ScanInv, InDrScan, InIrScan
  <2>2. QED
    BY <2>1 DEF ScanInv
<1>11. QED
  BY <1>1, <1>4, <1>5, <1>6, <1>7, <1>8, <1>9, <1>10 DEF TapStates

LEMMA ScanSteps ==
    ASSUME DtmTypes, DtmTypes', ScanInv, DtmNext \/ UNCHANGED dtm
    PROVE  ScanInv'
<1>1. ASSUME NEW tms \in Bit, NEW tdi \in Bit, Rise(tms, tdi) PROVE ScanInv'
  BY <1>1, ScanRise DEF Rise
<1>2. CASE UNCHANGED tap
  BY <1>2 DEF tap, ScanInv, InDrScan, InIrScan, DrLength, Carries
<1>3. Fall \/ CoreStep \/ UNCHANGED dtm => UNCHANGED tap
  BY DEF Fall, CoreStep, DeviceTakes, DeviceAnswers, ReqAcknowledged, RespAcknowledged, dtm
<1>4. QED
  BY <1>1, <1>2, <1>3 DEF DtmNext

-----------------------------------------------------------------------------
(* The commands on the line                                                *)

\* What the sequences of commands look like to the server.
LEMMA Lines ==
    ASSUME NEW a, NEW b, NEW c
    PROVE  /\ <<a, b, c>> # <<>> /\ Head(<<a, b, c>>) = a /\ Tail(<<a, b, c>>) = <<b, c>>
           /\ <<a, b>> # <<>> /\ Head(<<a, b>>) = a /\ Tail(<<a, b>>) = <<b>>
           /\ <<a>> # <<>> /\ Head(<<a>>) = a /\ Tail(<<a>>) = <<>>
OBVIOUS

LEMMA CommandFields ==
    /\ \A p, q, r \in Bit : Write(p, q, r).name = "write" /\ Write(p, q, r).tck = p
    /\ ReadTdo.name = "read" /\ Quit.name = "quit"
BY DEF Write, ReadTdo, Quit

\* The edge, if any, that a command makes.
CommandDone(command) ==
    /\ IF command.name = "write"
       THEN pins' = [tck |-> command.tck, tms |-> command.tms,
                     tdi |-> command.tdi, trstn |-> pins.trstn]
       ELSE pins' = pins
    /\ ended' = (command.name = "quit")
    /\ client_fd' = (command.name # "quit")
    /\ Edge

LEMMA WriteDone ==
    ASSUME NEW command, CommandDone(command), command.name = "write"
    PROVE  pins'.tck = command.tck /\ client_fd'
<1>1. pins' = [tck |-> command.tck, tms |-> command.tms, tdi |-> command.tdi,
               trstn |-> pins.trstn]
  BY DEF CommandDone
<1>2. command.name # "quit"
  OBVIOUS
<1>3. client_fd'
  BY <1>2, Zenon DEF CommandDone
<1>4. QED
  BY <1>1, <1>3

LEMMA LowWrite ==
    ASSUME LinkTypes, NEW tms \in Bit, NEW tdi \in Bit, pins.tck = 1,
           CommandDone(Write(0, tms, tdi))
    PROVE  pins'.tck = 0 /\ TdoShown' /\ client_fd'
<1>1. pins'.tck = 0 /\ client_fd'
  BY WriteDone, CommandFields DEF Bit
<1>2. Fall
  BY <1>1 DEF CommandDone, Edge
<1>3. TdoShown'
  BY <1>2 DEF Fall, TdoClock, tap, TdoShown
<1>4. QED
  BY <1>1, <1>3

LEMMA ExecuteLine ==
    ASSUME LinkTypes, LineInv, Execute(td_o), Edge
    PROVE  LineInv'
<1>1. /\ ~ended /\ client_fd /\ tosrv # <<>> /\ tosrv' = Tail(tosrv)
      /\ CommandDone(Head(tosrv))
  BY DEF Execute, CommandDone
<1>2. CASE tosrv = <<Quit>>
  <2>1. Head(tosrv) = Quit
    BY <1>2, Lines
  <2>2. ended'
    BY <1>1, <2>1, CommandFields DEF CommandDone
  <2>3. QED
    BY <2>2 DEF LineInv
<1>3. ASSUME NEW tms \in Bit, NEW tdi \in Bit, tosrv \in Sent(tms, tdi), pins.tck = 1
      PROVE  LineInv'
  <2>1. Head(tosrv) = Write(0, tms, tdi)
    BY <1>3, Lines DEF Sent
  <2>2. tosrv' = <<ReadTdo, Write(1, tms, tdi)>> \/ tosrv' = <<Write(1, tms, tdi)>>
    <3>1. CASE tosrv = <<Write(0, tms, tdi), ReadTdo, Write(1, tms, tdi)>>
      BY <1>1, <3>1, Lines
    <3>2. CASE tosrv = <<Write(0, tms, tdi), Write(1, tms, tdi)>>
      BY <1>1, <3>2, Lines
    <3>3. QED
      BY <1>3, <3>1, <3>2 DEF Sent
  <2>3. pins'.tck = 0 /\ TdoShown' /\ client_fd'
    BY <1>1, <1>3, <2>1, LowWrite
  <2>4. QED
    BY <2>2, <2>3 DEF LineInv
<1>4. ASSUME NEW tms \in Bit, NEW tdi \in Bit,
             tosrv = <<ReadTdo, Write(1, tms, tdi)>>, pins.tck = 0
      PROVE  LineInv'
  <2>1. Head(tosrv) = ReadTdo /\ tosrv' = <<Write(1, tms, tdi)>>
    BY <1>1, <1>4, Lines
  <2>2. pins' = pins /\ client_fd'
    BY <1>1, <2>1, CommandFields DEF CommandDone
  <2>3. QED
    BY <1>4, <2>1, <2>2 DEF LineInv
<1>5. ASSUME NEW tms \in Bit, NEW tdi \in Bit, tosrv = <<Write(1, tms, tdi)>>
      PROVE  LineInv'
  <2>1. Head(tosrv) = Write(1, tms, tdi) /\ tosrv' = <<>>
    BY <1>1, <1>5, Lines
  <2>2. pins'.tck = 1 /\ client_fd'
    BY <1>1, <2>1, WriteDone, CommandFields DEF Bit
  <2>3. QED
    BY <2>1, <2>2 DEF LineInv
<1>6. QED
  BY <1>1, <1>2, <1>3, <1>4, <1>5 DEF LineInv

LEMMA AcceptLine ==
    ASSUME LinkTypes, LineInv, Accept
    PROVE  LineInv'
<1>1. client_fd' /\ pins'.tck = 1 /\ tosrv' = tosrv
  BY DEF Accept
<1>2. \/ tosrv \in {<<>>, <<Quit>>}
      \/ \E tms, tdi \in Bit : tosrv = <<Write(0, tms, tdi), Write(1, tms, tdi)>>
  BY DEF Accept, LineInv
<1>3. QED
  BY <1>1, <1>2 DEF LineInv, Sent

\* A client that has read the last reply sends the next bit, with TCK high.
LEMMA SendLine ==
    ASSUME LinkTypes, LineInv, NEW tms \in Bit, NEW tdi \in Bit, SendBit(tms, tdi)
    PROVE  LineInv'
<1>1. ~ended /\ tosrv = <<>> /\ UNCHANGED <<dtm, pins, client_fd, ended>>
  BY DEF SendBit, Send
<1>2. tosrv' \in Sent(tms, tdi)
  BY DEF SendBit, Send, Sent
<1>3. CASE client_fd
  <2>1. pins.tck = 1
    BY <1>1, <1>3, Lines DEF LineInv, Sent
  <2>2. QED
    BY <1>1, <1>2, <1>3, <2>1 DEF LineInv
<1>4. CASE ~client_fd
  <2>1. tap_state = "RunTestIdle"
    BY <1>1, <1>4 DEF LineInv
  <2>2. tosrv' = <<Write(0, tms, tdi), Write(1, tms, tdi)>>
    BY <2>1 DEF SendBit, Send
  <2>3. tap_state' = "RunTestIdle"
    BY <1>1, <2>1 DEF dtm, tap
  <2>4. QED
    BY <1>1, <1>4, <2>2, <2>3 DEF LineInv
<1>5. QED
  BY <1>3, <1>4

LEMMA QuitLine ==
    ASSUME LinkTypes, LineInv, SendQuit
    PROVE  LineInv'
<1>1. ~ended /\ tosrv = <<>> /\ tosrv' = <<Quit>> /\ UNCHANGED <<dtm, pins, client_fd, ended>>
  BY DEF SendQuit, Send
<1>2. tap_state' = tap_state
  BY <1>1 DEF dtm, tap
<1>3. client_fd => pins.tck = 1
  BY <1>1, Lines DEF LineInv, Sent
<1>4. QED
  BY <1>1, <1>2, <1>3 DEF LineInv

\* Steps that leave the line, its pins and what the TAP shows alone.
LEMMA OtherLine ==
    ASSUME LineInv, UNCHANGED <<pins, client_fd, tosrv, tap, td_o>>, ended => ended'
    PROVE  LineInv'
BY DEF LineInv, TdoShown, tap

LEMMA LineSteps ==
    ASSUME LinkTypes, LineInv, [Next]_vars
    PROVE  LineInv'
<1>1. CASE Connect \/ Leave
  BY <1>1, OtherLine DEF Connect, Leave, dtm
<1>2. CASE EndOfFile /\ UNCHANGED dtm
  BY <1>2, OtherLine DEF EndOfFile, link, dtm
<1>3. CASE Abort /\ UNCHANGED dtm
  BY <1>3 DEF Abort, LineInv
<1>4. CASE Core(CoreStep)
  BY <1>4, OtherLine DEF Core, CoreStep, DeviceTakes, DeviceAnswers, ReqAcknowledged,
     RespAcknowledged, link
<1>5. CASE Finished \/ UNCHANGED vars
  BY <1>5, OtherLine DEF Finished, vars, dtm, link
<1>6. QED
  BY <1>1, <1>2, <1>3, <1>4, <1>5, ExecuteLine, AcceptLine, SendLine, QuitLine
     DEF Next, Client, Tick

\* The bit that a read returns is the bit that the register captured there.
LEMMA ReplySteps ==
    ASSUME DtmTypes, ScanInv, LineInv, [Next]_vars,
           tocli = <<>>, tocli' # <<>>, tap_state \in {"ShiftDr", "ShiftIr"},
           shifted < Len(captured)
    PROVE  tocli' = <<captured[shifted + 1]>>
<1>1. Execute(td_o)
  BY DEF Next, Client, Connect, SendQuit, SendBit, Send, Leave, Tick, Accept, EndOfFile, Abort,
         Core, Finished, link, vars
<1>2. ~ended /\ client_fd /\ tosrv # <<>> /\ Head(tosrv).name = "read" /\ tocli' = <<td_o>>
  BY <1>1 DEF Execute
<1>3. TdoShown
  <2>1. \A tms, tdi \in Bit : tosrv \notin Sent(tms, tdi)
    BY <1>2, Lines DEF Sent, Write
  <2>2. tosrv # <<Quit>>
    BY <1>2, Lines DEF Quit
  <2>3. \A tms, tdi \in Bit : tosrv # <<Write(1, tms, tdi)>>
    BY <1>2, Lines DEF Write
  <2>4. QED
    BY <1>2, <2>1, <2>2, <2>3 DEF LineInv
<1>4. CASE tap_state = "ShiftDr"
  <2>1. dr \in Register(DrLength) /\ DrLength \in {1, 2, 3} /\ Carries(dr, DrLength)
    BY <1>4 DEF DtmTypes, TapTypes, ScanInv, InDrScan, DrLength
  <2>2. Len(captured) = DrLength /\ shifted \in Nat
    BY <2>1 DEF Carries, Register
  <2>3. dr[1] = captured[1 + shifted] /\ 1 + shifted = shifted + 1
    BY <2>1, <2>2 DEF Carries
  <2>4. Head(dr) = dr[1]
    BY <2>1 DEF Register
  <2>5. QED
    BY <1>2, <1>3, <1>4, <2>3, <2>4 DEF TdoShown
<1>5. CASE tap_state = "ShiftIr"
  <2>1. ir_shift \in Register(2) /\ Carries(ir_shift, 2)
    BY <1>5 DEF DtmTypes, TapTypes, ScanInv, InIrScan
  <2>2. Len(captured) = 2 /\ shifted \in Nat
    BY <2>1 DEF Carries, Register
  <2>3. ir_shift[1] = captured[1 + shifted] /\ 1 + shifted = shifted + 1
    BY <2>1, <2>2 DEF Carries
  <2>4. Head(ir_shift) = ir_shift[1]
    BY <2>1 DEF Register
  <2>5. QED
    BY <1>2, <1>3, <1>5, <2>3, <2>4 DEF TdoShown
<1>6. QED
  BY <1>4, <1>5

LEMMA ScanInit == LinkInit => ScanInv /\ LineInv
BY DEF LinkInit, Init, RbsInit, ScanInv, LineInv, InDrScan, InIrScan

\* Each bit the client reads in a scan is the bit that the register captured:
\* the server samples TDO after the falling edge and before the rising one
\* (remote_bitbang.c:104, p_tdo_regs).
THEOREM RepliesAreCaptured == Spec => ScanIsCapture
<1>1. LinkTypes /\ DtmTypes /\ LinkTypes' /\ DtmTypes' /\ ScanInv /\ LineInv /\ [Next]_vars
         => ScanInv' /\ LineInv'
  BY LinkSteps, ScanSteps, LineSteps
<1>2. DtmTypes /\ ScanInv /\ LineInv /\ [Next]_vars
         => [tocli = <<>> /\ tocli' # <<>>
                /\ tap_state \in {"ShiftDr", "ShiftIr"} /\ shifted < Len(captured)
             => tocli' = <<captured[shifted + 1]>>]_vars
  BY ReplySteps
<1>3. LinkTypes /\ DtmTypes /\ [Next]_vars => LinkTypes' /\ DtmTypes'
  BY TypeSteps
<1>4. QED
  BY <1>1, <1>2, <1>3, TypeInit, ScanInit, PTL DEF Spec, ScanIsCapture
=============================================================================
