-------------------------- MODULE SystemBusProofs --------------------------
(***************************************************************************)
(* Theorems about SystemBus, for any address and data width.               *)
(*                                                                         *)
(* As in DebugModuleProofs, DmiRequest reduces the alternatives of Cycle   *)
(* to one clock edge whose arguments satisfy Requested.                    *)
(***************************************************************************)
EXTENDS SystemBus, TLAPS

\* While the debug module is inactive its registers are reset and no access
\* is under way; a granted transfer is the one the registers describe.
BusInv ==
    /\ TypeOK
    /\ ~dmactive => /\ state = "Idle"
                    /\ sbcs = ResetSbcs /\ sbaddr = 0 /\ sbdata = Zero
    /\ state = "WaitRead" => ~transfer.we /\ transfer.address = sbaddr
    /\ state = "WaitWrite" => /\ transfer.we
                              /\ transfer.address = sbaddr
                              /\ transfer.wdata = sbdata

\* What a DMI request changes and starts, one of four kinds.
Requested(active, cs, addr, data, start) ==
    /\ active \in BOOLEAN
    /\ cs \in sbcs_t
    /\ addr \in Addresses
    /\ data \in Values
    /\ dmactive => active \/ Resets
    /\ start # "Idle" => ~Refused /\ (dmactive \/ Resets \/ sbcs # ResetSbcs)
    /\ addr # sbaddr \/ data # sbdata => ~Refused
    /\ cs.sbautoincrement # sbcs.sbautoincrement => ~sbbusy_i
    /\ \/ /\ data = sbdata /\ cs = sbcs
          /\ start \in {"Idle", "Read"}
       \/ /\ addr = sbaddr /\ cs = sbcs
          /\ start \in {"Idle", "Write"}
       \/ /\ addr = sbaddr /\ data = sbdata
          /\ start = "Idle"

-----------------------------------------------------------------------------
LEMMA ZeroType == Zero \in Values
BY SystemBusAssumption DEF Zero

LEMMA FollowingType ==
    ASSUME NEW a \in Addresses
    PROVE  Following(a) \in Addresses
BY SystemBusAssumption DEF Following, Addresses

\* The writes of sbcs and dmcontrol give registers of the right type.
LEMMA BusyErrorType ==
    ASSUME sbcs \in sbcs_t
    PROVE  LET cs == [sbcs EXCEPT !.sbbusyerror = TRUE]
           IN  cs \in sbcs_t /\ cs.sbautoincrement = sbcs.sbautoincrement
BY DEF sbcs_t

LEMMA DmiRequest ==
    ASSUME TypeOK, NEW gnt \in BOOLEAN, NEW rvalid \in BOOLEAN,
           Cycle(gnt, rvalid)
    PROVE  \E active, cs, addr, data, start, request :
              /\ request \in BOOLEAN
              /\ ~request => start = "Idle" /\ active = dmactive
              /\ Requested(active, cs, addr, data, start)
              /\ Clock(active, cs, addr, data, start, request, gnt, rvalid)
<1> USE DEF TypeOK, Requested
<1>1. CASE NoRequest(gnt, rvalid)
  <2>1. Requested(dmactive, sbcs, sbaddr, sbdata, "Idle")
    OBVIOUS
  <2> QED BY <1>1, <2>1 DEF NoRequest
<1>2. CASE ReadStatus(gnt, rvalid)
  <2>1. Requested(dmactive, sbcs, sbaddr, sbdata, "Idle")
    OBVIOUS
  <2> QED BY <1>2, <2>1 DEF ReadStatus
<1>3. CASE RefuseBusy(gnt, rvalid)
  <2> DEFINE cs == [sbcs EXCEPT !.sbbusyerror = TRUE]
  <2>1. Requested(dmactive, cs, sbaddr, sbdata, "Idle")
    BY BusyErrorType
  <2>2. Clock(dmactive, cs, sbaddr, sbdata, "Idle", TRUE, gnt, rvalid)
    BY <1>3 DEF RefuseBusy
  <2> QED BY <2>1, <2>2
<1>4. CASE WriteSBAddress0(gnt, rvalid)
  <2> DEFINE start == IF sbcs.sbreadonaddr THEN "Read" ELSE "Idle"
  <2>1. PICK a \in Addresses :
           Clock(dmactive, sbcs, a, sbdata, start, TRUE, gnt, rvalid)
    BY <1>4 DEF WriteSBAddress0
  <2>2. Requested(dmactive, sbcs, a, sbdata, start)
    BY <1>4 DEF WriteSBAddress0, ResetSbcs
  <2> QED BY <2>1, <2>2
<1>5. CASE WriteSBAddress1(gnt, rvalid)
  <2>1. PICK a \in Addresses :
           Clock(dmactive, sbcs, a, sbdata, "Idle", TRUE, gnt, rvalid)
    BY <1>5 DEF WriteSBAddress1
  <2>2. Requested(dmactive, sbcs, a, sbdata, "Idle")
    BY <1>5 DEF WriteSBAddress1
  <2> QED BY <2>1, <2>2
<1>6. CASE WriteSBData1(gnt, rvalid)
  <2>1. PICK v \in Values :
           Clock(dmactive, sbcs, sbaddr, v, "Idle", TRUE, gnt, rvalid)
    BY <1>6 DEF WriteSBData1
  <2>2. Requested(dmactive, sbcs, sbaddr, v, "Idle")
    BY <1>6 DEF WriteSBData1
  <2> QED BY <2>1, <2>2
<1>7. CASE ReadSBData0(gnt, rvalid)
  <2> DEFINE start == IF sbcs.sbreadondata THEN "Read" ELSE "Idle"
  <2>1. Clock(dmactive, sbcs, sbaddr, sbdata, start, TRUE, gnt, rvalid)
    BY <1>7 DEF ReadSBData0
  <2>2. Requested(dmactive, sbcs, sbaddr, sbdata, start)
    BY <1>7 DEF ReadSBData0, ResetSbcs
  <2> QED BY <2>1, <2>2
<1>8. CASE WriteSBData0(gnt, rvalid)
  <2>1. PICK v \in Values :
           Clock(dmactive, sbcs, sbaddr, v, "Write", TRUE, gnt, rvalid)
    BY <1>8 DEF WriteSBData0
  <2>2. Requested(dmactive, sbcs, sbaddr, v, "Write")
    BY <1>8 DEF WriteSBData0
  <2> QED BY <2>1, <2>2
<1>9. CASE WriteSBCS(gnt, rvalid)
  <2>1. PICK w \in sbcs_t :
           Clock(dmactive,
                 IF sbbusy_i THEN [sbcs EXCEPT !.sbbusyerror = TRUE]
                 ELSE [w EXCEPT !.sbbusyerror =
                                    sbcs.sbbusyerror /\ ~w.sbbusyerror],
                 sbaddr, sbdata, "Idle", TRUE, gnt, rvalid)
    BY <1>9 DEF WriteSBCS
  <2> DEFINE cs == IF sbbusy_i THEN [sbcs EXCEPT !.sbbusyerror = TRUE]
                   ELSE [w EXCEPT !.sbbusyerror =
                                      sbcs.sbbusyerror /\ ~w.sbbusyerror]
  <2>2. cs \in sbcs_t
    BY DEF sbcs_t
  <2>3. sbbusy_i => cs.sbautoincrement = sbcs.sbautoincrement
    BY BusyErrorType
  <2>4. Requested(dmactive, cs, sbaddr, sbdata, "Idle")
    BY <2>2, <2>3
  <2> QED BY <2>1, <2>4
<1>10. CASE WriteDMControl(gnt, rvalid)
  <2>1. PICK active \in BOOLEAN :
           /\ active \/ Resets
           /\ Clock(active, sbcs, sbaddr, sbdata, "Idle", TRUE, gnt, rvalid)
    BY <1>10 DEF WriteDMControl
  <2>2. Requested(active, sbcs, sbaddr, sbdata, "Idle")
    BY <2>1
  <2> QED BY <2>1, <2>2
<1> QED BY <1>1, <1>2, <1>3, <1>4, <1>5, <1>6, <1>7, <1>8, <1>9, <1>10
        DEF Cycle

-----------------------------------------------------------------------------
(* The invariant *)

\* Types after an edge.
LEMMA ClockType ==
    ASSUME TypeOK, NEW gnt \in BOOLEAN, NEW rvalid \in BOOLEAN,
           NEW active, NEW cs, NEW addr, NEW data, NEW start,
           NEW request \in BOOLEAN,
           Requested(active, cs, addr, data, start),
           Clock(active, cs, addr, data, start, request, gnt, rvalid)
    PROVE  TypeOK'
<1> USE DEF TypeOK, Requested, Clock
<1>1. sbcs' \in sbcs_t
  <2>1. [cs EXCEPT !.sbbusy = sbbusy_i] \in sbcs_t
    BY DEF sbcs_t, sbbusy_i
  <2>2. ResetSbcs \in sbcs_t
    BY DEF sbcs_t, ResetSbcs
  <2> QED BY <2>1, <2>2
<1>2. sbaddr' \in Addresses
  BY FollowingType, SystemBusAssumption DEF sbaddress_o, Addresses
<1>3. sbdata' \in Values
  <2>1. transfer.address \in Addresses
    BY DEF Transfers
  <2> QED BY <2>1, ZeroType DEF Answers
<1>4. state' \in {"Idle", "Read", "Write", "WaitRead", "WaitWrite"}
  BY DEF state_d
<1>5. transfer' \in Transfers
  BY DEF Bus, Transfers
<1>6. mem' \in [Addresses -> Values]
  BY DEF Bus, Transfers
<1>7. dmactive' \in BOOLEAN
  OBVIOUS
<1>8. recent' \in BOOLEAN
  OBVIOUS
<1> QED BY <1>1, <1>2, <1>3, <1>4, <1>5, <1>6, <1>7, <1>8

LEMMA TypeInit == Init => TypeOK
<1> SUFFICES ASSUME Init PROVE TypeOK
  OBVIOUS
<1> USE SystemBusAssumption DEF Init
<1>1. sbcs \in sbcs_t
  BY DEF ResetSbcs, sbcs_t
<1>2. 0 \in Addresses
  BY DEF Addresses
<1>3. transfer \in Transfers
  BY <1>2, ZeroType DEF Transfers
<1>4. sbaddr \in Addresses /\ sbdata \in Values
  BY <1>2, ZeroType
<1>5. dmactive \in BOOLEAN
  OBVIOUS
<1>6. recent \in BOOLEAN
  OBVIOUS
<1> QED BY <1>1, <1>3, <1>4, <1>5, <1>6 DEF TypeOK

LEMMA TypeStep == TypeOK /\ [Next]_vars => TypeOK'
<1> SUFFICES ASSUME TypeOK, [Next]_vars PROVE TypeOK'
  OBVIOUS
<1>1. CASE UNCHANGED vars
  BY <1>1 DEF vars, TypeOK
<1>2. CASE Next
  <2>1. PICK gnt \in BOOLEAN, rvalid \in BOOLEAN : Cycle(gnt, rvalid)
    BY <1>2 DEF Next
  <2> QED BY <2>1, DmiRequest, ClockType
<1> QED BY <1>1, <1>2

\* The registers and the bus keep their types, for any width and any debugger.
THEOREM BusTypes == Spec => []TypeOK
BY TypeInit, TypeStep, PTL DEF Spec

-----------------------------------------------------------------------------
(* An access under way *)

\* While the debug module is active, an edge changes neither the address nor
\* the data of an access that is in progress, unless it brings the answer.
LEMMA RegistersKept ==
    ASSUME TypeOK, sbbusy_i, dmactive, NEW gnt \in BOOLEAN, NEW rvalid \in BOOLEAN,
           NEW active, NEW cs, NEW addr, NEW data, NEW start,
           NEW request \in BOOLEAN,
           Requested(active, cs, addr, data, start),
           Clock(active, cs, addr, data, start, request, gnt, rvalid), ~rvalid
    PROVE  sbaddr' = sbaddr /\ sbdata' = sbdata
<1>1. addr = sbaddr /\ data = sbdata
  BY DEF Requested, Refused
<1> QED BY <1>1 DEF Clock, sbaddress_o

\* While an access is in progress an edge without an answer changes neither
\* the address nor the data, and one with an answer ends the access.
LEMMA ClockBusy ==
    ASSUME BusInv, ~Resets, sbbusy_i, NEW gnt \in BOOLEAN, NEW rvalid \in BOOLEAN,
           NEW active, NEW cs, NEW addr, NEW data, NEW start,
           NEW request \in BOOLEAN,
           Requested(active, cs, addr, data, start),
           Clock(active, cs, addr, data, start, request, gnt, rvalid)
    PROVE  /\ dmactive /\ dmactive'
           /\ sbcs'.sbautoincrement = sbcs.sbautoincrement
           /\ ~rvalid => sbaddr' = sbaddr /\ sbdata' = sbdata
           /\ rvalid => /\ state \in {"WaitRead", "WaitWrite"}
                        /\ state' = "Idle"
                        /\ sbaddr' = IF sbcs.sbautoincrement
                                     THEN Following(sbaddr) ELSE sbaddr
                        /\ sbdata' \in Answers
<1> USE DEF BusInv, TypeOK, Requested, sbbusy_i
<1>1. dmactive /\ dmactive'
  BY DEF Clock
<1>2. addr = sbaddr /\ data = sbdata
  BY DEF Refused
<1>3. sbcs' = [cs EXCEPT !.sbbusy = sbbusy_i]
  BY <1>1 DEF Clock
<1>4. sbcs'.sbautoincrement = sbcs.sbautoincrement
  BY <1>3 DEF sbcs_t
<1>5. sbaddr' = sbaddress_o(addr, gnt, rvalid)
      /\ sbdata' \in IF rvalid THEN Answers ELSE {data}
  BY <1>1 DEF Clock
<1>6. rvalid => state \in {"WaitRead", "WaitWrite"} /\ state' = "Idle"
  BY DEF Clock, Bus, state_d
<1> QED BY <1>1, <1>2, <1>4, <1>5, <1>6 DEF sbaddress_o

LEMMA BusStep == BusInv /\ ~Resets /\ [Next]_vars => BusInv'
<1> SUFFICES ASSUME BusInv, ~Resets, [Next]_vars PROVE BusInv'
  OBVIOUS
<1>1. CASE UNCHANGED vars
  BY <1>1 DEF vars, BusInv, TypeOK
<1>2. CASE Next
  <2>1. PICK gnt \in BOOLEAN, rvalid \in BOOLEAN : Cycle(gnt, rvalid)
    BY <1>2 DEF Next
  <2>2. PICK active, cs, addr, data, start, request :
           /\ request \in BOOLEAN
           /\ ~request => start = "Idle" /\ active = dmactive
           /\ Requested(active, cs, addr, data, start)
           /\ Clock(active, cs, addr, data, start, request, gnt, rvalid)
    BY <2>1, DmiRequest DEF BusInv
  <2>3. TypeOK'
    BY <2>2, ClockType DEF BusInv
  <2>4. ASSUME ~dmactive'
        PROVE  state' = "Idle" /\ sbcs' = ResetSbcs /\ sbaddr' = 0
                  /\ sbdata' = Zero
    <3>1. ~dmactive
      BY <2>2, <2>4 DEF Requested, Clock
    <3> QED BY <2>2, <3>1 DEF BusInv, Requested, Clock, state_d
  <2>5. ASSUME state' = "WaitRead"
        PROVE  ~transfer'.we /\ transfer'.address = sbaddr'
    <3>1. sbbusy_i /\ ~rvalid
          /\ state = IF gnt THEN "Read" ELSE "WaitRead"
      BY <2>2, <2>5 DEF Clock, Bus, state_d, Requested, sbbusy_i
    <3>2. sbaddr' = sbaddr
      BY <2>2, <3>1, ClockBusy
    <3> QED BY <2>2, <3>1, <3>2 DEF BusInv, Clock, Bus
  <2>6. ASSUME state' = "WaitWrite"
        PROVE  /\ transfer'.we
               /\ transfer'.address = sbaddr'
               /\ transfer'.wdata = sbdata'
    <3>1. sbbusy_i /\ ~rvalid
          /\ state = IF gnt THEN "Write" ELSE "WaitWrite"
      BY <2>2, <2>6 DEF Clock, Bus, state_d, Requested, sbbusy_i
    <3>2. sbaddr' = sbaddr /\ sbdata' = sbdata
      BY <2>2, <3>1, ClockBusy
    <3> QED BY <2>2, <3>1, <3>2 DEF BusInv, Clock, Bus
  <2> QED BY <2>3, <2>4, <2>5, <2>6 DEF BusInv
<1> QED BY <1>1, <1>2

LEMMA BusInit == Init => BusInv
BY TypeInit DEF BusInv, Init

LEMMA BusInvariant ==
    ASSUME ~Resets
    PROVE  Spec => []BusInv
BY BusInit, BusStep, PTL DEF Spec

-----------------------------------------------------------------------------
(* What the invariant gives *)

LEMMA HoldStep ==
    ASSUME TypeOK, dmactive, [Next]_vars
    PROVE  \A s \in {"Read", "Write"} : state = s => Granted(s) \/ Held(s)
<1>1. CASE UNCHANGED vars
  BY <1>1 DEF vars, Held, Granted
<1>2. CASE Next
  <2>1. PICK gnt \in BOOLEAN, rvalid \in BOOLEAN : Cycle(gnt, rvalid)
    BY <1>2 DEF Next
  <2>2. PICK active, cs, addr, data, start, request :
           /\ request \in BOOLEAN
           /\ ~request => start = "Idle" /\ active = dmactive
           /\ Requested(active, cs, addr, data, start)
           /\ Clock(active, cs, addr, data, start, request, gnt, rvalid)
    BY <2>1, DmiRequest
  <2>3. SUFFICES ASSUME state \in {"Read", "Write"},
                        state' \notin {"WaitRead", "WaitWrite"}
                 PROVE  state' = state /\ sbaddr' = sbaddr /\ sbdata' = sbdata
    BY <2>2 DEF Clock, state_d, Held, Granted
  <2>4. ~rvalid /\ state' = state
    BY <2>2, <2>3 DEF Clock, Bus, state_d
  <2> QED BY <2>2, <2>3, <2>4, RegistersKept DEF sbbusy_i
<1> QED BY <1>1, <1>2

\* Whatever the debugger does: a bus request keeps its kind, address and data
\* until it is granted (dm_sba.sv Read and Write, with the refusals of
\* dm_csrs.sv), except at an edge at which the debug module is inactive.
THEOREM RequestsAreHeldWhileActive == Spec => HeldWhileActive
BY HoldStep, BusTypes, PTL DEF Spec, HeldWhileActive

\* A bus request keeps its kind, address and data until it is granted, as long
\* as the debugger does not deactivate the debug module.
THEOREM RequestsAreHeld ==
    ASSUME ~Resets
    PROVE  Spec => HeldUntilGranted
<1>1. BusInv /\ [Next]_vars =>
         \A s \in {"Read", "Write"} : state = s => Granted(s) \/ Held(s)
  BY HoldStep DEF BusInv
<1>2. BusInv /\ [Next]_vars =>
         [\A s \in {"Read", "Write"} : state = s => Granted(s) \/ Held(s)]_vars
  BY <1>1
<1> QED BY <1>2, BusInvariant, PTL DEF Spec, HeldUntilGranted

LEMMA ErrorStep ==
    ASSUME TypeOK, [Next]_vars, sbcs.sbbusyerror, state = "Idle"
    PROVE  state' = "Idle"
<1>1. CASE UNCHANGED vars
  BY <1>1 DEF vars
<1>2. CASE Next
  <2>1. PICK gnt \in BOOLEAN, rvalid \in BOOLEAN : Cycle(gnt, rvalid)
    BY <1>2 DEF Next
  <2>2. PICK active, cs, addr, data, start, request :
           /\ request \in BOOLEAN
           /\ ~request => start = "Idle" /\ active = dmactive
           /\ Requested(active, cs, addr, data, start)
           /\ Clock(active, cs, addr, data, start, request, gnt, rvalid)
    BY <2>1, DmiRequest
  <2> QED BY <2>2 DEF Requested, Refused, Clock, state_d
<1> QED BY <1>1, <1>2

\* No access starts while sbbusyerror is set (sbcs_q in dm_csrs.sv), whatever
\* the debugger does.
THEOREM ErrorStopsAccesses == Spec => NoAccessAfterError
BY ErrorStep, BusTypes, PTL DEF Spec, NoAccessAfterError

LEMMA ShownStep ==
    ASSUME TypeOK, ~BackToBack, BusyShown, [Next]_vars
    PROVE  BusyShown'
<1>1. CASE UNCHANGED vars
  BY <1>1 DEF vars, BusyShown, MayRequest, sbbusy_i
<1>2. CASE Next
  <2>1. PICK gnt \in BOOLEAN, rvalid \in BOOLEAN : Cycle(gnt, rvalid)
    BY <1>2 DEF Next
  <2>2. PICK active, cs, addr, data, start, request :
           /\ request \in BOOLEAN
           /\ ~request => start = "Idle" /\ active = dmactive
           /\ Requested(active, cs, addr, data, start)
           /\ Clock(active, cs, addr, data, start, request, gnt, rvalid)
    BY <2>1, DmiRequest
  <2>3. SUFFICES ASSUME ~recent', dmactive', sbbusy_i' PROVE sbcs'.sbbusy
    BY DEF BusyShown, MayRequest, sbbusy_i
  <2>4. start = "Idle" /\ dmactive
    BY <2>2, <2>3 DEF Clock
  <2>5. sbbusy_i
    BY <2>2, <2>3, <2>4 DEF Clock, state_d, sbbusy_i
  <2>6. sbcs' = [cs EXCEPT !.sbbusy = sbbusy_i] /\ cs \in sbcs_t
    BY <2>2, <2>4 DEF Clock, Requested
  <2>7. sbcs'.sbbusy = sbbusy_i
    BY <2>6 DEF sbcs_t
  <2> QED BY <2>5, <2>7
<1> QED BY <1>1, <1>2

\* A debugger whose requests are never in consecutive cycles sees sbbusy for
\* as long as dm_sba is busy, although sbcs_q.sbbusy is a register.
THEOREM BusyIsShown ==
    ASSUME ~BackToBack
    PROVE  Spec => []BusyShown
<1>1. Init => BusyShown
  BY DEF Init, BusyShown, sbbusy_i
<1> QED BY <1>1, ShownStep, BusTypes, PTL DEF Spec

-----------------------------------------------------------------------------
(* The debug module implements MemoryWindow. *)

LEMMA WindowInit == Init => MW!Init
BY ZeroType, SystemBusAssumption DEF Init, MW!Init, Addresses

\* An edge is a step of the window or changes nothing of it.
LEMMA WindowStep ==
    ASSUME BusInv, ~Resets, Next
    PROVE  MW!Next \/ UNCHANGED MW!vars
<1>1. PICK gnt \in BOOLEAN, rvalid \in BOOLEAN : Cycle(gnt, rvalid)
  BY DEF Next
<1>2. PICK active, cs, addr, data, start, request :
         /\ request \in BOOLEAN
         /\ ~request => start = "Idle" /\ active = dmactive
         /\ Requested(active, cs, addr, data, start)
         /\ Clock(active, cs, addr, data, start, request, gnt, rvalid)
  BY <1>1, DmiRequest DEF BusInv
<1>3. BusInv'
  BY BusStep
<1>4. CASE ~dmactive
  <2>1. /\ state = "Idle" /\ state' = "Idle"
        /\ sbcs = ResetSbcs /\ sbcs' = ResetSbcs
        /\ sbaddr' = sbaddr /\ sbdata' = sbdata
        /\ mem' = mem
    BY <1>2, <1>4 DEF BusInv, Requested, Clock, state_d, Bus
  <2> QED BY <2>1 DEF MW!vars
<1>5. CASE dmactive /\ state = "Idle"
  <2>1. /\ state' = start /\ mem' = mem
        /\ sbaddr' = addr /\ sbdata' = data
        /\ sbcs'.sbautoincrement = cs.sbautoincrement
    BY <1>2, <1>5 DEF BusInv, Requested, Clock, state_d, Bus, sbaddress_o,
                      sbcs_t
  <2>2. cs.sbautoincrement \in BOOLEAN
    BY <1>2 DEF Requested, sbcs_t
  <2>3. CASE data = sbdata /\ cs = sbcs /\ start \in {"Idle", "Read"}
    BY <1>2, <1>5, <2>1, <2>3 DEF MW!Next, MW!SetAddress, Requested
  <2>4. CASE addr = sbaddr /\ cs = sbcs /\ start \in {"Idle", "Write"}
    BY <1>2, <1>5, <2>1, <2>4 DEF MW!Next, MW!SetData, Requested
  <2>5. CASE addr = sbaddr /\ data = sbdata /\ start = "Idle"
    BY <1>2, <1>5, <2>1, <2>2, <2>5 DEF MW!Next, MW!SetMode
  <2> QED BY <1>2, <2>3, <2>4, <2>5 DEF Requested
<1>6. CASE sbbusy_i /\ ~rvalid
  <2>1. /\ sbaddr' = sbaddr /\ sbdata' = sbdata /\ mem' = mem
        /\ sbcs'.sbautoincrement = sbcs.sbautoincrement
    BY <1>2, <1>6, ClockBusy DEF Clock, Bus
  <2>2. \/ state \in {"Read", "WaitRead"} /\ state' \in {"Read", "WaitRead"}
        \/ state \in {"Write", "WaitWrite"}
             /\ state' \in {"Write", "WaitWrite"}
    BY <1>2, <1>6 DEF BusInv, TypeOK, Clock, state_d, sbbusy_i
  <2> QED BY <2>1, <2>2 DEF MW!vars
<1>7. CASE sbbusy_i /\ rvalid
  <2>1. /\ state \in {"WaitRead", "WaitWrite"} /\ state' = "Idle"
        /\ sbaddr' = IF sbcs.sbautoincrement
                     THEN Following(sbaddr) ELSE sbaddr
        /\ sbdata' \in Answers
        /\ sbcs'.sbautoincrement = sbcs.sbautoincrement
    BY <1>2, <1>7, ClockBusy
  <2>2. mem' = IF transfer.we
               THEN [mem EXCEPT ![transfer.address] = transfer.wdata]
               ELSE mem
    BY <1>2, <1>7 DEF Clock, Bus
  <2>3. CASE state = "WaitRead"
    BY <2>1, <2>2, <2>3 DEF BusInv, Answers, MW!Next, MW!Load, MW!Moved
  <2>4. CASE state = "WaitWrite"
    BY <2>1, <2>2, <2>4 DEF BusInv, Answers, MW!Next, MW!Store, MW!Moved
  <2> QED BY <2>1, <2>3, <2>4
<1> QED BY <1>4, <1>5, <1>6, <1>7 DEF sbbusy_i

\* System bus access behaves as a window on the memory: each access the debug
\* module accepts is made once, with the address and the data it was given.
THEOREM BusImplementsWindow ==
    ASSUME ~Resets
    PROVE  Spec => ImplementsMemoryWindow
<1>1. BusInv /\ [Next]_vars => [MW!Next]_MW!vars
  <2> SUFFICES ASSUME BusInv, [Next]_vars PROVE [MW!Next]_MW!vars
    OBVIOUS
  <2>1. CASE Next
    BY <2>1, WindowStep
  <2>2. CASE UNCHANGED vars
    BY <2>2 DEF vars, MW!vars
  <2> QED BY <2>1, <2>2
<1> QED BY <1>1, WindowInit, BusInvariant, PTL
        DEF Spec, MW!Spec, ImplementsMemoryWindow

=============================================================================
