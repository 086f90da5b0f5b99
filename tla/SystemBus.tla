----------------------------- MODULE SystemBus -----------------------------
(***************************************************************************)
(* System bus access: the state machine of src/dm_sba.sv and the registers *)
(* sbcs, sbaddress and sbdata of src/dm_csrs.sv.  One step is one rising   *)
(* clock edge; gnt and rvalid are what the bus gives in this cycle.        *)
(*                                                                         *)
(* An address counts accesses of the one size there is (sbaccess is fixed  *)
(* by csr_read_write) and wraps as the register does.  sberror is left     *)
(* out: dm_sba raises it for sizes above 8 bytes only.                     *)
(***************************************************************************)
EXTENDS Naturals

CONSTANTS
    NrAddresses,  \* addresses 0 .. NrAddresses-1
    Values,       \* words
    BackToBack,   \* DMI requests may come in consecutive cycles
    Resets        \* the debugger writes dmactive = 0, in any state

ASSUME SystemBusAssumption ==
    /\ NrAddresses \in Nat \ {0}
    /\ Values # {}
    /\ {BackToBack, Resets} \subseteq BOOLEAN

VARIABLES
    dmactive,  \* dmcontrol_q.dmactive
    sbcs,      \* sbcs_q, the fields that vary
    sbaddr,    \* sbaddr_q
    sbdata,    \* sbdata_q
    state,     \* dm_sba: state_q
    transfer,  \* the bus: the transfer it has granted
    mem,       \* the bus: the memory behind it
    recent     \* the DTM made a request in the cycle before

vars == <<dmactive, sbcs, sbaddr, sbdata, state, transfer, mem, recent>>

Addresses == 0 .. NrAddresses - 1
Transfers == [we : BOOLEAN, address : Addresses, wdata : Values]

sbcs_t == [sbbusyerror : BOOLEAN, sbbusy : BOOLEAN, sbreadonaddr : BOOLEAN,
           sbreadondata : BOOLEAN, sbautoincrement : BOOLEAN]

ResetSbcs == [sbbusyerror |-> FALSE, sbbusy |-> FALSE, sbreadonaddr |-> FALSE,
              sbreadondata |-> FALSE, sbautoincrement |-> FALSE]

\* The word that stands for all bits 0.
Zero == CHOOSE v \in Values : TRUE

Following_NoWrap(a) == a + 1  \* mutant: the address grows beyond its width
Following(a) == IF a = NrAddresses - 1 THEN 0 ELSE a + 1

sbbusy_i_Request == state \in {"Read", "Write"}  \* mutant: not while waiting
sbbusy_i == state # "Idle"

\* sbaddress and sbdata cannot be accessed during an access, nor after a
\* busy error until it is cleared.  Mutants: one half of the condition.
Refused_ErrorOnly == sbcs.sbbusyerror
Refused_BusyOnly  == sbbusy_i
Refused == sbbusy_i \/ sbcs.sbbusyerror

-----------------------------------------------------------------------------
(* dm_sba.  start is the access the registers ask for in this cycle.       *)

\* Mutant: a write waits for read data.
state_d_NoWriteResponse(start, gnt, rvalid) ==
    CASE state = "Idle"                -> start
      [] state = "Read" /\ gnt         -> "WaitRead"
      [] state = "Write" /\ gnt        -> "WaitWrite"
      [] state = "WaitRead" /\ rvalid  -> "Idle"
      [] OTHER                         -> state

state_d(start, gnt, rvalid) ==
    CASE state = "Idle"                -> start
      [] state = "Read" /\ gnt         -> "WaitRead"
      [] state = "Write" /\ gnt        -> "WaitWrite"
      [] state = "WaitRead" /\ rvalid  -> "Idle"
      [] state = "WaitWrite" /\ rvalid -> "Idle"
      [] OTHER                         -> state

\* Mutant: the address moves on when the bus grants the transfer.
sbaddress_o_AtGrant(addr, gnt, rvalid) ==
    IF gnt /\ sbcs.sbautoincrement THEN Following(sbaddr) ELSE addr

sbaddress_o(addr, gnt, rvalid) ==
    IF rvalid /\ sbcs.sbautoincrement THEN Following(sbaddr) ELSE addr

\* The bus grants a request, keeps it, and answers a granted transfer once,
\* reads with the word and writes with any.
Bus(gnt, rvalid) ==
    /\ gnt => state \in {"Read", "Write"}
    /\ rvalid => state \in {"WaitRead", "WaitWrite"}
    /\ transfer' = IF gnt
                   THEN [we |-> state = "Write", address |-> sbaddr,
                         wdata |-> sbdata]
                   ELSE transfer
    /\ mem' = IF rvalid /\ transfer.we
              THEN [mem EXCEPT ![transfer.address] = transfer.wdata]
              ELSE mem

Answers == IF transfer.we THEN Values ELSE {mem[transfer.address]}

-----------------------------------------------------------------------------
(* The clock edge: csr_read_write gives active, cs, addr and data to the   *)
(* registers and start to dm_sba.                                          *)

Clock(active, cs, addr, data, start, request, gnt, rvalid) ==
    /\ dmactive' = active
    /\ IF dmactive
       THEN /\ sbcs' = [cs EXCEPT !.sbbusy = sbbusy_i]
            /\ sbaddr' = sbaddress_o(addr, gnt, rvalid)
            /\ sbdata' \in IF rvalid THEN Answers ELSE {data}
       ELSE sbcs' = ResetSbcs /\ sbaddr' = 0 /\ sbdata' = Zero
    /\ state' = state_d(start, gnt, rvalid)
    /\ recent' = request
    /\ Bus(gnt, rvalid)

MayRequest == BackToBack \/ ~recent

NoRequest(gnt, rvalid) ==
    Clock(dmactive, sbcs, sbaddr, sbdata, "Idle", FALSE, gnt, rvalid)

\* A read of sbcs or of a register of another component.
ReadStatus(gnt, rvalid) ==
    /\ MayRequest
    /\ Clock(dmactive, sbcs, sbaddr, sbdata, "Idle", TRUE, gnt, rvalid)

\* Any access to sbaddress (writes) or sbdata that comes too early.
RefuseBusy(gnt, rvalid) ==
    /\ MayRequest /\ Refused
    /\ Clock(dmactive, [sbcs EXCEPT !.sbbusyerror = TRUE], sbaddr, sbdata,
             "Idle", TRUE, gnt, rvalid)

WriteSBAddress0(gnt, rvalid) ==
    /\ MayRequest /\ ~Refused
    /\ \E a \in Addresses :
          Clock(dmactive, sbcs, a, sbdata,
                IF sbcs.sbreadonaddr THEN "Read" ELSE "Idle",
                TRUE, gnt, rvalid)

\* The upper halves start nothing.
WriteSBAddress1(gnt, rvalid) ==
    /\ MayRequest /\ ~Refused
    /\ \E a \in Addresses :
          Clock(dmactive, sbcs, a, sbdata, "Idle", TRUE, gnt, rvalid)

WriteSBData1(gnt, rvalid) ==
    /\ MayRequest /\ ~Refused
    /\ \E v \in Values :
          Clock(dmactive, sbcs, sbaddr, v, "Idle", TRUE, gnt, rvalid)

ReadSBData0(gnt, rvalid) ==
    /\ MayRequest /\ ~Refused
    /\ Clock(dmactive, sbcs, sbaddr, sbdata,
             IF sbcs.sbreadondata THEN "Read" ELSE "Idle", TRUE, gnt, rvalid)

WriteSBData0(gnt, rvalid) ==
    /\ MayRequest /\ ~Refused
    /\ dmactive \/ Resets  \* otherwise the debugger activates the module first
    /\ \E v \in Values :
          Clock(dmactive, sbcs, sbaddr, v, "Write", TRUE, gnt, rvalid)

\* sbbusyerror is write-1-to-clear; a write during an access is an error.
WriteSBCS(gnt, rvalid) ==
    /\ MayRequest
    /\ \E w \in sbcs_t :
          Clock(dmactive,
                IF sbbusy_i THEN [sbcs EXCEPT !.sbbusyerror = TRUE]
                ELSE [w EXCEPT !.sbbusyerror =
                                   sbcs.sbbusyerror /\ ~w.sbbusyerror],
                sbaddr, sbdata, "Idle", TRUE, gnt, rvalid)

WriteDMControl(gnt, rvalid) ==
    /\ MayRequest
    /\ \E active \in BOOLEAN :
          /\ active \/ Resets
          /\ Clock(active, sbcs, sbaddr, sbdata, "Idle", TRUE, gnt, rvalid)

-----------------------------------------------------------------------------
Init ==
    /\ dmactive = FALSE
    /\ sbcs = ResetSbcs
    /\ sbaddr = 0
    /\ sbdata = Zero
    /\ state = "Idle"
    /\ transfer = [we |-> FALSE, address |-> 0, wdata |-> Zero]
    /\ mem \in [Addresses -> Values]
    /\ recent = FALSE

Cycle(gnt, rvalid) ==
    \/ NoRequest(gnt, rvalid)
    \/ ReadStatus(gnt, rvalid)
    \/ RefuseBusy(gnt, rvalid)
    \/ WriteSBAddress0(gnt, rvalid)
    \/ WriteSBAddress1(gnt, rvalid)
    \/ WriteSBData1(gnt, rvalid)
    \/ ReadSBData0(gnt, rvalid)
    \/ WriteSBData0(gnt, rvalid)
    \/ WriteSBCS(gnt, rvalid)
    \/ WriteDMControl(gnt, rvalid)

Next == \E gnt, rvalid \in BOOLEAN : Cycle(gnt, rvalid)

Spec == Init /\ [][Next]_vars

\* The clock runs, the bus grants a request that is held and answers it.
FairSpec == /\ Spec
            /\ WF_vars(Next)
            /\ WF_vars(Cycle(TRUE, FALSE))
            /\ WF_vars(Cycle(FALSE, TRUE))

-----------------------------------------------------------------------------
(* Properties *)

\* Type correctness of the registers and the bus.
TypeOK ==
    /\ dmactive \in BOOLEAN
    /\ sbcs \in sbcs_t
    /\ sbaddr \in Addresses
    /\ sbdata \in Values
    /\ state \in {"Idle", "Read", "Write", "WaitRead", "WaitWrite"}
    /\ transfer \in Transfers
    /\ mem \in [Addresses -> Values]
    /\ recent \in BOOLEAN

\* What may become of a request in one step.
Granted(s) == state' = IF s = "Read" THEN "WaitRead" ELSE "WaitWrite"

Held(s) == /\ state' = s
           /\ sbaddr' = sbaddr
           /\ s = "Write" => sbdata' = sbdata

\* debug-system.md:244-249: "must stay high until gnt is high for one cycle",
\* "Host outputs may change in the next cycle": a request the bus has not
\* granted keeps its kind, address and data.
HeldUntilGranted ==
    [][\A s \in {"Read", "Write"} : state = s => Granted(s) \/ Held(s)]_vars

\* What is left of it when the debugger writes dmactive = 0 at any time: only
\* an edge at which the debug module is inactive changes the request.
HeldWhileActive ==
    [][dmactive => \A s \in {"Read", "Write"} : state = s => Granted(s) \/ Held(s)]_vars

\* After a busy error no access starts until the debugger has cleared it: the
\* accesses of a stream are made up to the first that was refused, and none
\* behind it (sbbusyerror in csr_read_write).
NoAccessAfterError ==
    [][sbcs.sbbusyerror /\ state = "Idle" => state' = "Idle"]_vars

\* A debugger that reads sbcs never sees the bus idle while an access is in
\* progress: sbcs_q.sbbusy is a cycle late, but so is the next request.
BusyShown == MayRequest /\ dmactive /\ state # "Idle" => sbcs.sbbusy

\* The window on the memory the debugger works with.
MW == INSTANCE MemoryWindow
          WITH address <- sbaddr,
               data <- sbdata,
               autoincrement <- sbcs.sbautoincrement,
               pending <- CASE state \in {"Read", "WaitRead"}   -> "read"
                            [] state \in {"Write", "WaitWrite"} -> "write"
                            [] OTHER                            -> "none"

\* Every access the debug module accepts is made once, with the address and
\* data the debugger gave it, and moves the address once.
ImplementsMemoryWindow == MW!Spec

\* Every access ends, and sbcs shows it.
BusyEnds == sbcs.sbbusy ~> ~sbcs.sbbusy

=============================================================================
