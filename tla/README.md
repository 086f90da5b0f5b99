# RISC-V debug module over JTAG and UART: specification

TLA+ models of the debug system in `src/`, the TLC runs that check them and
the TLAPS proofs about them. Paths below are relative to the repository, and
`dm_csrs.sv` means `src/dm_csrs.sv`, `dmi_uart.sv` means
`src/uart/dmi_uart.sv`, and so on.

## 1. The system

A debugger on a host controls RISC-V harts through a *debug module* (DM). It
reaches the DM through one of two *debug transport modules* (DTM), over JTAG
or over a UART. Both turn what arrives on their wire into requests on the
*debug module interface* (DMI), a valid/ready pair of channels.

    host -- UART -- uart (PHY, FIFOs, escapes) -- dmi_uart_tap -- dmi_uart --+
                                                                             +-- DMI -- dm_csrs -- dm_mem -- harts
    host -- JTAG -- dmi_jtag_tap -- dmi_jtag -- dmi_cdc ---------------------+             |      (debug ROM)
                                                                                          dm_sba -- system bus

Everything is synchronous logic. Concurrency comes from the parties around
it: the debugger, each hart executing the debug ROM against the slave port of
`dm_mem`, the system bus, and the bytes of the UART.

| Component | State | Operations | What makes it correct |
|---|---|---|---|
| DM registers, `dm_csrs.sv` | `dmcontrol_q`, `cmderr_q`, `command_q`, `cmd_valid_q`, `abstractauto_q`, `progbuf_q`, `data_q`, `sbcs_q`, `sbaddr_q`, `sbdata_q`, `havereset_q`, response FIFO | one DMI read or write per cycle; errors and data from `dm_mem`; reset by `dmactive` | every request answered; a command's inputs stable while it runs; errors kept; a halt or resume request kept until served |
| Hart control, `dm_mem.sv` | `state_q`, `halted_q`, `resuming_q` | hart writes HALTED, GOING, RESUMING, EXCEPTION, Data; hart reads flags, whereto, the command | one command executed once by the selected hart; `busy` covers all of it; status bits tell the truth |
| Debug ROM, `debug_rom/debug_rom.S` | position of each hart | park loop, going, exception, resume | a parked hart polls for ever, takes exactly the work meant for it |
| System bus access, `dm_sba.sv` | `state_q` | read, write, autoincrement | one bus transfer per access, at the right address |
| JTAG DTM, `dmi_jtag.sv`, `dmi_jtag_tap.sv`, `dmi_cdc.sv` | TAP state, `state_q`, `error_q`, `address_q`, `data_q` | capture, shift, update; request and response | a request made once; an early scan is a sticky error |
| UART PHY, `uart/interface/` | FIFO, escape flags, receiver and transmitter shift state | receive, transmit, pause, resume | no byte lost or doubled, commands told apart from data |
| UART TAP, `dmi_uart_tap.sv`, `COMMAND_DECODER.sv`, `RX_DESERIALIZER.sv`, `TX_SERIALIZER.sv`, interconnects | current command and address, (de)serialiser counters | decode a command, assemble a word, answer a read | every word reaches its target once, answers belong to the question |
| DMI over UART, `dmi_uart.sv` | `do_request`, `do_read`, `do_end`, `request`, `dmi_resp` | issue a request, take the response, answer the TAP | each word one transaction, in order; a read returns the last response |
| Simulation driver, `remote_bitbang.c`, `sim_jtag.c`, `SimJTAG.sv` | pins, socket, `quit` | accept a client, execute one command a call | every edge reaches the TAP, a reply is the bit it was asked for |
| OBI slave, `dm_obi_top.sv`; tops | one response | wiring | - |

How they interact, and what is hard:

- *Debugger and hart.* The debugger's requests and the hart's writes meet in
  the same registers with fixed precedence: a hart error overrides a clear of
  `cmderr`, a resume request overrides the start of a command. `hartsel`
  decides which hart `dm_mem` listens to, and the debugger can change it.
- *Registers in two modules.* `cmd_valid_q` is set one cycle before `cmdbusy`
  rises; `clear_resumeack` acts on the hart selected before the write.
- *Resets.* `ndmreset` resets the harts and `dmactive = 0` resets `dm_csrs`,
  but neither resets `dm_mem`, whose registers then describe a past.
- *Handshakes with registered outputs.* `dmi_uart.sv` samples ready a cycle
  before its valid is visible; `dmi_uart_tap.sv` raises valid a cycle before
  its data are; each arbiter acknowledges a command a cycle late.
- *Two clocks.* The TAP runs on TCK, which a client drives and may stop; the
  debug module runs on. A request and its answer cross in between.
- *One wire, two meanings.* The UART carries commands and data apart by an
  escape byte, in both directions, and pauses the sender with the same byte.

`PROJECT.json` lists every such place, with the properties that cover it.

## 2. Modules

### DebugModule (with MCDebugModule)

`dm_csrs.sv`, `dm_mem.sv` and all harts in `debug_rom.S`, composed. One step
is one rising clock edge: `Cycle(h, op)` pairs one thing the DMI does (an
action per register group, `Dmi`) with one thing hart `h` does (`RomStep`).
At most one hart accesses `dm_mem` in a cycle, as its slave port allows; a
cycle without a step of a hart is `op = "stall"`.

| Model | Code |
|---|---|
| `dmcontrol`, `cmderr`, `command`, `cmd_valid`, `abstractauto`, `data`, `havereset` | the `_q` registers of `dm_csrs.sv` |
| `resp_queue` | fill level of `i_fifo` in `dm_csrs.sv` |
| `state`, `halted`, `resuming` | `state_q`, `halted_q`, `resuming_q` of `dm_mem.sv` |
| `pc` | the bus access of `debug_rom.S` each hart makes next |
| `owed` | history: harts that were told to resume, were halted then, and have not yet written RESUMING |
| `cmdbusy`, `flag_go`, `cmderror_valid`, `state_d`, `halted_d`, ... | the `always_comb` nets of the same name |
| `Clock` | `p_regs` of both modules and what `csr_read_write` assigns whatever the request is |

Abstractions. `cmderr` is the set of its bits, so a write of ones is set
difference. A command is one of three kinds that `p_abstract_cmd_rom` tells
apart. One Data register and one autoexec bit per register group stand for
all. The program of a command may store to Data any number of times and ends
by `ebreak` or a trap; it always ends, an assumption on the debugger's
program buffer. A refused access (`RefuseBusy`) is one action for all the
registers that refuse. Program buffer contents do not influence anything the
properties see. `progbuf_q`, the sb registers, haltsum and hartinfo are left
out. All `NrHarts` harts are selectable and the debugger selects existing
harts only.

The environment is a debugger. `Discipline` makes it obey `Disciplined`, which
is what the debug specification asks (no change of `hartsel`, `haltreq` or
`resumereq` while a command is in progress; a resume request only for a halted
hart and without `haltreq`). `MaxOutstanding` is 1 for the two DTMs of the
repository, which wait for each response, and 2 for what the FIFO allows.

### AbstractCommand

What the command interface promises, without registers: a command is accepted,
then rejected with an error or executed once to its end; a fault is reported
before the end; errors go away only between commands. `DebugModule` implements
it under the mapping `phase`, `error` (`ImplementsAbstractCommand`), and
`CommandTerminates` is its liveness.

### DmiUart

The end of the UART path: `WRITE_ARBITER` of `dmi_uart_tap.sv` from the moment
a word is complete, `RX_DESERIALIZER.sv` reduced to its `DONE_O` and reset,
`DMI_WRITE` and `TAP_READ` of `dmi_uart.sv`, and the DMI side of `dm_csrs.sv`.
One step is one clock edge. A word is a record of an operation and a serial
number, so that loss, duplication and reordering show. `served` is what the
device took, `sent` what was deserialised with an operation.

The UART is slow: between two bytes the handover has long ended (`Quiet`; a
byte lasts ten bit times, the handover six clock cycles). `Burst` lets the host
send several words after one CMD_WRITE; `Prompt` says that the device answers
at the edge that takes the request, as `dm_csrs.sv` does. `DmiUart` implements
`DmiPort`, described below.

### SystemBus and MemoryWindow

`SystemBus` is the state machine of `dm_sba.sv` (`state`) with `sbcs_q`,
`sbaddr_q` and `sbdata_q` of `dm_csrs.sv`. One step is one clock edge, with one
DMI request or none and with the bus's `gnt` and `rvalid`. `transfer` and `mem`
are the bus: the transfer it has granted and the memory behind it. An address
counts accesses of the one size that `csr_read_write` fixes, and wraps as the
register does. `sberror` is left out, because only other sizes raise it, and
so are byte enables. `NoRequest` to `WriteDMControl` are the registers'
accesses; `RefuseBusy` stands for all that are refused.

Constants: with `BackToBack` the DMI brings a request in every cycle, which
neither DTM of the repository does; with `Resets` the debugger writes
`dmactive = 0` at any time, and writes `sbdata0` while the module is inactive.
`HeldWhileActive` is what is left of `HeldUntilGranted` with `Resets`.

`MemoryWindow` is the abstract specification: a window of one word on the
memory, at an address that moves when asked to. The mapping takes `pending`
from `state`; an access happens when the bus answers.

### RxPath

`fifo.sv` behind the UART receiver and `rx_escape.sv`. One step is one clock
edge: `Receive` if a byte has come in, `Wait` otherwise, and in both the TAP
reads or does not (`READ_I`). `Fifo` is the FSM of `fifo.sv` with both flags
(`full_next`, `empty_next`), `Escape` that of `rx_escape.sv`. `received` and
`delivered` are histories of what the FIFO accepted and what the TAP has read,
`taken` counts what `RX_Escape` has read. A byte that meets a full FIFO is
dropped, as in the code. Bytes may come at every edge, more often than a UART
can bring them. Not in the module is `HALF_FULL_O`, which asks the sender to
pause; section 3 says what becomes of it.

### JtagDtm, RemoteBitbang and JtagLink

`JtagDtm` is the transport: the TAP controller and its registers, the state
machine of `dmi_jtag.sv`, the two handshakes of `dmi_cdc.sv`, and the debug
module as what takes a request and answers it. `RemoteBitbang` is the C program
that drives the pins in a simulation. `JtagLink` composes them with a client.

| Model | Code |
|---|---|
| `tap_state`, `ir_shift`, `ir`, `td_o` | `tap_state_q`, `jtag_ir_shift_q`, `jtag_ir_q`, `td_o` of `dmi_jtag_tap.sv` |
| `dr` | the register that `ir` selects: `dr_q` of `dmi_jtag.sv`, `dtmcs_q`, `idcode_q`, `bypass_q` |
| `state`, `data`, `error` | `state_q`, `data_q`, `error_q` of `dmi_jtag.sv` |
| `req_cdc`, `request`, `resp_cdc`, `response` | the two `cdc_2phase` of `dmi_cdc.sv` |
| `device` | the debug module: has a request, or has not |
| `pins`, `client_fd`, `ended` | `jtag_TCK` ..., `client_fd`, and `quit` or `abort` of `remote_bitbang.c` |
| `tosrv`, `tocli`, `peer` | the socket and the client's end of it |
| `captured`, `shifted`, `lost`, `ones` | histories, for the properties |
| `Rise`, `Fall` | `always_ff` of both modules at the edges of TCK |
| `Accept`, `Execute`, `EndOfFile`, `Abort` | `rbs_accept`, `rbs_execute_command`, its return on end of file, its `abort` |

A step is a step of the client, a call of `jtag_tick` with the edge of TCK it
makes (`Tick`), or one of the debug module's clock (`Core`). `Execute` hands
the edge to the TAP: `Edge` compares the pins before and after.

Abstractions. One data bit and the two bits of the operation stand for the word
of the DMI register; the address and more data bits are treated as that bit is.
DTMCS has the two fields that matter, IDCODE and BYPASS are one bit, and an
instruction has the two bits that tell its registers apart. A register's value
is kept from its capture to its update. A crossing is full, empty or waits for
its acknowledge, which is what the synchronisers of the external cell amount to
at any ratio of the clocks. Letters that only print are one command (`Blink`).
A read that would block the call is not enabled, and with it the simulation
stands still, as it does in the code.

The client takes any path through the TAP, may pause a scan or give it up, and
leaves in a state of `LeaveStates`, by `'Q'` or by closing its end. It shifts no
more bits than the register has, loads DTMCS or the DMI register, and reads each
reply before it goes on.

### DmiPort

What a transport promises the DMI, without clocks: an accepted operation is
taken by the debug module once, with its data, and answered before the next is
accepted; the port's word is the answer of the last read or what was written
since. `JtagLink` implements it under the mapping `port_phase`, `port_op` and
`port_word` (`ImplementsDmiPort`), and so does `DmiUart`, where the port's word
is `dmi_resp` after a read and the request's data otherwise, and the phase is
`torn` while a request meets one that is not yet answered. In `JtagLink` a state
in which a crossing is in use while `dmi_jtag` believes it free maps to the phase `torn`, which the port does not
have.

### TxPath and UartTap (with MCUartTap)

`UartTap` is all of `dmi_uart_tap.sv` behind `RX_Escape`: the command decoder,
both arbiters, the deserialiser, the serialiser and the interconnects, with the
DMI end of `dmi_uart.sv`. It extends `TxPath`, which is `tx_escape.sv` and
`uart_tx.sv` and what the host decodes. One step is one clock edge of all of
them, and at any edge an item may have arrived or the frame on the line ended.

| Model | Code |
|---|---|
| `send_esc` ... `esc_detected` | the registers of `tx_escape.sv` |
| `sending`, `frame`, `pausing`, `last_esc` | `state`, the byte of the shift register, `pausing`, `last_esc` of `uart_tx.sv` |
| `decoder` | `state`, `cmd`, `addr` of `COMMAND_DECODER.sv` |
| `warb`, `rarb` | what `WRITE_ARBITER` and `READ_ARBITER` assign |
| `deser`, `ser` | run and reset as the arbiters drive them, and the registers of the two modules |
| `latch`, `valid_address` | `TAP_READ_INTERCONNECT` |
| `dmi` | the ready, the operation and the response of `dmi_uart.sv` |
| `rx`, `data_rec` | what `RX_Escape` offers, and `DATA_REC_O`, which stays |
| `sent`, `asked`, `reading`, `rest` | the host |
| `taken`, `held` | histories: the DMI has taken the word; the decoder's command had to wait for a serialisation |

Where an arbiter assigns a register several times in an edge, the next-state
operator (`read_command_d`, `ser_run_d`, ...) says which assignment stands.
Lengths count bytes, a word is two bytes, the IDCODE register one. Bytes are
model values, among them the escape byte, the null byte and the address bytes of
a reply. The STB targets and the DTMCS register are left out: `dtm_uart.sv`
leads the STB targets to its ports (`:210-253`), and `UART_DTM_TOP.sv` connects
those to nothing. So are CMD_NOP and the commands that are none, which the
decoder drops as it hands over (`COMMAND_DECODER.sv:161`). `DmiUart` has the
handshake with the debug module that `DmiEnd` sums up: an operation ends three
edges after it began or later.

Three assumptions stand for time. A UART frame lasts at least eighty cycles. So
an item arrives when what takes some cycles has been dealt with for the item
before (`Settled`), a frame ends when the handshake that began it is over
(`MayEnd`), and when the serialiser has offered the next byte or come to rest
(`Steady`). One thing takes longer: a command for READ_ARBITER waits in
`st_handover` while the serialiser is busy (`dmi_uart_tap.sv:275-288`), for
several frames. `held` marks such a command until the decoder is idle again, and
`Settled` lets the next item arrive at any edge of that time: while it waits,
while it is handed over and while its ready falls.

The rest is the host's. It waits for the end of an operation before it writes or
reads again, and reads one register at a time; it may read, and it may reset the
TAP, between two bytes of a word. While a command waits, the only next item of
such a host is CMD_RESET, as it has asked for a reply that has not come; what
it sends after that queues in the FIFO behind it (`RxPath`). It does not send
that reset while CMD_WRITE is still the write command, nor one in the middle of a
stream of replies. `ResetsEarly` lets it do both, and section 3 says what comes of
them; `MayPause` lets the receive FIFO become half full.

### Proof modules

`DebugModuleProofs`, `SystemBusProofs`, `RxPathProofs`, `DmiUartProofs`,
`UartTapProofs` and `JtagLinkProofs` extend the modules they are named for;
`DebugModuleCommandProofs` extends `DebugModuleProofs`, and `UartTapReadProofs`
extends `UartTapProofs`. See section 5.

## 3. Runs

| Run | Bounds | Shows |
|---|---|---|
| `dm_commands` | 2 harts, all commands, 2 data values, both autoexec bits, disciplined debugger | `TypeOK`, `ExecutionTracked`, `HaltedIsParked`, `ResumeAckFresh`, `ResumeNotDropped`, `CommandInputsStable`, `ImplementsAbstractCommand` |
| `dm_progress` | 2 harts, one kind of command | `CommandTerminates`, `HaltServed`, `ResumeServed` under fairness |
| `dm_recovery` | 1 hart, undisciplined debugger, 2 outstanding requests, `ndmreset` and `dmactive` | `Recovers`, `HaltStatusRecovers` under fairness |
| `dm_select_and_resume` | 2 harts, a write may select and resume at once | violation of `ResumeAckFresh` |
| `dmi_uart` | 4 words, one CMD_WRITE per word, prompt device | `TypeOK`, `ServedInOrder`, `ReadIsCurrent`, `ReadCompletes`, `WordServed`, `ImplementsDmiPort` |
| `dmi_uart_burst` | 3 words under one CMD_WRITE | violation of `WordsAsSent` |
| `dmi_uart_late` | 3 words, device answers after a while | violation of `ReadCompletes` |
| `sysbus` | 2 addresses, 2 values, no requests in consecutive cycles | `TypeOK`, `BusyShown`, `HeldUntilGranted`, `NoAccessAfterError`, `ImplementsMemoryWindow`, `BusyEnds` |
| `sysbus_reset` | the same with `dmactive = 0` at any time | violation of `HeldUntilGranted` |
| `rx_path` | FIFO of 4 as instantiated, ESC and 2 other bytes, 8 bytes accepted | `TypeOK`, `FifoIsQueue`, `DecodedInOrder`, `AllDelivered` |
| `jtag` | 1 data bit, 2 instruction bits; the client may leave in RunTestIdle, ShiftDr and PauseIr | `TypeOK`, `SyncByFiveOnes`, `ScanIsCapture`, `LossIsReported`, `ImplementsDmiPort`, `CaptureIsCurrent`, `RequestEnds` |
| `uart_tap` | 2 words of 2 bytes, one with ESC in it, IDCODE of 1 byte; no pauses, no early resets | `TypeOK`, `RepliesWhole`, `WordsOnce`, `ItemsServed`, `ReadAnswered` |

Why the bounds suffice. Two harts are the selected one and another: the design
treats all that are not selected alike. Two values show a change of data. The
registers of `DebugModule` are finite, so its runs are exhaustive for their
constants; nothing is cut off. In `DmiUart` the only bound is `MaxWords`: the
state of the logic is back at rest after each word, so a third and fourth word
add no case beyond a read, a write, a NOP and what follows them. `SystemBus` is
finite too; two addresses are enough for an increment, a wrap and an access at
the wrong place. In `RxPath` the bound is `MaxBytes`: eight bytes take both
pointers of a FIFO of four twice around, and all strings of that length
contain ESC before ESC, before another byte, and at the end. `JtagLink` and
`UartTap` are finite and nothing is cut off. In `JtagLink` the data of a word
are shifted behind the operation and treated alike, so that one bit shows a
shift that is one off; the three states in which the client may leave are one
outside a scan, one in it and one with the clock at rest, and the proofs hold
for any set of them. In `UartTap` two bytes have a first and a last, a register
of one byte next to a word of two shows a length that is kept from another
register, and the words share a byte, so that a byte in the wrong place need not
show but an ESC sent plain or doubled does.

### What the violations say

- **`dm_select_and_resume`.** `CHANGELOG.md:85-86` says resumeack and resumereq
  are cleared and set according to the debug specification. The acknowledge is
  cleared for `hartsel_o`, the hart selected *before* the write
  (`dm_mem.sv:235-237`), while `resumereq` is for the new one. If the new hart
  has resumed before, its acknowledge is still set, the debugger believes the
  resume done, and `dm_csrs.sv:521` drops the request. A debugger that selects
  in one write and resumes in another is not affected (`dm_commands`).
- **`dmi_uart_burst`.** `WRITE_VALID_O` (`dmi_uart_tap.sv:115`) is a cycle ahead
  of `write_data` (`:194`). After CMD_WRITE `write_data` is 0, a NOP that
  `dmi_uart` acknowledges and ignores, and the word gets through because
  `deser_done` lasts two cycles. For a second word `write_data` still holds the
  first: that is issued again and the second is lost.
- **`dmi_uart_late`.** `doc/debug-system.md:407-409` says the device answers
  after some time and that a transaction ends when the response is received.
  `dmi_uart.sv:107-115` waits one cycle of ready. A later answer is never
  taken, `do_read` stays set and `TAP_READ` answers no more. The debug module
  of this repository answers in time; a clock crossing or another device on
  the DMI would not.
- **`sysbus_reset`.** `doc/debug-system.md:244` and `:249` say that a request
  stays until it is granted and that its outputs may change after that. While
  `dmactive` is 0, `dm_csrs.sv` clears `sbaddr_q` and `sbdata_q`, which drive
  the bus, and `dm_sba.sv` goes on requesting: a write that waits for its grant
  becomes a write of 0 to address 0.

### Observations

What the modelling showed besides, without a run of its own.

Debug module. `dm_csrs.sv:385-388` says that no abstract command is started
until `cmderr` is 0. Neither the write of Command (`dm_csrs.sv:397-402`) nor
autoexec looks at `cmderr_q`, and `dm_mem.sv:147` starts the command; the model
does as the code.

UART.

- With `ResetsEarly` TLC finds `ReadAnswered` violated. If CMD_RESET arrives
  between two replies of a stream from the DMI, `READ_READY_O` is still high at
  the edge at which the command becomes NOP, the interconnect announces the
  register as if it had news, and the serialiser starts once more; the next
  CMD_READ is taken and its answer never sent (compare
  `dmi_uart_tap.sv:294-295`, "Read command will trigger read of address exactly
  once.").
- With `ResetsEarly` TLC finds `ItemsServed` violated too: a CMD_RESET is lost.
  CMD_WRITE remains the write command after its word, and keeps `receive_enable`
  high but for the edges of a handover (`dmi_uart_tap.sv:189`), so that `rx_read`
  takes whatever comes, also while the decoder is busy (`:77`); the decoder looks
  at what is read in `st_idle` only (`COMMAND_DECODER.sv:111-118`). After
  CMD_WRITE, CMD_CONT_READ and the CMD_READ that ends the stream while a reply is
  running, CMD_READ waits for the serialiser, and a CMD_RESET that arrives
  meanwhile is read and dropped. No document of the repository says what becomes
  of it. The host of `uart_tap` sends a reset in that time only when no CMD_WRITE
  stands; it then stays in RX_Escape and is served next.
- With `MayPause` TLC finds `RepliesWhole` violated. The pause request is an
  ESC byte (`uart_tx.sv:124-140`), and the transmitter sends on while it pauses
  the host: a byte of data after the ESC is decoded as a command. When the last
  byte sent was itself an ESC, no pause is sent at all.
- `HALF_FULL_O` (`fifo.sv:47`) misses levels 2 and 3 when the read pointer is 2
  and the write pointer has wrapped, so that the host is asked to pause only at
  level 4.
- A data byte that arrives while no write command is active is never read, and
  every item behind it waits, CMD_RESET included. The host of `UartTap` sends
  data only after CMD_WRITE, and waits for the last word to be taken.
- The read interconnect keeps its valid and data while nobody asks, so that a
  read of the DMI during an operation is answered at once with the old word,
  and the wait that `dmi_uart.sv:141-142` describes does not take place. The
  host of `UartTap` waits.
- The address byte that announces a read is dropped while `TX_Escape` still
  holds a byte, and one at the edge of a write of the serialiser loses that
  byte. `Steady` excludes the second, which needs a frame to end within the few
  cycles of such a handshake.
- A read of one STB target drives the ready of the other
  (`tap_read_interconnect.sv:88`). `UART_DTM_TOP.sv` uses neither.

JTAG.

- TRSTn rises together with the first edge of TCK; whether the TAP sees that
  edge is left to the simulator. Both are modelled.
- A busy error is raised by the capture or update of any data register, IDCODE
  and BYPASS included, and a capture of DTMCS shows the error as it was before
  the one it raises. TestLogicReset does not clear the sticky error.
- `rbs_execute_command` does not return when the socket has nothing to read: it
  tries again in its loop, although its comment says that it tries again at the
  next call. At the end of the client's file it returns, but `client_fd` keeps
  its value, so that no second client is ever accepted (compare
  `remote_bitbang.h:40`, "Check for a client connecting, and accept if there is
  one.").
- A socket error ends the simulation by `abort`, and so may a reply to a client
  that has gone.

Test program. `_sbrk` (`tb/prog/syscalls.c:256-270`) adds its increment in the
comparison and once more in the branch, so that the break may pass the end of
the heap.

## 4. Fairness

`DebugModule`: weak fairness of a cycle with no hart step (the clock runs), of
the progress of each hart in the debug ROM (`RomProgress`: a hart in debug mode
keeps executing, its loads and stores are answered, programs end), and of
entering debug mode while `debug_req_o` is high (the debug specification obliges
the hart). A hart's own program owes nothing, nor does the debugger:
`HaltServed` and `ResumeServed` hold although it may withdraw requests.

`DmiUart`: weak fairness of the clock and of the device answering what it has
taken.

`SystemBus`: weak fairness of the clock, of the grant of a request that is
held, and of the answer to a granted one, which the bus protocol asks for.
Nothing is assumed of the debugger.

`RxPath`: weak fairness of the clock and of the TAP reading what it is offered.
The TAP does so for commands and for the data of a write
(`dmi_uart_tap.sv:77`); what becomes of other data is among the observations of
section 3.

`JtagLink`: weak fairness of the client connecting and clocking the TAP, of a
call of `jtag_tick`, which SimJTAG makes at every `TICK_DELAY`, and of the debug
module's clock domain. Nothing makes the client update a register, finish a scan
or stay; `RequestEnds` needs only that TCK ticks, because the answer is taken in
any state of the TAP, and it exempts a client that has gone: then TCK stands
still and the operation is never collected.

`UartTap`: weak fairness of the clock with a silent host, strong fairness of the
end of a frame (the transmitter counts bits; `Steady` and `MayEnd` hold again and
again while it does) and weak fairness of the debug module ending an operation.
The host owes nothing.

## 5. Proofs

Each theorem is stated under the conditions its property needs and no others,
so that the tables also say which part of the debugger's or the host's behaviour
each property depends on.

`DebugModuleProofs` proves for any number of harts, any values and any sets of
commands (`DebugModuleAssumption`):

| Theorem | Under | Statement |
|---|---|---|
| `TypeCorrect` | - | `Spec => []TypeOK` |
| `HaltedHartsAreParked` | `~Resets` | `Spec => []HaltedIsParked` |
| `ExecutionIsTracked` | `Discipline /\ ~Resets` | `Spec => []ExecutionTracked` |

`DebugModuleCommandProofs`, for the same:

| Theorem | Under | Statement |
|---|---|---|
| `ResumeAcksAreFresh` | `~SelectAndResume` | `Spec => []ResumeAckFresh` |
| `ResumesAreNotDropped` | `Discipline /\ ~SelectAndResume /\ MaxOutstanding = 1` | `Spec => []ResumeNotDropped` |
| `InputsAreStable` | `~Resets /\ MaxOutstanding = 1` | `Spec => CommandInputsStable` |
| `CommandsAreAbstract` | `Discipline /\ ~Resets /\ MaxOutstanding = 1` | `Spec => ImplementsAbstractCommand` |

`DmiUartProofs`, for any number of words (`DmiUartAssumption`):

| Theorem | Under | Statement |
|---|---|---|
| `TypeCorrect` | - | `Spec => []TypeOK` |
| `WordsServedInOrder` | `~Burst` | `Spec => []ServedInOrder` |
| `TransactionsExclude` | `Prompt` | `Spec => []OneTransaction` |
| `ReadsAreCurrent` | `Prompt` | `Spec => []ReadIsCurrent` |
| `UartImplementsPort` | `Prompt` | `Spec => ImplementsDmiPort` |

`SystemBusProofs`, for any number of addresses and any words
(`SystemBusAssumption`):

| Theorem | Under | Statement |
|---|---|---|
| `BusTypes` | - | `Spec => []TypeOK` |
| `RequestsAreHeldWhileActive` | - | `Spec => HeldWhileActive` |
| `RequestsAreHeld` | `~Resets` | `Spec => HeldUntilGranted` |
| `ErrorStopsAccesses` | - | `Spec => NoAccessAfterError` |
| `BusyIsShown` | `~BackToBack` | `Spec => []BusyShown` |
| `BusImplementsWindow` | `~Resets` | `Spec => ImplementsMemoryWindow` |

`RxPathProofs`, for any depth of the FIFO and any bytes:

| Theorem | Under | Statement |
|---|---|---|
| `RxTypes` | `RxPathAssumption` | `Spec => []TypeOK` |
| `FifoQueues` | `RxPathAssumption` | `Spec => []FifoIsQueue` |
| `BytesDecodedInOrder` | `RxPathAssumption` | `Spec => []DecodedInOrder` |

`UartTapProofs`, for any words of any lengths, with or without pauses:

| Theorem | Under | Statement |
|---|---|---|
| `TypeCorrect` | - | `Spec => []TypeOK` |
| `WordsTakenOnce` | - | `Spec => WordsOnce` |
| `CommandsAreTaken` | `~ResetsEarly` | `Spec => CommandsTaken` |

`UartTapReadProofs`, for any words, any IDCODE and any lengths of them:

| Theorem | Under | Statement |
|---|---|---|
| `RepliesAreWhole` | `PlainReader` | `Spec => RepliesWhole` |

`JtagLinkProofs`, for any states in which the client may leave:

| Theorem | Under | Statement |
|---|---|---|
| `TypeCorrect` | - | `Spec => []TypeOK` |
| `Synchronises` | - | `Spec => []SyncByFiveOnes` |
| `LossReported` | - | `Spec => LossIsReported` |
| `JtagImplementsPort` | - | `Spec => ImplementsDmiPort` |
| `CapturesCurrent` | - | `Spec => CaptureIsCurrent` |
| `RepliesAreCaptured` | - | `Spec => ScanIsCapture` |

None of these conditions can be dropped: TLC finds each property violated when
one of its conditions alone is left out of the run that checks it, with one
exception noted below. `~Resets`: with
`ndmreset` a hart leaves the ROM while `halted_q` keeps it, and `dmactive = 0`
changes `hartsel` under a running command and clears the registers that drive
the bus (`sysbus_reset`). `Discipline`: a debugger that changes `hartsel` under a
running command makes `dm_mem` wait for the wrong hart. `MaxOutstanding = 1`: in
the cycle before busy rises only the response that is still in the FIFO keeps
the debugger from another access. `~SelectAndResume` and `~Burst`, `Prompt` are
what `dm_select_and_resume`, `dmi_uart_burst` and `dmi_uart_late` show.
`~BackToBack`: `sbbusy` is a cycle late.

`PlainReader` is `~MayPause /\ ~ResetsEarly`, the host of `uart_tap`. With
pauses TLC finds `RepliesWhole` violated (section 3). Here is the exception: with
`ResetsEarly` TLC finds that `RepliesWhole` still holds in its small instance,
although a register may then be announced and sent unasked and the answer to the
next CMD_READ is never sent; but the invariant of the proof does not. The
assumption on `UartTap`'s constants (`UartTapAssumption`) says among other things
that no address byte is ESC or the byte that resumes: `uart_pkg.sv:30-37` gives
every `ADDR_*` but `ADDR_NOP` low bits other than zero, and ESC is `8'hA0`
(line 19).

The argument for the debug module: `DmiRequest` reduces the ten alternatives of
`Dmi` to one clock edge whose arguments satisfy `Requested`. `ClockType` and
`RomStepType` then give types. `HaltedIsParked` is not inductive; `ActiveInv`
adds that `ndmreset` is not set and that while `dmactive` is 0 nothing is under
way. `ExecutionTracked` needs `hartsel` to stay while the state machine is busy:
by `ActiveInv` the module is then active, and a write of `dmcontrol` is subject
to `Disciplined` (`EdgeControl`). `HartMoves` says how a hart comes to each place
of the ROM, and `TrackStep` combines the two.

`EdgeRequest` and `EdgeValues` say the same of an edge for the other properties:
what it may ask, under which part of the debugger's discipline, and what is in
the registers after it. `ResumeAckFresh` is inductive by them if the hart whose
acknowledge is cleared is the one that is to resume. That no request is dropped
rests on how long each register lags behind: a request is in `dmcontrol` for one
cycle before the state machine serves it, and in that cycle the response to the
write that made it is still in the FIFO, so that a debugger that waits for
responses cannot touch `dmcontrol`. `ResumeInv` says so: what is owed is owed by
the selected hart, and is served or will be from the next cycle on
(`OwedIsServed`, `ServedStep`). The inputs of a command are stable in the cycle
before busy rises for the same reason (`ValidWaits`).

`CommandsAreAbstract` needs more (`CommandInv`): a request that the state machine
has not seen asks a halted hart, and the response to its write is still to be
read (`RequestIsNew`); a hart at `_resume` is the one that is served and has
not acknowledged (`ResumesOnce`), and when a command becomes valid no resume
request is in front of it (`ValidInv`), so that the overriding assignment in Idle
never makes it vanish. `PhaseShows` computes `phase` from the state of
`dm_mem` and the place of the selected hart; `FromIdle`, `FromValid`,
`FromResume`, `FromGo` and `FromCmdExecuting` then show each clock edge to be a
step of `AbstractCommand` or a stutter.

The UART handover has two invariants, which do not use each other.
`Handover` says where a word is on its way to the device: at `Rest`, `Complete` in the
deserialiser, `Loaded` into `write_data`, `Accepted` by `DMI_WRITE` or `Offered` to
the device, or with a transaction that waits (`Stuck`) or has just ended
(`Ended`). It holds however late the device answers, as long as each word has a
CMD_WRITE of its own. `Transaction` says where a request is once `DMI_WRITE` has
it (`Idle`, `Requested`, `OnOffer`, `Answered`), and holds whatever words arrive
as long as the device answers at once. In each place all the handshake registers
have one value, and one lemma per place (`FromRest`, `FromIdle` and so on) shows
where a clock edge takes it. `PortView` computes the port of `DmiPort` from
`Transaction`, and `PortFromIdle`, `PortFromRequested`, `PortFromOnOffer` and
`PortFromAnswered` show every edge to be a step of the port or a stutter: both
transports implement the same abstract port.

For the system bus, `DmiRequest` does the same for the alternatives of `Cycle`.
Types are enough for most properties. For the refinement, `BusInv` adds that an inactive
module is idle with its registers reset, and that while a granted transfer waits
for its answer it is the one `sbaddr` and `sbdata` describe. The latter is why the
answer stores the right word at the right address in `MemoryWindow`
(`WindowStep`: each clock edge is a step of the window or leaves it alone).
`ClockBusy` says what an edge does to the registers while an access is under
way. With `Resets` a request may change before its grant; `HoldStep` shows
that only an edge of an inactive module does that, the part of `HeldUntilGranted` that
survives the violation of `sysbus_reset`.

For the FIFO, `FifoIsQueue` speaks of the oldest byte only and is not
inductive. `QueueInv` says of all bytes that are kept where each is (`At`), and
where the next one goes. `StepMoves` shows that `RX_Escape` never reads an empty
FIFO, so that a clock edge is one of four cases, and `QueueStep` proves each. Escape
decoding is recursive over the bytes on the line, and no rule of induction is
used for it: `DecodeInv` says that the bytes read so far have a decoding and that
each of their decodings ends in what was delivered. A byte read extends a
decoding by one step (`DecodingExtends`), and a decoding of more bytes restricts
to one of fewer (`DecodingRestricts`).

For the UART TAP one item is on its way at a time, but for a reset behind a
command that waits for the serialiser, and `FlowInv` says so, and that the
deserialiser is at rest whenever an item can arrive (`QuietNext`). `WordInv`
says where a word is: its bytes are being collected (`Collecting`), it stands
complete at the deserialiser (`Complete`), or it has been taken and the
deserialiser still shows it (`Served`). One lemma shows where an edge takes it
from each place (`ByteIsSent`, `WordIsCollected`, `WordIsTaken`,
`WordStaysServed`), and `WordsOnce` says that the step from `Complete` to
`Served` is the only one at which the DMI takes a word. A reset that is lost
leaves the word `Abandoned`: the host sends no more of it, and the next
CMD_WRITE starts anew. The serialiser's counter stays in the register that is
sent because its address does not change under it (`SerialiserInv`).

`CommandsTaken` is the part of `ItemsServed` that says nothing of fairness.
`HandoverInv` says what each arbiter has taken over while the decoder waits for
its ready. The read arbiter may lose a command at the edge at which the one
before ends, and is then free to take it again at the next, at which the decoder
moves on. A command that arrives early meets no write command, by
`~ResetsEarly`, and none can come up while it waits, as the one that is handed
over is for the read arbiter.

A byte of a reply passes from the serialiser through READ_ARBITER, `TX_Escape`
and `UART_TX` to the line, and `RepliesWhole` speaks of the last of these only.
`ReadInv` says where it is. `TX_Escape` and `UART_TX` together are a place for
one item, an ESC and its byte (`TxInv`): `TxEdge` says that a clock edge accepts
an item only when the place is empty, and `TxHeard` what the host decodes when
the item's frames have ended. `CountInv` says how far the serialiser is: it
offers the bytes in order, and the place keeps a byte until the serialiser has
started the next one. `ReplyInv` joins both to the host: the byte in the place is
the one of the register that the serialiser's counter stands for, and `rest` is
what follows it. That holds as long as the register does not change while it is
read (`ServingInv`), which in turn needs to know where the arbiter is when a
command arrives (`PendingInv`) and what the host has been told by then
(`HostInv`): a host that waits for the end of a reply before it asks again finds
the arbiter at rest. A reset behind a command that waits comes after the end of a
stream only, and finds the arbiter still sending (`HeldInv`). `ReadInvStep` has one step for each of these parts, and
`ItemsHeard` draws the property from them.

For the JTAG link, `LinkSteps` reduces every step of client, server and
simulation to a rising edge, a falling edge, a step of the debug module's clock,
or one that leaves the transport alone, so that the client drops out of the
proofs. Types need to know where a scan is: `InDrScan` and `InIrScan` give the
length of the register that is shifted. For `SyncByFiveOnes` the invariant is
that the distance of a TAP state to TestLogicReset, along TMS high, and the
clocks counted so far never exceed five together (`HighApproaches` says that
each such clock takes the distance down). `LossIsReported` rests on `lost =>
error = Busy`, which holds because an update that is not accepted finds the
state machine busy or the error set. For `ImplementsDmiPort` the invariant
`CrossingInv` says of each state of `dmi_jtag` where the request and the
response are: at rest, about to leave, at work or on the way back. `PortView`
computes the mapping in each of them, and `FreeEdge`, `SendEdge`, `WaitEdge` and
`CoreSteps` show that every step is one of the port or a stutter. The invariant
is what rules `torn` out: a new request leaves only when the crossing has
returned its acknowledge.

`RepliesAreCaptured` joins the two ends of the link. `ScanInv` says that the
bits a register has not shifted out are those it captured. `LineInv` lists what
may be on the way to the server with the level TCK then has: when a read comes
next, TCK is low and its falling edge has put the next bit on TDO (`TdoShown`).

Every safety property that a passing run checks is one of these theorems, and so
is the safety part of `ItemsServed`, `CommandsTaken`.
`HeldWhileActive` has no run of its own, because with the constants of `sysbus` it
says the same as `HeldUntilGranted`; with `Resets` and `BackToBack` TLC finds it to
hold in all 16632 states. Nor has `OneTransaction`, which says of the FIFO what
`ImplementsDmiPort` says of the port. Only model-checked is every liveness property (`CommandTerminates`, `HaltServed`,
`ResumeServed`, `Recovers`, `HaltStatusRecovers`, `ReadCompletes`, `WordServed`,
`BusyEnds`, `AllDelivered`, `RequestEnds`, `ItemsServed`, `ReadAnswered`):
fairness and ENABLED are out of the prover's reach. Outside the hypotheses in the
tables nothing is proved, nor of the observations of section 3.

## 6. Not modelled, and the plan

The plan has been carried out for the debug module, the system bus and both
transports, and every safety property of the passing runs is proved, under
conditions that TLC shows to be needed. What could come next is the one where it
does not: streams ended by CMD_RESET for the replies of the UART TAP. It takes
an invariant that covers a serialisation nobody asked for and the command it
swallows.

Left out for good: generated ROM images (`debug_rom/*.sv` and `debug_rom.h`,
generated from the modelled `debug_rom.S`) and `encoding.h`, which is constants;
`dm_obi_top.sv`, which grants every request and answers it in the next cycle
from one register with the id it came with, so that a property would restate
that assignment; board tops and echo designs; constraints; the test bench around
the modelled link (`tb_top_verilator.cpp` toggles the clock and dumps the
memory, and `serial_console.h` declares a class that no file of the repository
defines); the runtime of the test program (`tb/prog`), whose system calls return errors; and
the clock domain crossing cells of external libraries, which are modelled by
their handshake. The STB targets of the UART TAP and `dmihardreset`, which no
register of `dmi_jtag.sv` acts on, are left out too. UART bit timing is left to
simulation: in `RxPath` the receiver is a source of bytes, in `TxPath` a frame
is a byte that stays on the line for a while.

The design is SystemVerilog. Of the C and C++ files in the repository
`encoding.h` alone is more than half, so that a count of modelled lines that
looks at those files only says little about the design.
