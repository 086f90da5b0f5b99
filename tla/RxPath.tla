------------------------------- MODULE RxPath -------------------------------
(***************************************************************************)
(* The receive path of the UART DTM: SIMPLE_FIFO (fifo.sv) behind UART_RX, *)
(* and RX_Escape (rx_escape.sv), which tells commands from data for the    *)
(* TAP.  One step is one rising clock edge: a byte may have come in, and   *)
(* the TAP may read.  A byte that meets a full FIFO is dropped.            *)
(***************************************************************************)
EXTENDS Naturals, Sequences

CONSTANTS
    Depth,     \* 2**ABITS
    Bytes, ESC,
    MaxBytes   \* bytes the FIFO accepts in all, a bound for TLC

ASSUME RxPathAssumption ==
    /\ Depth \in Nat \ {0, 1}
    /\ ESC \in Bytes
    /\ MaxBytes \in Nat

VARIABLES
    ram, w_ptr, r_ptr, full, empty,  \* SIMPLE_FIFO
    state, data,                     \* RX_Escape
    received,  \* history: bytes the FIFO has accepted
    taken,     \* history: how many of them RX_Escape has read
    delivered  \* history: what the TAP has read

fifo == <<ram, w_ptr, r_ptr, full, empty>>
vars == <<fifo, state, data, received, taken, delivered>>

Ptrs == 0 .. Depth - 1

-----------------------------------------------------------------------------
(* SIMPLE_FIFO *)

Inc_NoWrap(p) == p + 1  \* mutant
Inc(p) == IF p = Depth - 1 THEN 0 ELSE p + 1

R_DATA_O == ram[r_ptr]

\* Mutant: full stays set when a byte is read.
full_next_Kept(we, re) ==
    IF we /\ ~re THEN Inc(w_ptr) = r_ptr ELSE full
full_next(we, re) ==
    IF ~we /\ re /\ ~empty THEN FALSE
    ELSE IF we /\ ~re THEN full \/ Inc(w_ptr) = r_ptr
    ELSE full

\* Mutant: the last byte is read and empty not set.
empty_next_Late(we, re) ==
    IF ~we /\ re /\ ~empty THEN r_ptr = w_ptr
    ELSE IF we /\ ~re THEN FALSE
    ELSE empty
empty_next(we, re) ==
    IF ~we /\ re /\ ~empty THEN Inc(r_ptr) = w_ptr
    ELSE IF we /\ ~re THEN FALSE
    ELSE empty

\* A write and a read in one cycle move both pointers, whatever the flags.
Fifo(WE_I, RE_I, W_DATA_I) ==
    LET w_en == WE_I /\ ~full IN
    /\ ram' = IF w_en THEN [ram EXCEPT ![w_ptr] = W_DATA_I] ELSE ram
    /\ w_ptr' = IF w_en THEN Inc(w_ptr) ELSE w_ptr
    /\ r_ptr' = IF RE_I /\ (w_en \/ ~empty) THEN Inc(r_ptr) ELSE r_ptr
    /\ full' = full_next(w_en, RE_I)
    /\ empty' = empty_next(w_en, RE_I)
    /\ received' = IF w_en THEN Append(received, W_DATA_I) ELSE received

-----------------------------------------------------------------------------
(* RX_Escape *)

READ_O_IdleOnly == state = "idle" /\ ~empty  \* mutant
READ_O    == state \in {"idle", "escape"} /\ ~empty
COMMAND_O == state = "command"
Available == state \in {"data", "command"}   \* ~RX_EMPTY_O

state_next_Drop(read) ==  \* mutant: ESC ESC is dropped
    CASE READ_O /\ state = "idle"   -> IF R_DATA_O = ESC THEN "escape"
                                       ELSE "data"
      [] READ_O /\ state = "escape" -> IF R_DATA_O = ESC THEN "idle"
                                       ELSE "command"
      [] Available /\ read          -> "idle"
      [] OTHER                      -> state

state_next(read) ==
    CASE READ_O /\ state = "idle"   -> IF R_DATA_O = ESC THEN "escape"
                                       ELSE "data"
      [] READ_O /\ state = "escape" -> IF R_DATA_O = ESC THEN "data"
                                       ELSE "command"
      [] Available /\ read          -> "idle"
      [] OTHER                      -> state

Escape(read) ==
    /\ state' = state_next(read)
    /\ data' = IF READ_O THEN R_DATA_O ELSE data
    /\ taken' = IF READ_O THEN taken + 1 ELSE taken
    /\ delivered' = IF Available /\ read
                    THEN Append(delivered, [command |-> COMMAND_O,
                                            byte |-> data])
                    ELSE delivered

-----------------------------------------------------------------------------
Clock(WE_I, byte, read) ==
    /\ Fifo(WE_I, READ_O, byte)
    /\ Escape(read)

\* UART_RX has received a byte; the bound counts those that are kept.
Receive(read) ==
    /\ Len(received) < MaxBytes
    /\ \E byte \in Bytes : Clock(TRUE, byte, read)
Wait(read) == Clock(FALSE, ESC, read)

Init ==
    /\ ram \in [Ptrs -> Bytes]
    /\ w_ptr = 0 /\ r_ptr = 0
    /\ full = FALSE /\ empty = TRUE
    /\ state = "idle"
    /\ data = ESC  \* stands for 0, which nothing reads
    /\ received = <<>> /\ taken = 0
    /\ delivered = <<>>

Edge(read) == Receive(read) \/ Wait(read)
Next == \E read \in BOOLEAN : Edge(read)

Spec == Init /\ [][Next]_vars

\* The clock runs, and the TAP reads what it is offered.
FairSpec == Spec /\ WF_vars(Next) /\ WF_vars(Available /\ Edge(TRUE))

-----------------------------------------------------------------------------
(* Properties *)

\* Type correctness of the registers.
TypeOK ==
    /\ ram \in [Ptrs -> Bytes]
    /\ w_ptr \in Ptrs /\ r_ptr \in Ptrs
    /\ full \in BOOLEAN /\ empty \in BOOLEAN
    /\ state \in {"idle", "data", "escape", "command"}
    /\ data \in Bytes
    /\ received \in Seq(Bytes)
    /\ taken \in Nat

\* The FIFO is a queue: its flags tell the fill level, and the byte it offers
\* is the oldest one that was accepted and not yet read (SIMPLE_FIFO).
FifoIsQueue ==
    /\ empty <=> taken = Len(received)
    /\ full  <=> Len(received) - taken = Depth
    /\ ~empty => R_DATA_O = received[taken + 1]

\* What a sequence of bytes means: ESC makes the byte behind it a command,
\* or data if it is ESC again.
Undecoded == [out |-> <<>>, esc |-> FALSE]

DecodeByte(s, b) ==
    IF ~s.esc /\ b = ESC THEN [out |-> s.out, esc |-> TRUE]
    ELSE [out |-> Append(s.out, [command |-> s.esc /\ b # ESC, byte |-> b]),
          esc |-> FALSE]

Decoded(bytes) ==
    LET f[n \in 0 .. Len(bytes)] ==
            IF n = 0 THEN Undecoded ELSE DecodeByte(f[n - 1], bytes[n])
    IN  f[Len(bytes)].out

\* The TAP reads the decoded bytes in order, none twice and none left out, up
\* to one that is still offered (RX_Escape).
DecodedInOrder ==
    Decoded(SubSeq(received, 1, taken)) =
        IF Available
        THEN Append(delivered, [command |-> COMMAND_O, byte |-> data])
        ELSE delivered

\* Everything received reaches the TAP if it keeps reading, but for an ESC
\* whose second byte has not come.
AllDelivered == <>[](delivered = Decoded(received))

=============================================================================
