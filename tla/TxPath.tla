------------------------------- MODULE TxPath -------------------------------
(***************************************************************************)
(* From the UART TAP to the host: TX_Escape (tx_escape.sv), which puts an  *)
(* escape byte before commands and before data that equals it, UART_TX     *)
(* (uart_tx.sv), which also tells the host to pause and to resume, and the *)
(* decoding that the host does.                                            *)
(*                                                                         *)
(* One step is one rising clock edge.  The bits of a frame are left out: a *)
(* frame is on the line until an edge with end, and lasts longer than the  *)
(* handshakes around it take to settle.                                    *)
(***************************************************************************)
EXTENDS Naturals, Sequences

CONSTANTS
    Bytes,      \* bytes of data and of commands
    Esc,        \* ESC
    Resume      \* RESUME, a command without effect

ASSUME TxPathAssumption == Esc \in Bytes /\ Resume \in Bytes /\ Esc # Resume

\* What the TAP sends and the host decodes.
Data(b)    == [cmd |-> FALSE, byte |-> b]
Command(b) == [cmd |-> TRUE, byte |-> b]

VARIABLES
    send_esc, send_data, data_buffer,   \* TX_Escape
    buffered_tx_ready,                  \* TX_READY_I one edge ago
    write_o, data_send_o, esc_detected, \* its registered outputs to UART_TX
    sending,                            \* state = st_send
    frame,                              \* the byte on the line
    pausing, last_esc,                  \* UART_TX
    host_escaped    \* host: the last byte was an unpaired escape

escape == <<send_esc, send_data, data_buffer, buffered_tx_ready,
            write_o, data_send_o, esc_detected>>
uart_tx == <<sending, frame, pausing, last_esc>>
tx      == <<escape, uart_tx, host_escaped>>

TxInit ==
    /\ send_esc = FALSE /\ send_data = FALSE /\ data_buffer = Resume
    /\ buffered_tx_ready = FALSE
    /\ write_o = FALSE /\ data_send_o = Resume /\ esc_detected = FALSE
    /\ sending = FALSE /\ frame = Resume /\ pausing = FALSE /\ last_esc = FALSE
    /\ host_escaped = FALSE

-----------------------------------------------------------------------------
(* TX_Escape.  cmd and wr are WRITE_COMMAND_I and WRITE_I, with the bytes  *)
(* cb and db.                                                              *)

tx_ready == ~sending
tx_done  == ~buffered_tx_ready /\ tx_ready

TX_READY_O == tx_ready /\ ~send_esc /\ ~send_data

Accepts(cmd, wr) == ~send_data /\ (cmd \/ wr)

\* An escape byte goes before commands and before data that equals it.
escaped(cmd, db) == cmd \/ db = Esc

Escape(cmd, cb, wr, db) ==
    /\ buffered_tx_ready' = tx_ready
    /\ data_buffer' = IF ~Accepts(cmd, wr) THEN data_buffer
                      ELSE IF cmd THEN cb ELSE db
    /\ send_data' = IF tx_done /\ ~send_esc /\ send_data THEN FALSE
                    ELSE send_data \/ Accepts(cmd, wr)
    /\ send_esc' = IF tx_done /\ send_esc THEN FALSE
                   ELSE IF Accepts(cmd, wr) THEN escaped(cmd, db)
                   ELSE send_esc
    /\ write_o' = (tx_ready /\ ~tx_done /\ (send_esc \/ send_data))
    /\ data_send_o' = IF send_esc THEN Esc ELSE data_buffer
    /\ esc_detected' = send_esc

-----------------------------------------------------------------------------
(* UART_TX                                                                 *)

\* In st_idle a change of SEND_PAUSE_I goes before a byte of TX_Escape.
Idle(pause) ==
    CASE pause # pausing ->
            /\ pausing' = pause
            /\ IF last_esc THEN UNCHANGED <<sending, frame>>
               ELSE sending' = TRUE /\ frame' = IF pause THEN Esc ELSE Resume
            /\ UNCHANGED last_esc
      [] pause = pausing /\ write_o ->
            /\ sending' = TRUE /\ frame' = data_send_o
            /\ last_esc' = esc_detected
            /\ UNCHANGED pausing
      [] OTHER -> UNCHANGED uart_tx

\* A frame ends when the handshake that began it is long over.
MayEnd == sending /\ ~write_o /\ ~buffered_tx_ready

\* What the host makes of a byte: nothing yet, one item, or RESUME.
Decoded(b) ==
    IF host_escaped
    THEN CASE b = Esc    -> <<Data(b)>>
           [] b = Resume -> <<>>
           [] OTHER      -> <<Command(b)>>
    ELSE IF b = Esc THEN <<>> ELSE <<Data(b)>>

UartTx(pause, end) ==
    IF ~sending
    THEN Idle(pause) /\ UNCHANGED host_escaped
    ELSE /\ end => MayEnd
         /\ sending' = ~end
         /\ host_escaped' = IF end THEN ~host_escaped /\ frame = Esc ELSE host_escaped
         /\ UNCHANGED <<frame, pausing, last_esc>>

\* What the host decodes at an edge.
Heard(end) == IF sending /\ end THEN Decoded(frame) ELSE <<>>

Transmit(cmd, cb, wr, db, pause, end) ==
    /\ Escape(cmd, cb, wr, db)
    /\ UartTx(pause, end)
=============================================================================
