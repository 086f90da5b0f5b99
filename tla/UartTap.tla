------------------------------ MODULE UartTap ------------------------------
(***************************************************************************)
(* The UART TAP (dmi_uart_tap.sv) with its COMMAND_DECODER, RX_DESERIALIZER*)
(* and TX_SERIALIZER and the two interconnects, between RX_Escape and      *)
(* TX_Escape (TxPath), with the DMI end of dmi_uart.sv as the register it  *)
(* reads and writes.  One step is one rising clock edge of all of them; a  *)
(* primed variable is the register's next value.                           *)
(*                                                                         *)
(* Lengths are counted in bytes, and a word is a short sequence of bytes.  *)
(***************************************************************************)
EXTENDS TxPath, FiniteSets

CONSTANTS
    Words,          \* what a DMI word can be: sequences of bytes of one length
    IdCode,         \* IDCODEVALUE, a sequence of bytes
    ResetsEarly,    \* the host may reset the TAP in a stream of replies, and
                    \* after CMD_WRITE before the decoder is free
    MayPause        \* the receive FIFO may be half full, and TX pauses the host

ASSUME UartTapAssumption ==
    /\ Words \subseteq Seq(Bytes) /\ Words # {}
    /\ \A v, w \in Words : Len(v) = Len(w) /\ Len(v) > 0
    /\ IdCode \in Seq(Bytes) /\ Len(IdCode) > 0
    /\ ResetsEarly \in BOOLEAN /\ MayPause \in BOOLEAN
    /\ {"dmi", "idcode"} \subseteq Bytes \ {Esc, Resume}   \* the bytes of AddressByte

Commands  == {"CMD_READ", "CMD_CONT_READ", "CMD_WRITE", "CMD_RESET"}
Addresses == {"ADDR_IDCODE", "ADDR_DMI"}
AddressByte == [a \in Addresses |-> IF a = "ADDR_DMI" THEN "dmi" ELSE "idcode"]

\* What RX_Escape offers.
CommandItem(c, a) == [kind |-> "command", cmd |-> c, addr |-> a]
DataItem(b)       == [kind |-> "data", byte |-> b]
NoItem            == [kind |-> "none"]

WordLength  == Len(CHOOSE w \in Words : TRUE)
get_write_length(a) == IF a = "ADDR_DMI" THEN WordLength ELSE Len(IdCode)
get_read_length(a)  == get_write_length(a)

Unsent(w) == [word |-> w, n |-> 0]

VARIABLES
    rx,             \* the item RX_Escape offers
    data_rec,       \* DATA_REC_I, which stays after the item has been read
    decoder,        \* COMMAND_DECODER: state, cmd, addr
    warb,           \* WRITE_ARBITER: ready, cmd, addr, data, enable
    deser,          \* reset, run and the deserialiser: done, bytes
    rarb,           \* READ_ARBITER: ready, cmd, addr, byte, send, read_ready
    ser,            \* run, reset, length and the serialiser: count, busy, done, byte, write
    latch,          \* TAP_READ_INTERCONNECT: read_valid, read_data
    valid_address,  \* VALID_ADDRESS_O
    dmi,            \* DMI_UART: ready, busy, request, resp, read_valid
    sent,           \* host: the word of its last CMD_WRITE and how much it has sent
    asked,          \* host: the last register it asked for
    reading,        \* host: "once", "stream", "ended" stream, or "nothing"
    rest,           \* host: the bytes still to come of the register it receives
    taken,          \* history: the word was taken by the DMI
    held            \* history: the decoder's command waited for a serialisation

tap  == <<rx, data_rec, decoder, warb, deser, rarb, ser, latch, valid_address, dmi>>
host == <<sent, asked, reading, rest, taken, held>>
vars == <<tap, tx, host>>

TapInit ==
    /\ rx = NoItem /\ data_rec = NoItem
    /\ decoder = [state |-> "idle", cmd |-> "CMD_NOP", addr |-> "ADDR_IDCODE"]
    /\ warb = [ready |-> FALSE, cmd |-> "CMD_NOP", addr |-> "ADDR_IDCODE",
               data |-> <<>>, enable |-> FALSE]
    /\ deser = [reset |-> TRUE, run |-> FALSE, done |-> FALSE, bytes |-> <<>>]
    /\ rarb = [ready |-> FALSE, cmd |-> "CMD_NOP", addr |-> "ADDR_IDCODE",
               byte |-> Resume, send |-> FALSE, read_ready |-> FALSE]
    /\ ser = [run |-> FALSE, reset |-> TRUE, length |-> 0,
              count |-> 0, busy |-> FALSE, done |-> FALSE,
              byte |-> Resume, write |-> FALSE]
    /\ latch = [read_valid |-> FALSE, read_data |-> <<>>]
    /\ valid_address = "ADDR_NOP"
    /\ dmi \in [ready : {FALSE}, busy : {FALSE}, request : {<<>>}, resp : Words,
                read_valid : {FALSE}]
    /\ sent = Unsent(<<>>) /\ taken = FALSE /\ held = FALSE
    /\ asked = "ADDR_IDCODE" /\ reading = "nothing" /\ rest = <<>>
    /\ TxInit

-----------------------------------------------------------------------------
(* COMMAND_DECODER                                                         *)

BUSY_O == decoder.state # "idle"

rx_read_Busy == rx # NoItem /\ (rx.kind = "command" \/ warb.enable)
rx_read ==
    /\ rx # NoItem
    /\ (~BUSY_O /\ rx.kind = "command") \/ warb.enable

HandsTo_Both(c) == {"write", "read"}
HandsTo(c) ==
    CASE c = "CMD_WRITE" -> {"write"}
      [] c = "CMD_RESET" -> {"write", "read"}
      [] OTHER           -> {"read"}

\* READ_ARBITER_VALID_O and WRITE_ARBITER_VALID_O; a command that is none of these
\* four is dropped and left out.
Valid(arbiter) == decoder.state = "handover" /\ arbiter \in HandsTo(decoder.cmd)

Ready(arbiter) == IF arbiter = "write" THEN warb.ready ELSE rarb.ready

Decoder ==
    decoder' =
        CASE decoder.state = "idle" /\ rx_read /\ rx.kind = "command" ->
                 [state |-> "handover", cmd |-> rx.cmd, addr |-> rx.addr]
          [] decoder.state = "handover"
                /\ (\A arbiter \in HandsTo(decoder.cmd) : Ready(arbiter)) ->
                 [decoder EXCEPT !.state = "wait_ack"]
          [] decoder.state = "wait_ack" /\ ~warb.ready /\ ~rarb.ready ->
                 [decoder EXCEPT !.state = "idle"]
          [] OTHER -> decoder

-----------------------------------------------------------------------------
(* WRITE_ARBITER, RX_DESERIALIZER and TAP_WRITE_INTERCONNECT               *)

\* A reset changes the arbiter to the address of the IDCODE.
WRITE_ADDRESS_O == IF decoder.cmd = "CMD_RESET" THEN "ADDR_IDCODE" ELSE decoder.addr

WRITE_VALID_O == deser.done
WRITE_READY_I == IF warb.addr = "ADDR_DMI" THEN dmi.ready ELSE TRUE

Writing == warb.cmd = "CMD_WRITE"

WriteArbiter ==
    warb' = IF Valid("write")
            THEN [ready |-> TRUE, cmd |-> decoder.cmd, addr |-> WRITE_ADDRESS_O,
                  data |-> <<>>, enable |-> FALSE]
            ELSE [warb EXCEPT
                    !.ready  = FALSE,
                    !.cmd    = IF @ = "CMD_RESET" THEN "CMD_NOP" ELSE @,
                    !.data   = CASE warb.cmd = "CMD_RESET" -> <<>>
                                 [] Writing /\ deser.done  -> deser.bytes
                                 [] OTHER                  -> @,
                    !.enable = Writing /\ ~deser.done]

deser_reset_d_AnyCommand ==
    Valid("write") \/ Valid("read") \/ ~Writing \/ (deser.done /\ WRITE_READY_I)
deser_reset_d == Valid("write") \/ ~Writing \/ (deser.done /\ WRITE_READY_I)
deser_run_d == ~Valid("write") /\ Writing /\ rx.kind = "data"

Deserialiser ==
    LET full == Len(deser.bytes) >= get_write_length(warb.addr)
    IN  deser' = [reset |-> deser_reset_d, run |-> deser_run_d,
                  done  |-> ~deser.reset /\ full,
                  bytes |-> IF deser.reset THEN <<>>
                            ELSE IF deser.run /\ ~full
                                 THEN Append(deser.bytes, data_rec.byte)
                                 ELSE deser.bytes]

-----------------------------------------------------------------------------
(* TAP_READ_INTERCONNECT: read_valid and read_data keep their values while *)
(* READ_READY_I is low.                                                    *)

READ_VALID_O ==
    IF ~rarb.read_ready THEN latch.read_valid
    ELSE rarb.addr = "ADDR_DMI" => dmi.read_valid

READ_DATA_O ==
    IF ~rarb.read_ready THEN latch.read_data
    ELSE IF rarb.addr = "ADDR_DMI" THEN dmi.resp ELSE IdCode

ReadInterconnect ==
    /\ latch' = [read_valid |-> READ_VALID_O, read_data |-> READ_DATA_O]
    /\ valid_address' = IF dmi.read_valid THEN "ADDR_DMI" ELSE "ADDR_NOP"

-----------------------------------------------------------------------------
(* READ_ARBITER and TX_SERIALIZER.  Where the arbiter assigns a register   *)
(* twice in an edge, the later assignment stands.                          *)

\* Address and command change outside of a running serialisation.
Accepting_Idle == ~ser.busy /\ rarb.cmd = "CMD_NOP" /\ Valid("read")
Accepting == ~ser.busy /\ Valid("read")

Reading == rarb.cmd \in {"CMD_READ", "CMD_CONT_READ"}
Resting == rarb.cmd = "CMD_NOP"

\* Without a command the arbiter acts on valids of the interconnect.
Announced == Resting /\ valid_address # "ADDR_NOP"
Moved     == Announced /\ valid_address # rarb.addr

read_address_d ==
    IF Moved THEN valid_address ELSE IF Accepting THEN decoder.addr ELSE rarb.addr

read_command_d ==
    IF rarb.cmd = "CMD_RESET" \/ (rarb.cmd = "CMD_READ" /\ ser.done) THEN "CMD_NOP"
    ELSE IF Accepting THEN decoder.cmd
    ELSE rarb.cmd

ReadArbiter ==
    rarb' = [ready      |-> Accepting,
             cmd        |-> read_command_d,
             addr       |-> read_address_d,
             send       |-> Accepting \/ Moved,
             byte       |-> IF Accepting \/ Moved THEN AddressByte[read_address_d] ELSE Resume,
             read_ready |-> ~ser.done /\ ~ser.busy /\ (Reading \/ (Announced /\ ~Moved))]

ser_run_d ==
    ~ser.done /\ ((Reading /\ READ_VALID_O) \/ (Announced /\ ~Moved))

ser_reset_d_Kept == rarb.cmd = "CMD_RESET"
ser_reset_d ==
    \/ rarb.cmd = "CMD_RESET"
    \/ ser.done /\ (Reading \/ (Announced /\ ~Moved))

more == ser.count < ser.length

byte_taken_Written == ser.write
\* TX has become busy with the byte that is offered.
byte_taken == ser.write /\ ~TX_READY_O

Serialiser ==
    LET next == [ser EXCEPT !.run = ser_run_d, !.reset = ser_reset_d,
                            !.length = IF Accepting \/ Moved
                                       THEN get_read_length(read_address_d) ELSE @]
    IN  ser' = IF ser.reset
               THEN [next EXCEPT !.count = 0, !.busy = FALSE, !.done = FALSE,
                                 !.byte = Resume, !.write = FALSE]
               ELSE [next EXCEPT
                       !.busy  = (@ \/ (ser.run /\ ~ser.done)) /\ (ser.busy => more),
                       !.done  = @ \/ (ser.busy /\ ~more),
                       !.count = IF ser.busy /\ more /\ byte_taken
                                 THEN @ + 1 ELSE @,
                       !.byte  = IF more /\ ser.count < Len(READ_DATA_O)
                                 THEN READ_DATA_O[ser.count + 1] ELSE Resume,
                       !.write = ser.busy /\ more /\ TX_READY_O]

-----------------------------------------------------------------------------
(* DMI_UART: a word whose operation is not NOP becomes a request, which    *)
(* ends at an edge with fin, three edges later or more; a register read    *)
(* before that has to wait.                                                *)

DmiEnd(fin) ==
    /\ fin => dmi.busy /\ ~dmi.ready
    /\ \E answer \in IF fin THEN Words ELSE {dmi.resp} :
         dmi' = [ready   |-> ~dmi.busy /\ WRITE_VALID_O /\ warb.addr = "ADDR_DMI",
                 busy    |-> IF dmi.busy THEN ~fin
                             ELSE WRITE_VALID_O /\ warb.addr = "ADDR_DMI" /\ warb.data # <<>>,
                 request |-> IF ~dmi.busy /\ WRITE_VALID_O /\ warb.addr = "ADDR_DMI"
                             THEN warb.data ELSE dmi.request,
                 resp    |-> answer,
                 read_valid |-> ~dmi.busy /\ rarb.read_ready /\ rarb.addr = "ADDR_DMI"]

-----------------------------------------------------------------------------
(* The host.  A byte takes at least eighty cycles on the line, so that what *)
(* it sends arrives when the TAP has settled after the item before.  But a  *)
(* command for the read arbiter waits for a serialisation to end, for many  *)
(* frames: the next item may arrive while it waits, or at any edge between  *)
(* the end of the serialisation and that of the handover.                   *)

Settled ==
    /\ rx = NoItem
    /\ BUSY_O => held
    /\ ~held => ~warb.ready /\ ~rarb.ready
    /\ ~deser.run /\ Len(deser.bytes) < WordLength /\ ~deser.done /\ ~dmi.ready
    /\ Writing => warb.enable /\ ~deser.reset
    /\ rarb.cmd = "CMD_READ" => ser.busy \/ ser.done \/ dmi.busy

Held == held' = (decoder'.state # "idle" /\ (held \/ (Valid("read") /\ ser.busy)))

\* What comes next of the register that the host asked for.
Expected ==
    IF rest # <<>> THEN rest ELSE IF asked = "ADDR_DMI" THEN dmi.resp ELSE IdCode

HeardByte(end) ==
    Heard(end) # <<>> /\ ~Heard(end)[1].cmd /\ Heard(end)[1].byte = Head(Expected)

\* A read is answered with the last byte of its register.
Listens(end) ==
    IF HeardByte(end)
    THEN /\ rest' = Tail(Expected)
         /\ reading' = IF rest' = <<>> /\ reading = "once" THEN "nothing" ELSE reading
    ELSE UNCHANGED <<rest, reading>>

\* After the end of a stream the host waits until nothing more comes.
Silent == ~sending /\ ~send_data /\ ~ser.busy /\ ~ser.run /\ Resting

ReadsNothing == reading = "nothing" \/ (reading = "ended" /\ Silent)

Sends(item) == rx' = item /\ data_rec' = item

\* The host waits for the end of an operation before the next one and before it
\* reads, which it may do between the bytes of a word.  It reads one register at
\* a time; a stream of replies ends with one more read, or with a reset.
SendsRead(c, a) ==
    /\ ReadsNothing /\ ~dmi.busy
    /\ Sends(CommandItem(c, a))
    /\ asked' = a /\ reading' = IF c = "CMD_READ" THEN "once" ELSE "stream"
    /\ UNCHANGED <<sent, rest>>

SendsEnd ==
    /\ reading = "stream" /\ reading' = "ended"
    /\ Sends(CommandItem("CMD_READ", asked))
    /\ UNCHANGED <<sent, asked, rest>>

SendsWrite(w) ==
    /\ ReadsNothing /\ ~dmi.busy
    /\ Sends(CommandItem("CMD_WRITE", "ADDR_DMI"))
    /\ sent' = Unsent(w)
    /\ UNCHANGED <<asked, reading, rest>>

\* The next byte of the word of this CMD_WRITE.
SendsByte ==
    /\ sent.n < Len(sent.word) /\ ReadsNothing
    /\ Sends(DataItem(sent.word[sent.n + 1]))
    /\ sent' = [sent EXCEPT !.n = @ + 1]
    /\ UNCHANGED <<asked, reading, rest>>

\* The way out of an operation that does not end.  After CMD_WRITE the TAP reads
\* whatever comes, and a reset that comes while the decoder is busy is lost.
SendsReset ==
    /\ reading = "stream" \/ (BUSY_O /\ Writing) => ResetsEarly
    /\ Sends(CommandItem("CMD_RESET", asked))
    /\ sent' = Unsent(<<>>)
    /\ reading' = "ended" /\ UNCHANGED <<asked, rest>>

SendsNext ==
    \/ \E c \in {"CMD_READ", "CMD_CONT_READ"}, a \in Addresses : SendsRead(c, a)
    \/ SendsEnd
    \/ \E w \in Words : SendsWrite(w)
    \/ SendsByte

\* The item has arrived; no byte is heard at the same edge.  While a command of
\* its waits the host goes on with nothing but a reset.
HostSends(end) ==
    /\ Settled /\ ~HeardByte(end)
    /\ (~BUSY_O /\ SendsNext) \/ SendsReset

HostListens(end) ==
    /\ rx' = IF rx_read THEN NoItem ELSE rx
    /\ Listens(end) /\ UNCHANGED <<data_rec, sent, asked>>

Taken == taken' = IF sent'.n = 0 THEN FALSE ELSE taken \/ (~dmi.busy /\ dmi'.busy)

-----------------------------------------------------------------------------

\* A frame lasts long enough for the serialiser to offer the next byte, or to
\* start and to come to rest.
Steady ==
    \/ ser.busy /\ ser.count < ser.length /\ ~ser.write
    \/ ~ser.busy /\ ~ser.run /\ (Reading => dmi.busy)

Clock(fin, end) ==
    /\ end => Steady
    /\ Decoder /\ WriteArbiter /\ Deserialiser /\ ReadInterconnect
    /\ ReadArbiter /\ Serialiser /\ DmiEnd(fin)
    /\ \E pause \in {FALSE, MayPause} :
          Transmit(rarb.send, rarb.byte, ser.write, ser.byte, pause, end)
    /\ Taken /\ Held

Next == \E fin, end \in BOOLEAN :
            (HostSends(end) \/ HostListens(end)) /\ Clock(fin, end)

\* The clock runs whatever the host does, a frame ends, the debug module answers.
Tick(fin, end) == HostListens(end) /\ Clock(fin, end)

Fairness ==
    /\ WF_vars(\E fin, end \in BOOLEAN : Tick(fin, end))
    /\ SF_vars(sending /\ \E fin \in BOOLEAN : Tick(fin, TRUE))
    /\ WF_vars(\E end \in BOOLEAN : Tick(TRUE, end))

Spec == TapInit /\ [][Next]_vars /\ Fairness

-----------------------------------------------------------------------------

\* The registers hold values of their types: the deserialiser does not run over
\* its word, nor the serialiser over its register.
TypeOK ==
    /\ rx.kind \in {"none", "command", "data"}
    /\ decoder \in [state : {"idle", "handover", "wait_ack"},
                    cmd : Commands \cup {"CMD_NOP"}, addr : Addresses]
    /\ warb.cmd \in {"CMD_NOP", "CMD_WRITE", "CMD_RESET"}
    /\ warb.data \in Words \cup {<<>>} /\ dmi.request \in Words \cup {<<>>}
    /\ Len(deser.bytes) <= WordLength
    /\ rarb.cmd \in {"CMD_NOP", "CMD_READ", "CMD_CONT_READ", "CMD_RESET"}
    /\ ser.busy => ~ser.done /\ ser.count <= ser.length
    /\ latch.read_data \in Words \cup {IdCode, <<>>}

\* What the host decodes as data is the next byte of the register it asked for,
\* with the value the register has: it comes whole, without a byte lost, twice or
\* of another register, and no notification interrupts it.
RepliesWhole ==
    [][sending /\ ~sending' /\ Heard(TRUE) # <<>> =>
         LET item == Heard(TRUE)[1]
         IN  IF item.cmd THEN rest = <<>>
             ELSE reading # "nothing" /\ item.byte = Head(Expected)]_vars

\* Each word is taken by the DMI exactly once and as the host sent it: not before
\* its last byte, not twice, and before the host goes on to something else, also
\* when the host reads registers between its bytes.
WordsOnce ==
    [][/\ ~dmi.busy /\ dmi'.busy
              => ~taken /\ dmi'.request = sent.word /\ sent.n = Len(sent.word)
       /\ sent' # sent /\ sent.n > 0 /\ sent.n = Len(sent.word) => taken]_vars

\* What has arrived is not lost: a command is only read into the decoder, which
\* does not let go of it before each arbiter that it is for has taken it over.
CommandsTaken ==
    [][/\ rx.kind = "command" /\ rx' = NoItem =>
             decoder' = [state |-> "handover", cmd |-> rx.cmd, addr |-> rx.addr]
       /\ decoder.state = "handover" /\ decoder' # decoder =>
             /\ decoder' = [decoder EXCEPT !.state = "wait_ack"]
             /\ "write" \in HandsTo(decoder.cmd) => warb.cmd = decoder.cmd
             /\ "read" \in HandsTo(decoder.cmd) => decoder.cmd \in {rarb.cmd, rarb'.cmd}]_vars

\* A command or byte that arrives, also while the decoder waits with the command
\* before it, takes effect in the end: it is not lost, and the decoder and the two
\* arbiters do not wait for each other.
ItemsServed == CommandsTaken /\ (rx # NoItem ~> rx = NoItem /\ ~BUSY_O)

\* A register that is read once is answered, or the host resets the TAP.
ReadAnswered == reading = "once" ~> reading # "once"
=============================================================================
