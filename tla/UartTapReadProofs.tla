------------------------- MODULE UartTapReadProofs -------------------------
(***************************************************************************)
(* What UartTap promises to a host that reads: what it decodes as data is  *)
(* the next byte of the register it asked for, for any words, any IDCODE   *)
(* and any lengths of them.                                                *)
(***************************************************************************)
EXTENDS UartTapProofs

\* The host of the runs: it is not paused, ends a stream with a read, and sends no
\* reset that would be lost.
PlainReader == ~MayPause /\ ~ResetsEarly

-----------------------------------------------------------------------------
(* TX_Escape and UART_TX as a place for one byte.                          *)

\* What TX_Escape sends next: the escape byte or the byte behind it.
Current == IF send_esc THEN Esc ELSE data_buffer

\* A byte has been accepted and the host has not heard it.
Carries        == send_data /\ (send_esc \/ sending \/ buffered_tx_ready)
CarriesData    == Carries /\ ((send_esc \/ host_escaped) => data_buffer = Esc)
CarriesCommand == Carries /\ ~CarriesData

TxInv ==
    /\ send_esc \in BOOLEAN /\ send_data \in BOOLEAN /\ buffered_tx_ready \in BOOLEAN
    /\ write_o \in BOOLEAN /\ sending \in BOOLEAN /\ host_escaped \in BOOLEAN
    /\ pausing = FALSE
    /\ send_esc => send_data
    /\ sending => send_data /\ frame = Current
    /\ write_o => buffered_tx_ready /\ send_data /\ data_send_o = Current
    /\ send_esc => (host_escaped <=> ~sending /\ ~buffered_tx_ready)
    /\ ~Carries => ~host_escaped
    /\ Carries /\ ~send_esc /\ ~host_escaped => data_buffer # Esc

\* The frame that ends is the last of its byte.
Released(end) == sending /\ end /\ ~send_esc

LEMMA TxSteps ==
    ASSUME TxInv, NEW end \in BOOLEAN, UartTx(FALSE, end)
    PROVE  /\ pausing' = FALSE
           /\ ~sending => /\ host_escaped' = host_escaped
                          /\ IF write_o THEN sending' = TRUE /\ frame' = data_send_o
                             ELSE sending' = FALSE
           /\ sending => /\ end => ~write_o /\ ~buffered_tx_ready
                         /\ sending' = ~end /\ frame' = frame
                         /\ host_escaped' = IF end THEN ~host_escaped /\ frame = Esc
                                            ELSE host_escaped
<1>1. CASE sending
    BY <1>1 DEF UartTx, MayEnd, TxInv
<1>2. CASE ~sending
    <2>1. Idle(FALSE) /\ host_escaped' = host_escaped /\ pausing = FALSE
        BY <1>2 DEF UartTx, TxInv
    <2>2. CASE write_o
        BY <1>2, <2>1, <2>2, Zenon DEF Idle
    <2>3. CASE ~write_o
        <3>1. UNCHANGED uart_tx
            BY <2>1, <2>3, Zenon DEF Idle
        <3> QED
            BY <1>2, <2>1, <2>3, <3>1 DEF uart_tx, TxInv
    <2> QED
        BY <1>2, <2>1, <2>2, <2>3
<1> QED
    BY <1>1, <1>2

\* TX_READY_O is up when there is no byte, and a byte that the host has heard is
\* dropped at the next edge.
LEMMA TxReady ==
    ASSUME TxInv
    PROVE  /\ TX_READY_O <=> ~send_data
           /\ Carries => send_data
           /\ ~Carries /\ send_data => tx_done /\ ~send_esc
BY DEF TxInv, TX_READY_O, tx_ready, tx_done, Carries

\* The invariant and what happens to the byte, as one edge.
LEMMA TxEdge ==
    ASSUME TxInv, NEW cmd \in BOOLEAN, NEW wr \in BOOLEAN, NEW cb, NEW db,
           NEW end \in BOOLEAN, cmd => cb # Esc,
           Transmit(cmd, cb, wr, db, FALSE, end)
    PROVE  /\ TxInv'
           /\ Released(end) => Carries /\ ~Carries'
           /\ Carries /\ ~Released(end) =>
                 Carries' /\ data_buffer' = data_buffer /\ (CarriesData' <=> CarriesData)
           /\ ~Carries /\ send_data => ~send_data'
           /\ ~send_data /\ ~cmd /\ ~wr => ~send_data'
           /\ ~send_data /\ cmd => CarriesCommand'
           /\ ~send_data /\ wr /\ ~cmd => CarriesData' /\ data_buffer' = db
<1> DEFINE accepts == ~send_data /\ (cmd \/ wr)
<1>1. /\ buffered_tx_ready' = ~sending
      /\ data_buffer' = IF ~accepts THEN data_buffer ELSE IF cmd THEN cb ELSE db
      /\ send_data' = IF ~buffered_tx_ready /\ ~sending /\ ~send_esc /\ send_data THEN FALSE
                      ELSE send_data \/ accepts
      /\ send_esc' = IF ~buffered_tx_ready /\ ~sending /\ send_esc THEN FALSE
                     ELSE IF accepts THEN cmd \/ db = Esc ELSE send_esc
      /\ write_o' = (~sending /\ ~(~buffered_tx_ready /\ ~sending)
                     /\ (send_esc \/ send_data))
      /\ data_send_o' = IF send_esc THEN Esc ELSE data_buffer
    BY DEF Transmit, Escape, Accepts, escaped, tx_ready, tx_done
<1>2. /\ buffered_tx_ready' \in BOOLEAN /\ send_data' \in BOOLEAN
      /\ send_esc' \in BOOLEAN /\ write_o' \in BOOLEAN
      /\ buffered_tx_ready' <=> ~sending
      /\ send_data' <=> \/ send_data /\ (buffered_tx_ready \/ sending \/ send_esc)
                        \/ accepts
      /\ send_esc' <=> \/ send_esc /\ (buffered_tx_ready \/ sending)
                       \/ accepts /\ (cmd \/ db = Esc)
      /\ write_o' <=> ~sending /\ buffered_tx_ready /\ send_data
      /\ accepts => data_buffer' = IF cmd THEN cb ELSE db
      /\ ~accepts => data_buffer' = data_buffer
    BY <1>1 DEF TxInv
<1>3. data_send_o' = Current
    BY <1>1 DEF Current
<1>4. /\ pausing' = FALSE /\ sending' \in BOOLEAN /\ host_escaped' \in BOOLEAN
      /\ ~sending => /\ host_escaped' <=> host_escaped
                     /\ sending' <=> write_o
                     /\ write_o => frame' = Current
      /\ sending => /\ end => ~write_o /\ ~buffered_tx_ready
                    /\ sending' <=> ~end
                    /\ frame' = Current
                    /\ host_escaped' <=> IF end THEN ~host_escaped /\ Current = Esc
                                         ELSE host_escaped
    BY TxSteps DEF Transmit, TxInv
<1> HIDE DEF accepts
<1>5. CASE ~send_data
    BY <1>2, <1>3, <1>4, <1>5
       DEF accepts, TxInv, Current, Carries, CarriesData, CarriesCommand, Released
<1>6. CASE send_data /\ ~Carries
    BY <1>2, <1>3, <1>4, <1>6
       DEF accepts, TxInv, Current, Carries, CarriesData, CarriesCommand, Released
<1>7. ASSUME Carries
      PROVE  ~accepts /\ send_data
    BY <1>7 DEF accepts, Carries
<1>8. CASE Carries /\ ~sending
    BY <1>2, <1>3, <1>4, <1>7, <1>8 DEF TxInv, Current, Carries, CarriesData, CarriesCommand, Released
<1>9. CASE Carries /\ sending /\ ~end
    BY <1>2, <1>3, <1>4, <1>7, <1>9 DEF TxInv, Current, Carries, CarriesData, CarriesCommand, Released
<1>10. CASE Carries /\ sending /\ end
    BY <1>2, <1>3, <1>4, <1>7, <1>10 DEF TxInv, Current, Carries, CarriesData, CarriesCommand, Released
<1> QED
    BY <1>5, <1>6, <1>8, <1>9, <1>10 DEF Carries, TxInv

\* What the host decodes.
LEMMA TxHeard ==
    ASSUME TxInv, NEW end \in BOOLEAN
    PROVE  /\ ~Released(end) => Heard(end) = <<>>
           /\ Released(end) /\ CarriesData => Heard(end) = <<Data(data_buffer)>>
           /\ Released(end) /\ CarriesCommand =>
                 Heard(end) = <<>> \/ Heard(end) = <<Command(data_buffer)>>
<1>1. CASE ~(sending /\ end)
    BY <1>1 DEF Heard, Released
<1>2. CASE sending /\ end /\ send_esc
    <2>1. frame = Esc /\ ~host_escaped
        BY <1>2 DEF TxInv, Current
    <2> QED
        BY <1>2, <2>1 DEF Heard, Decoded, Released
<1>3. CASE Released(end)
    <2>1. Heard(end) = Decoded(data_buffer) /\ Carries
        BY <1>3 DEF Heard, Released, TxInv, Current, Carries
    <2>2. CASE host_escaped /\ data_buffer = Esc
        <3>1. Decoded(data_buffer) = <<Data(data_buffer)>>
            BY <2>2, TxPathAssumption, Zenon DEF Decoded
        <3> QED
            BY <1>3, <2>1, <2>2, <3>1 DEF CarriesCommand, CarriesData
    <2>3. CASE host_escaped /\ data_buffer # Esc
        <3>1. Decoded(data_buffer) = <<>> \/ Decoded(data_buffer) = <<Command(data_buffer)>>
            <4>1. CASE data_buffer = Resume
                BY <2>3, <4>1, Zenon DEF Decoded
            <4>2. CASE data_buffer # Resume
                BY <2>3, <4>2, Zenon DEF Decoded
            <4> QED
                BY <4>1, <4>2
        <3> QED
            BY <1>3, <2>1, <2>3, <3>1 DEF CarriesCommand, CarriesData
    <2>4. CASE ~host_escaped
        <3>1. data_buffer # Esc /\ CarriesData
            BY <1>3, <2>1, <2>4 DEF TxInv, Released, CarriesData
        <3> QED
            BY <1>3, <2>1, <2>4, <3>1 DEF Decoded, CarriesCommand
    <2> QED
        BY <2>2, <2>3, <2>4
<1> QED
    BY <1>1, <1>2, <1>3 DEF Released

-----------------------------------------------------------------------------
(* The serialisation of a register.                                        *)

\* The register that the host reads.
Register == IF asked = "ADDR_DMI" THEN dmi.resp ELSE IdCode
Last     == Len(Register)
From(n)  == SubSeq(Register, n, Last)

\* The bytes of it that TX_Escape has accepted since the serialiser was reset, and
\* the byte it carries.
Counted == IF byte_taken THEN ser.count + 1 ELSE ser.count
Carried == IF Counted = 0 THEN Last ELSE Counted

PendingRead == Pending("CMD_READ") \/ Pending("CMD_CONT_READ")

\* From a read until the host has heard its last byte.
Serving == Reading \/ CarriesData \/ PendingRead

\* Nothing stands in the way of a first read.
Unasked == Resting /\ ~send_data /\ ~rarb.ready

\* The read arbiter is at rest, or at its last register.
Finishing == Reading => rarb.cmd = "CMD_READ" /\ (ser.busy \/ ser.done)

\* The stream ends with the register that is sent.
Ending == /\ decoder.state = "handover" /\ decoder.cmd = "CMD_READ"
          /\ rarb.cmd = "CMD_CONT_READ" /\ ~rarb.ready
          /\ ser.busy \/ (ser.done /\ ~ser.reset)

\* What the read arbiter is at when a command comes to it.
PendingInv ==
    /\ rarb.send <=> rarb.ready
    /\ rarb.ready => BUSY_O
    /\ rarb.send => rarb.byte # Esc
    /\ rx.kind = "command" /\ rx.cmd # "CMD_WRITE" => rx.addr = asked
    /\ decoder.state = "handover" /\ decoder.cmd # "CMD_WRITE" => decoder.addr = asked
    /\ Pending("CMD_READ") =>
          \/ Unasked /\ reading = "once"
          \/ /\ rarb.cmd = "CMD_READ" /\ rarb.ready
             /\ reading = "ended" \/ (reading = "once" /\ ~ser.busy)
          \/ rarb.cmd = "CMD_CONT_READ" /\ ~rarb.ready /\ reading = "ended"
    /\ Pending("CMD_CONT_READ") =>
          /\ reading = "stream"
          /\ Unasked \/ (rarb.cmd = "CMD_CONT_READ" /\ rarb.ready /\ ~ser.busy)
    /\ Pending("CMD_RESET") => reading = "ended" /\ (Finishing \/ (held /\ Ending))

\* The decoder holds back the end of a stream, or a reset after the end of a read.
HeldInv == held => reading = "ended" /\ (Finishing \/ Ending)

\* What the host knows of the read arbiter.
HostInv ==
    /\ reading \in {"once", "stream", "ended", "nothing"}
    /\ rarb.cmd = "CMD_RESET" => reading = "ended"
    /\ reading = "nothing" =>
          Resting /\ ~Carries /\ ~rarb.ready /\ ~PendingRead /\ ~Pending("CMD_RESET")
    /\ reading = "once" =>
          /\ rarb.cmd # "CMD_CONT_READ"
          /\ ser.reset => Resting
          /\ CarriesData /\ Counted = 0 => Resting
          /\ rarb.ready => Reading /\ ~CarriesData
    /\ reading = "stream" =>
          rarb.cmd = "CMD_CONT_READ" \/ (Pending("CMD_CONT_READ") /\ Resting)
    /\ reading = "ended" /\ rarb.cmd = "CMD_CONT_READ" => Pending("CMD_READ")

\* The register does not change while it is read, and the reader is at rest
\* otherwise.
ServingInv ==
    /\ Serving => ~dmi.busy /\ Quiet /\ rx.kind # "data"
    /\ Reading => rarb.addr = asked /\ ser.length = Last
    /\ ~Reading => /\ ~rarb.read_ready /\ ~dmi.read_valid /\ valid_address = "ADDR_NOP"
                   /\ ~ser.busy /\ ~ser.run

\* The serialiser offers the bytes in their order, and TX_Escape carries a byte
\* whenever the serialiser is not ready for the end of a frame.
CountInv ==
    /\ Reading /\ ~ser.busy => Carries \/ (rarb.send /\ ~send_data)
    /\ ser.busy => ~ser.reset /\ (rarb.read_ready \/ latch.read_data = Register)
    /\ ser.busy /\ rarb.send => Carries
    /\ ser.busy /\ ~more => CarriesData
    /\ ser.done => CarriesData /\ ser.count = Last /\ (~Reading => ser.reset)
    /\ ser.write => /\ ser.busy /\ more /\ ~rarb.read_ready
                    /\ ser.byte = Register[ser.count + 1]
    /\ byte_taken => CarriesData /\ ~dmi.read_valid
    /\ ser.count > 0 => /\ ~rarb.read_ready /\ ~dmi.read_valid
                        /\ valid_address = "ADDR_NOP"

\* The host still expects the byte that TX_Escape carries and those behind it.
ReplyInv ==
    /\ CarriesCommand => Counted = 0
    /\ CarriesData => /\ Counted <= Last /\ data_buffer = Register[Carried]
                      /\ rest = IF Carried = 1 THEN <<>> ELSE From(Carried)
    /\ ~CarriesData => rest = IF Counted = 0 THEN <<>> ELSE From(Counted + 1)

ReadInv == TapInv /\ TxInv /\ PendingInv /\ HeldInv /\ HostInv /\ ServingInv /\ CountInv /\ ReplyInv

\* An edge of Next.
Edge(fin, end) == (HostSends(end) \/ HostListens(end)) /\ Clock(fin, end)

LEMMA Registers ==
    ASSUME TapTypes
    PROVE  /\ Register \in Words \cup {IdCode} /\ Register \in Seq(Bytes)
           /\ Last \in Nat \ {0} /\ get_read_length(asked) = Last
<1>1. CASE asked = "ADDR_DMI"
    BY <1>1, WordLengths DEF Register, Last, get_read_length, get_write_length, TapTypes
<1>2. CASE asked # "ADDR_DMI"
    BY <1>2, WordLengths DEF Register, Last, get_read_length, get_write_length
<1> QED
    BY <1>1, <1>2

\* The serialiser is counting, done, or at 0.
LEMMA Counting ==
    ASSUME ReadInv
    PROVE  /\ ser.count \in Nat /\ ser.length \in Nat
           /\ ser.busy => Reading /\ ~ser.done /\ ~ser.reset /\ ser.count <= Last
                          /\ ser.length = Last
           /\ ser.run => Reading
           /\ ser.write => ser.busy
           /\ ser.done => CarriesData /\ ser.count = Last /\ Last > 0
           /\ ~ser.busy /\ ~ser.done => ser.count = 0
           /\ ~Serving => ~ser.busy /\ ~ser.done /\ ser.count = 0 /\ ~ser.write /\ Counted = 0
           /\ Counted = (IF ser.write /\ send_data THEN ser.count + 1 ELSE ser.count)
           /\ ser.write /\ send_data => CarriesData
           /\ ~Announced /\ ~Moved
<1>1. /\ ser.count \in Nat /\ ser.length \in Nat
      /\ ser.busy \in BOOLEAN /\ ser.done \in BOOLEAN /\ ser.run \in BOOLEAN
      /\ ser.write \in BOOLEAN
    BY DEF ReadInv, TapInv, TapTypes
<1>2. /\ ser.busy => ~ser.done /\ ser.count <= ser.length
      /\ ~ser.busy /\ ~ser.done => ser.count = 0
    BY DEF ReadInv, TapInv, SerialiserInv
<1>3. (ser.busy \/ ser.run => Reading) /\ (Reading => ser.length = Last)
    BY DEF ReadInv, ServingInv
<1>4. /\ ser.busy => ~ser.reset
      /\ ser.write => ser.busy
      /\ ser.done => CarriesData /\ ser.count = Last
      /\ byte_taken => CarriesData
    BY DEF ReadInv, CountInv
<1>5. byte_taken <=> ser.write /\ send_data
    BY TxReady DEF ReadInv, byte_taken
<1>6. Last > 0
    BY Registers DEF ReadInv, TapInv
<1>7. ~Announced /\ ~Moved
    BY DEF ReadInv, ServingInv, Announced, Moved, Resting, Reading
<1>8. ~Serving => ~Reading /\ ~CarriesData
    BY DEF Serving
<1> QED
    BY <1>1, <1>2, <1>3, <1>4, <1>5, <1>6, <1>7, <1>8 DEF Counted

\* A command that the read arbiter accepts.
LEMMA Accepted ==
    ASSUME ReadInv, Accepting
    PROVE  /\ ~ser.busy /\ decoder.state = "handover" /\ decoder.addr = asked
           /\ decoder.cmd \in {"CMD_READ", "CMD_CONT_READ", "CMD_RESET"}
           /\ Pending(decoder.cmd)
<1>1. ~ser.busy /\ decoder.state = "handover" /\ "read" \in HandsTo(decoder.cmd)
    BY DEF Accepting, Valid
<1>2. decoder.cmd \in Commands
    BY <1>1 DEF ReadInv, TapInv, TapTypes, FlowInv, BUSY_O
<1>3. decoder.cmd # "CMD_WRITE"
    BY <1>1 DEF HandsTo
<1> QED
    BY <1>1, <1>2, <1>3 DEF ReadInv, PendingInv, Pending, Commands

-----------------------------------------------------------------------------
(* What an edge does, part by part.                                        *)

LEMMA EdgeParts ==
    ASSUME ReadInv, NEW fin \in BOOLEAN, NEW end \in BOOLEAN, Edge(fin, end)
    PROVE  /\ Next /\ TapTypes /\ TapInv' /\ asked \in Addresses
           /\ Decoder /\ ReadInterconnect /\ ReadArbiter /\ Serialiser /\ DmiEnd(fin)
           /\ end => Steady
<1>1. Next
    BY DEF Edge, Next
<1>2. TapInv'
    BY <1>1, TapInvStep DEF ReadInv
<1> QED
    BY <1>1, <1>2 DEF Edge, Clock, ReadInv, TapInv, TapTypes

LEMMA EdgeExists ==
    ASSUME Next
    PROVE  \E fin, end \in BOOLEAN : Edge(fin, end)
BY DEF Next, Edge

LEMMA ArbiterEdge ==
    ASSUME ReadInv, NEW fin \in BOOLEAN, NEW end \in BOOLEAN, Edge(fin, end)
    PROVE  /\ rarb'.ready <=> Accepting
           /\ rarb'.send <=> Accepting
           /\ rarb'.send => rarb'.byte # Esc
           /\ rarb'.cmd = IF rarb.cmd = "CMD_RESET" \/ (rarb.cmd = "CMD_READ" /\ ser.done)
                          THEN "CMD_NOP"
                          ELSE IF Accepting THEN decoder.cmd ELSE rarb.cmd
           /\ rarb'.addr = IF Accepting THEN asked ELSE rarb.addr
           /\ rarb'.read_ready <=> ~ser.done /\ ~ser.busy /\ Reading
<1>1. ReadArbiter /\ TapTypes
    BY EdgeParts
<1>2. ~Announced /\ ~Moved
    BY Counting
<1>3. read_address_d = IF Accepting THEN asked ELSE rarb.addr
    BY <1>2, Accepted DEF read_address_d
<1>4. Accepting => AddressByte[asked] # Esc
    BY <1>1, UartTapAssumption DEF AddressByte, TapTypes
<1>5. Accepting \in BOOLEAN /\ Reading \in BOOLEAN
    BY DEF Accepting, Reading
<1>6. rarb' = [ready |-> Accepting, cmd |-> read_command_d, addr |-> read_address_d,
               send |-> Accepting \/ Moved,
               byte |-> IF Accepting \/ Moved THEN AddressByte[read_address_d] ELSE Resume,
               read_ready |-> ~ser.done /\ ~ser.busy /\ (Reading \/ (Announced /\ ~Moved))]
    BY <1>1 DEF ReadArbiter
<1> QED
    BY <1>2, <1>3, <1>4, <1>5, <1>6 DEF read_command_d

LEMMA SerialiserEdge ==
    ASSUME ReadInv, NEW fin \in BOOLEAN, NEW end \in BOOLEAN, Edge(fin, end)
    PROVE  /\ ser'.run => ~ser.done /\ Reading
           /\ ser'.reset <=> rarb.cmd = "CMD_RESET" \/ (ser.done /\ Reading)
           /\ ser'.length = IF Accepting THEN Last ELSE ser.length
           /\ ser.reset => ser'.count = 0 /\ ~ser'.busy /\ ~ser'.done /\ ~ser'.write
           /\ ~ser.reset =>
                 /\ ser'.busy <=> (ser.busy /\ more) \/ (~ser.busy /\ ser.run /\ ~ser.done)
                 /\ ser'.done <=> ser.done \/ (ser.busy /\ ~more)
                 /\ ser'.count = IF ser.write /\ send_data THEN ser.count + 1 ELSE ser.count
                 /\ ser'.write <=> ser.busy /\ more /\ ~send_data
           /\ ser'.write => ser'.byte = Register[ser.count + 1]
           /\ ser.busy => latch'.read_data = Register
           /\ dmi'.read_valid => rarb.read_ready
           /\ valid_address' = IF dmi.read_valid THEN "ADDR_DMI" ELSE "ADDR_NOP"
<1>1. /\ Serialiser /\ ReadInterconnect /\ DmiEnd(fin) /\ TapTypes
      /\ asked \in Addresses
    BY EdgeParts
<1>2. ~Announced /\ ~Moved
    BY Counting
<1>3. Accepting => read_address_d = asked
    BY <1>2, Accepted DEF read_address_d
<1>4. get_read_length(asked) = Last
    BY <1>1, Registers
<1>5. byte_taken <=> ser.write /\ send_data
    BY TxReady DEF ReadInv, byte_taken
<1>6. ser.write => ser.busy /\ more
    BY DEF ReadInv, CountInv
<1>7. TX_READY_O <=> ~send_data
    BY TxReady DEF ReadInv
<1>8. ser.run \in BOOLEAN /\ ser.busy \in BOOLEAN /\ ser.done \in BOOLEAN /\ ser.write \in BOOLEAN
    BY <1>1 DEF TapTypes
<1>9. ser.busy => READ_DATA_O = Register /\ ser.length = Last /\ ~ser.done
    <2> SUFFICES ASSUME ser.busy
                 PROVE  READ_DATA_O = Register /\ ser.length = Last /\ ~ser.done
        OBVIOUS
    <2>1. Reading /\ ser.length = Last /\ ~ser.done
        BY Counting
    <2>2. rarb.addr = asked
        BY <2>1 DEF ReadInv, ServingInv
    <2>3. rarb.read_ready \/ latch.read_data = Register
        BY DEF ReadInv, CountInv
    <2> QED
        BY <2>1, <2>2, <2>3 DEF READ_DATA_O, Register
<1>10. latch'.read_data = READ_DATA_O
      /\ valid_address' = IF dmi.read_valid THEN "ADDR_DMI" ELSE "ADDR_NOP"
    BY <1>1 DEF ReadInterconnect
<1>11. dmi'.read_valid => rarb.read_ready
    BY <1>1, DmiSteps
<1>12. /\ ser'.run = ser_run_d /\ ser'.reset = ser_reset_d
       /\ ser'.length = IF Accepting THEN Last ELSE ser.length
    BY <1>1, <1>2, <1>3, <1>4, SerialiserSteps
<1>13. /\ ser'.run => ~ser.done /\ Reading
       /\ ser'.reset <=> rarb.cmd = "CMD_RESET" \/ (ser.done /\ Reading)
    BY <1>2, <1>12 DEF ser_run_d, ser_reset_d
<1>14. CASE ser.reset
    BY <1>1, <1>9, <1>10, <1>11, <1>12, <1>13, <1>14, SerialiserSteps
<1>15. CASE ~ser.reset
    <2>1. /\ ser'.busy = ((ser.busy \/ (ser.run /\ ~ser.done)) /\ (ser.busy => more))
          /\ ser'.done = (ser.done \/ (ser.busy /\ ~more))
          /\ ser'.count = IF ser.busy /\ more /\ byte_taken THEN ser.count + 1 ELSE ser.count
          /\ ser'.byte = IF more /\ ser.count < Len(READ_DATA_O)
                         THEN READ_DATA_O[ser.count + 1] ELSE Resume
          /\ ser'.write = (ser.busy /\ more /\ TX_READY_O)
        BY <1>1, <1>15, SerialiserSteps
    <2>2. ser'.busy <=> (ser.busy /\ more) \/ (~ser.busy /\ ser.run /\ ~ser.done)
        BY <1>8, <1>9, <2>1
    <2>3. ser'.done <=> ser.done \/ (ser.busy /\ ~more)
        BY <1>8, <2>1
    <2>4. ser'.count = IF ser.write /\ send_data THEN ser.count + 1 ELSE ser.count
        BY <1>5, <1>6, <2>1
    <2>5. ser'.write <=> ser.busy /\ more /\ ~send_data
        BY <1>7, <1>8, <2>1
    <2>6. ser'.write => ser'.byte = Register[ser.count + 1]
        BY <1>9, <2>1, <2>5 DEF more, Last
    <2> QED
        BY <1>9, <1>10, <1>11, <1>12, <1>13, <1>15, <2>2, <2>3, <2>4, <2>5, <2>6
<1> QED
    BY <1>14, <1>15

LEMMA TransmitEdge ==
    ASSUME PlainReader, ReadInv,
           NEW fin \in BOOLEAN, NEW end \in BOOLEAN, Edge(fin, end)
    PROVE  /\ TxInv'
           /\ Released(end) => Carries /\ ~Carries' /\ Steady
           /\ Carries /\ ~Released(end) =>
                 Carries' /\ data_buffer' = data_buffer /\ (CarriesData' <=> CarriesData)
           /\ ~Carries /\ send_data => ~send_data'
           /\ ~send_data /\ ~rarb.send /\ ~ser.write => ~send_data'
           /\ ~send_data /\ rarb.send => CarriesCommand'
           /\ ~send_data /\ ser.write /\ ~rarb.send => CarriesData' /\ data_buffer' = ser.byte
           /\ Carries => send_data
<1>1. TapTypes /\ TxInv /\ (end => Steady)
    BY EdgeParts DEF ReadInv
<1>2. \E pause \in {FALSE, MayPause} :
          Transmit(rarb.send, rarb.byte, ser.write, ser.byte, pause, end)
    BY DEF Edge, Clock
<1>3. Transmit(rarb.send, rarb.byte, ser.write, ser.byte, FALSE, end)
    BY <1>2, UartTapAssumption DEF PlainReader
<1>4. rarb.send \in BOOLEAN /\ ser.write \in BOOLEAN
    BY <1>1 DEF TapTypes
<1>5. rarb.send => rarb.byte # Esc
    BY DEF ReadInv, PendingInv
<1>6. Released(end) => Steady
    BY <1>1 DEF Released
<1>7. Carries => send_data
    BY <1>1, TxReady
<1> QED
    BY <1>1, <1>3, <1>4, <1>5, <1>6, <1>7, TxEdge

-----------------------------------------------------------------------------
(* The host at an edge, as far as reads are concerned.                     *)

HearsData(end) == Released(end) /\ CarriesData

\* The end of a sequence from n on is its n-th element and the end from n + 1 on.
LEMMA SuffixUncons ==
    ASSUME NEW S, NEW r \in Seq(S), NEW n \in 1 .. Len(r)
    PROVE  /\ Head(SubSeq(r, n, Len(r))) = r[n]
           /\ Tail(SubSeq(r, n, Len(r))) = SubSeq(r, n + 1, Len(r))
<1> DEFINE l == Len(r)
           s == SubSeq(r, n, l)
           t == SubSeq(r, n + 1, l)
<1>1. l \in Nat /\ n \in Nat /\ l - n \in Nat /\ (l - n) + 1 \in Nat
    OBVIOUS
<1>2. /\ s \in Seq(S) /\ Len(s) = (l - n) + 1
      /\ \A i \in 1 .. (l - n) + 1 : s[i] = r[n + i - 1]
    <2>1. s \in Seq(S)
        BY <1>1
    <2>2. Len(s) = (l - n) + 1
        BY <1>1
    <2>3. \A i \in 1 .. (l - n) + 1 : s[i] = r[n + i - 1]
        BY <1>1
    <2> QED
        BY <2>1, <2>2, <2>3
<1>3. t \in Seq(S) /\ Len(t) = l - n
    <2>1. CASE n = l
        BY <2>1
    <2>2. CASE n < l
        BY <2>2
    <2> QED
        BY <1>1, <2>1, <2>2
<1>4. \A i \in 1 .. l - n : t[i] = r[n + i]
    <2> TAKE i \in 1 .. l - n
    <2>1. n < l /\ n + 1 \in 1 .. l /\ (n + 1) + i - 1 = n + i
        BY <1>1
    <2> QED
        BY <2>1
<1> HIDE DEF l, s, t
<1>5. s # <<>> /\ s[1] = r[n] /\ Head(s) = s[1]
    <2>1. Len(s) # 0
        BY <1>1, <1>2
    <2>2. s # <<>>
        BY <2>1
    <2>3. s[1] = r[n]
        <3>1. 1 \in 1 .. (l - n) + 1 /\ n + 1 - 1 = n
            BY <1>1
        <3> QED
            BY <1>2, <3>1
    <2> QED
        BY <1>2, <2>2, <2>3
<1>6. Tail(s) \in Seq(S) /\ Len(Tail(s)) = l - n
    BY <1>1, <1>2, <1>5
<1>7. \A i \in 1 .. l - n : Tail(s)[i] = t[i]
    <2> TAKE i \in 1 .. l - n
    <2>1. Tail(s)[i] = s[i + 1] /\ i + 1 \in 1 .. (l - n) + 1
        BY <1>1, <1>2, <1>5
    <2>2. n + (i + 1) - 1 = n + i
        BY <1>1
    <2> QED
        BY <1>2, <1>4, <2>1, <2>2
<1>8. Tail(s) = t
    BY <1>3, <1>6, <1>7
<1> QED
    BY <1>5, <1>8 DEF l, s, t

\* What the host expects is the byte carried and those behind it.
LEMMA Remaining ==
    ASSUME ReadInv, CarriesData
    PROVE  /\ Carried \in 1 .. Last
           /\ Head(Expected) = data_buffer
           /\ Tail(Expected) = From(Carried + 1)
           /\ From(Carried + 1) = <<>> <=> Carried = Last
           /\ Carried = (IF Counted = 0 THEN Last ELSE Counted)
           /\ From(Last + 1) = <<>>
<1>1. Register \in Seq(Bytes) /\ Last \in Nat \ {0} /\ Last = Len(Register)
    BY Registers DEF ReadInv, TapInv, Last
<1>2. Counted \in Nat
    BY Counting
<1>3. /\ Counted <= Last /\ data_buffer = Register[Carried]
      /\ rest = IF Carried = 1 THEN <<>> ELSE From(Carried)
    BY DEF ReadInv, ReplyInv
<1>4. Carried \in 1 .. Last
    BY <1>1, <1>2, <1>3 DEF Carried
<1>5. \A n \in 1 .. Last : /\ From(n) \in Seq(Bytes) /\ Len(From(n)) = Last - n + 1
                           /\ \A i \in 1 .. Last - n + 1 : From(n)[i] = Register[n + i - 1]
    <2> TAKE n \in 1 .. Last
    <2>1. n \in Nat /\ Last \in Nat /\ From(n) = SubSeq(Register, n, Last)
        BY <1>1 DEF From
    <2> QED
        BY <1>1, <2>1
<1>6. From(Last + 1) = <<>>
    BY <1>1 DEF From
<1>7. \A n \in 1 .. Last : Head(From(n)) = Register[n] /\ Tail(From(n)) = From(n + 1)
    <2> TAKE n \in 1 .. Last
    <2>1. n \in 1 .. Len(Register) /\ From(n) = SubSeq(Register, n, Len(Register))
          /\ From(n + 1) = SubSeq(Register, n + 1, Len(Register))
        BY <1>1 DEF From
    <2> QED
        BY <1>1, <2>1, SuffixUncons
<1>8. From(1) = Register
    BY <1>1 DEF From
<1>9. Expected = From(Carried)
    <2>1. Expected = IF rest # <<>> THEN rest ELSE Register
        BY DEF Expected, Register
    <2>2. From(Carried) # <<>>
        BY <1>1, <1>4, <1>5
    <2> QED
        BY <1>3, <1>8, <2>1, <2>2
<1>10. From(Carried + 1) = <<>> <=> Carried = Last
    BY <1>1, <1>4, <1>5, <1>6
<1> QED
    BY <1>3, <1>4, <1>6, <1>7, <1>9, <1>10 DEF Carried

\* The host hears data when the frame ends that carries it.
LEMMA HearsBytes ==
    ASSUME ReadInv, NEW end \in BOOLEAN
    PROVE  HeardByte(end) <=> HearsData(end)
<1>1. TxInv
    BY DEF ReadInv
<1>2. CASE HearsData(end)
    <2>1. Heard(end) = <<Data(data_buffer)>>
        BY <1>1, <1>2, TxHeard DEF HearsData
    <2>2. Head(Expected) = data_buffer
        BY <1>2, Remaining DEF HearsData
    <2> QED
        BY <1>2, <2>1, <2>2 DEF HeardByte, Data
<1>3. CASE ~HearsData(end)
    <2>1. Heard(end) = <<>> \/ Heard(end) = <<Command(data_buffer)>>
        <3>1. Released(end) => Carries
            BY <1>1 DEF Released, TxInv, Carries
        <3> QED
            BY <1>1, <1>3, <3>1, TxHeard DEF HearsData, CarriesCommand
    <2> QED
        BY <1>3, <2>1 DEF HeardByte, Command
<1> QED
    BY <1>2, <1>3

\* It listens, and may send a reset behind a command that is held back; or it
\* reads, ends what it reads, or goes on with a word.
ResetBehind == held /\ rx = NoItem /\ IsReset(rx') /\ rx'.addr = asked

Listening(end) ==
    /\ rx' = NoItem \/ rx' = rx \/ ResetBehind
    /\ asked' = asked
    /\ IF HearsData(end)
       THEN /\ rest' = Tail(Expected)
            /\ reading' = IF rest' = <<>> /\ reading = "once" THEN "nothing" ELSE reading
       ELSE rest' = rest /\ reading' = reading

NewCommand(c) == rx'.kind = "command" /\ rx'.cmd = c /\ rx'.addr = asked'

NewRead ==
    /\ ReadsNothing /\ ~dmi.busy
    /\ \/ NewCommand("CMD_READ") /\ reading' = "once"
       \/ NewCommand("CMD_CONT_READ") /\ reading' = "stream"

NewEnd ==
    /\ asked' = asked /\ reading' = "ended"
    /\ \/ reading = "stream" /\ NewCommand("CMD_READ")
       \/ reading # "stream" /\ NewCommand("CMD_RESET")

NewWord ==
    /\ ReadsNothing /\ asked' = asked /\ reading' = reading
    /\ rx'.kind = "command" => rx'.cmd = "CMD_WRITE"

Sending(end) ==
    /\ Settled /\ ~BUSY_O /\ ~HearsData(end) /\ rest' = rest
    /\ NewRead \/ NewEnd \/ NewWord

LEMMA HostEdge ==
    ASSUME PlainReader, ReadInv, NEW fin \in BOOLEAN, NEW end \in BOOLEAN, Edge(fin, end)
    PROVE  Listening(end) \/ Sending(end)
<1>1. HeardByte(end) <=> HearsData(end)
    BY HearsBytes
<1>2. CASE HostListens(end)
    BY <1>1, <1>2 DEF HostListens, Listens, Listening
<1>3. CASE HostSends(end)
    <2>1. Settled /\ ~HearsData(end)
        BY <1>1, <1>3 DEF HostSends
    <2>2. ASSUME NEW c \in {"CMD_READ", "CMD_CONT_READ"}, NEW a \in Addresses,
                 SendsRead(c, a), ~BUSY_O
          PROVE  Sending(end)
        BY <2>1, <2>2 DEF SendsRead, Sends, CommandItem, Sending, NewRead, NewCommand
    <2>3. CASE SendsEnd /\ ~BUSY_O
        BY <2>1, <2>3 DEF SendsEnd, Sends, CommandItem, Sending, NewEnd, NewCommand
    <2>4. CASE SendsReset
        <3>1. reading # "stream"
            BY <2>4 DEF SendsReset, PlainReader
        <3>2. CASE ~BUSY_O
            BY <2>1, <2>4, <3>1, <3>2
               DEF SendsReset, Sends, CommandItem, Sending, NewEnd, NewCommand
        <3>3. CASE BUSY_O
            <4>1. held /\ rx = NoItem /\ reading = "ended"
                BY <2>1, <3>3 DEF Settled, ReadInv, HeldInv
            <4> QED
                BY <2>1, <2>4, <4>1
                   DEF SendsReset, Sends, CommandItem, Listening, ResetBehind, IsReset
        <3> QED
            BY <3>2, <3>3
    <2>5. ASSUME NEW w \in Words, SendsWrite(w), ~BUSY_O PROVE Sending(end)
        BY <2>1, <2>5 DEF SendsWrite, Sends, CommandItem, Sending, NewWord
    <2>6. CASE SendsByte /\ ~BUSY_O
        BY <2>1, <2>6 DEF SendsByte, Sends, DataItem, Sending, NewWord
    <2> QED
        BY <1>3, <2>2, <2>3, <2>4, <2>5, <2>6 DEF HostSends, SendsNext
<1> QED
    BY <1>2, <1>3 DEF Edge

\* A host that reads nothing finds the reader at rest.
LEMMA ReaderAtRest ==
    ASSUME ReadInv, Settled, ~BUSY_O, ReadsNothing
    PROVE  Resting /\ ~Carries /\ ~rarb.ready /\ ~Serving
<1>1. ~PendingRead /\ ~rarb.ready
    BY DEF Settled, PendingRead, Pending, BUSY_O, NoItem, ReadInv, PendingInv
<1>2. Resting /\ ~Carries
    BY DEF ReadsNothing, Silent, ReadInv, HostInv, Carries
<1> QED
    BY <1>1, <1>2 DEF Serving, Resting, Reading, CarriesData

\* While it reads, the register stays as it is.
LEMMA RegisterKept ==
    ASSUME PlainReader, ReadInv, Serving,
           NEW fin \in BOOLEAN, NEW end \in BOOLEAN, Edge(fin, end)
    PROVE  /\ asked' = asked /\ dmi'.resp = dmi.resp
           /\ Register' = Register /\ Last' = Last
           /\ \A n : From(n)' = From(n)
           /\ ~NewRead \/ ~Settled \/ BUSY_O
<1>1. ~dmi.busy
    BY DEF ReadInv, ServingInv
<1>2. dmi'.resp = dmi.resp
    BY <1>1, EdgeParts, DmiSteps
<1>3. ~(Settled /\ ~BUSY_O /\ ReadsNothing)
    BY ReaderAtRest
<1>4. asked' = asked
    BY <1>3, HostEdge DEF Listening, Sending, NewRead, NewEnd, NewWord
<1>5. Register' = Register
    BY <1>2, <1>4 DEF Register
<1> QED
    BY <1>2, <1>3, <1>4, <1>5 DEF Last, From, NewRead

-----------------------------------------------------------------------------
(* The serialiser at an edge.                                              *)

\* When a frame can end.
LEMMA FrameEnds ==
    ASSUME PlainReader, ReadInv, NEW fin \in BOOLEAN, NEW end \in BOOLEAN, Edge(fin, end),
           Released(end)
    PROVE  /\ ~ser.write
           /\ ser.busy => more
           /\ ~ser.busy => ~Reading
<1>1. Steady
    BY TransmitEdge
<1>2. Reading => ~dmi.busy
    BY DEF ReadInv, ServingInv, Serving
<1> QED
    BY <1>1, <1>2, Counting DEF Steady, more

\* A read that has begun keeps TX_Escape loaded until the serialiser is busy.
LEMMA LoadedUntilBusy ==
    ASSUME PlainReader, ReadInv, NEW fin \in BOOLEAN, NEW end \in BOOLEAN, Edge(fin, end),
           Reading, ~ser.busy
    PROVE  Carries'
<1>1. ~Released(end)
    BY FrameEnds
<1>2. Carries \/ (rarb.send /\ ~send_data)
    BY DEF ReadInv, CountInv
<1> QED
    BY <1>1, <1>2, TransmitEdge DEF CarriesCommand

\* A command that begins a read.
LEMMA ReadBegins ==
    ASSUME PlainReader, ReadInv, NEW fin \in BOOLEAN, NEW end \in BOOLEAN, Edge(fin, end),
           ~Reading, Reading'
    PROVE  /\ Accepting /\ Unasked /\ PendingRead
           /\ rarb'.send /\ ~send_data'
<1>1. Accepting /\ decoder.cmd \in {"CMD_READ", "CMD_CONT_READ"}
    BY ArbiterEdge, Accepted DEF Reading
<1>2. PendingRead
    BY <1>1, Accepted DEF PendingRead
<1>3. Unasked
    BY <1>2 DEF PendingRead, ReadInv, PendingInv, Reading
<1>4. ~send_data /\ ~rarb.send /\ ~ser.write
    BY <1>3, Counting DEF Unasked, ReadInv, PendingInv
<1> QED
    BY <1>1, <1>2, <1>3, <1>4, ArbiterEdge, TransmitEdge

\* A read ends when the serialiser is done.
LEMMA ReadEnds ==
    ASSUME PlainReader, ReadInv, NEW fin \in BOOLEAN, NEW end \in BOOLEAN, Edge(fin, end),
           Reading, ~Reading'
    PROVE  ser.done /\ rarb.cmd = "CMD_READ" /\ rarb'.cmd = "CMD_NOP"
<1>1. CASE rarb.cmd = "CMD_READ" /\ ser.done
    BY <1>1, ArbiterEdge
<1>2. CASE ~(rarb.cmd = "CMD_READ" /\ ser.done)
    <2>1. Accepting /\ decoder.cmd = "CMD_RESET"
        BY <1>2, ArbiterEdge, Accepted DEF Reading
    <2>2. Pending("CMD_RESET") /\ ~ser.busy
        BY <2>1, Accepted
    <2> QED
        BY <1>2, <2>1, <2>2 DEF ReadInv, PendingInv, Finishing, Ending
<1> QED
    BY <1>1, <1>2

LEMMA CountStep ==
    ASSUME PlainReader, ReadInv, NEW fin \in BOOLEAN, NEW end \in BOOLEAN, Edge(fin, end)
    PROVE  CountInv'
<1>1. CountInv /\ TxInv'
    BY TransmitEdge DEF ReadInv
<1>2. Serving => Register' = Register /\ Last' = Last
    BY RegisterKept
<1>3. Reading => Serving
    BY DEF Serving
<1>4. Last > 0
    BY EdgeParts, Registers
<1>5. Reading' /\ ~ser'.busy => Carries' \/ (rarb'.send /\ ~send_data')
    <2> SUFFICES ASSUME Reading', ~ser'.busy, ~(rarb'.send /\ ~send_data')
                 PROVE  Carries'
        OBVIOUS
    <2>1. Reading
        BY ReadBegins
    <2>2. CASE ser.busy
        <3>1. ~more /\ CarriesData
            BY <1>1, <2>2, SerialiserEdge, Counting DEF CountInv
        <3> QED
            BY <2>2, <3>1, FrameEnds, TransmitEdge DEF CarriesData
    <2> QED
        BY <2>1, <2>2, LoadedUntilBusy
<1>6. ser'.busy => Reading /\ ~ser.done /\ ~ser.reset
    BY SerialiserEdge, Counting
<1>7. ser'.busy => ~ser'.reset /\ (rarb'.read_ready \/ latch'.read_data = Register')
    <2> SUFFICES ASSUME ser'.busy
                 PROVE  ~ser'.reset /\ (rarb'.read_ready \/ latch'.read_data = Register')
        OBVIOUS
    <2>1. ~ser'.reset
        BY <1>6, SerialiserEdge DEF Reading
    <2>2. CASE ser.busy
        BY <1>2, <1>3, <1>6, <2>1, <2>2, SerialiserEdge
    <2>3. CASE ~ser.busy
        BY <1>6, <2>1, <2>3, ArbiterEdge
    <2> QED
        BY <2>2, <2>3
<1>8. ser'.busy /\ rarb'.send => Carries'
    BY <1>6, ArbiterEdge, Accepted, LoadedUntilBusy
<1>9. ser.busy /\ ser'.busy => more /\ ser'.length = ser.length
    BY <1>6, SerialiserEdge, Accepted
<1>10. ser'.busy /\ ~more' => CarriesData'
    <2> SUFFICES ASSUME ser'.busy, ~more' PROVE CarriesData'
        OBVIOUS
    <2>1. CASE ser.busy
        <3>1. ser.write /\ send_data
            BY <1>6, <1>9, <2>1, SerialiserEdge DEF more
        <3>2. CarriesData /\ ~Released(end)
            BY <3>1, Counting, FrameEnds
        <3> QED
            BY <3>2, TransmitEdge DEF CarriesData
    <2>2. CASE ~ser.busy
        <3>1. ser'.count = 0
            BY <1>6, <2>2, SerialiserEdge, Counting
        <3>2. ser'.length = Last
            BY <1>6, SerialiserEdge DEF ReadInv, ServingInv
        <3> QED
            BY <1>4, <3>1, <3>2 DEF more
    <2> QED
        BY <2>1, <2>2
<1>11. ser'.done => CarriesData' /\ ser'.count = Last' /\ (~Reading' => ser'.reset)
    <2> SUFFICES ASSUME ser'.done
                 PROVE  CarriesData' /\ ser'.count = Last' /\ (~Reading' => ser'.reset)
        OBVIOUS
    <2>1. ~ser.reset /\ (ser.done \/ (ser.busy /\ ~more))
        BY SerialiserEdge
    <2>2. Reading /\ CarriesData /\ ser.count = Last
        <3>1. CASE ser.done
            BY <1>1, <2>1, <3>1, Counting DEF CountInv
        <3>2. CASE ser.busy /\ ~more
            BY <1>1, <3>2, Counting DEF CountInv, more
        <3> QED
            BY <2>1, <3>1, <3>2
    <2>3. ~ser.write
        BY <1>1, <2>1, Counting DEF CountInv
    <2>4. ~Released(end)
        BY <2>1, <2>2, FrameEnds, Counting
    <2>5. CarriesData' /\ ser'.count = Last'
        BY <1>2, <1>3, <2>1, <2>2, <2>3, <2>4, SerialiserEdge, TransmitEdge DEF CarriesData
    <2>6. ~Reading' => ser'.reset
        BY <2>2, ReadEnds, SerialiserEdge
    <2> QED
        BY <2>5, <2>6
<1>12. ser'.write => ser.busy /\ more /\ ~send_data /\ ~ser.reset
    BY SerialiserEdge
<1>13. ser'.write => /\ ser'.busy /\ more' /\ ~rarb'.read_ready
                     /\ ser'.byte = Register'[ser'.count + 1]
    <2> SUFFICES ASSUME ser'.write
                 PROVE  /\ ser'.busy /\ more' /\ ~rarb'.read_ready
                        /\ ser'.byte = Register'[ser'.count + 1]
        OBVIOUS
    <2>1. ser'.busy /\ ser'.count = ser.count /\ ~rarb'.read_ready
        BY <1>12, SerialiserEdge, ArbiterEdge
    <2>2. more'
        BY <1>9, <1>12, <2>1 DEF more
    <2>3. Register' = Register
        BY <1>2, <1>3, <1>12, Counting
    <2> QED
        BY <2>1, <2>2, <2>3, SerialiserEdge
<1>14. byte_taken' => CarriesData' /\ ~dmi'.read_valid
    <2> SUFFICES ASSUME byte_taken' PROVE CarriesData' /\ ~dmi'.read_valid
        OBVIOUS
    <2>1. ser'.write /\ send_data'
        BY <1>1 DEF byte_taken, TX_READY_O, tx_ready, TxInv
    <2>2. ser.busy /\ ~send_data /\ ~rarb.send
        BY <1>1, <1>12, <2>1, TransmitEdge DEF CountInv
    <2>3. ser.write /\ CarriesData'
        BY <2>1, <2>2, TransmitEdge
    <2> QED
        BY <1>1, <2>3, SerialiserEdge DEF CountInv
<1>15. ser'.count > 0 => /\ ~rarb'.read_ready /\ ~dmi'.read_valid
                         /\ valid_address' = "ADDR_NOP"
    <2> SUFFICES ASSUME ser'.count > 0
                 PROVE  /\ ~rarb'.read_ready /\ ~dmi'.read_valid
                        /\ valid_address' = "ADDR_NOP"
        OBVIOUS
    <2>1. ser.count > 0 \/ (ser.write /\ send_data)
        BY SerialiserEdge, Counting
    <2>2. ~rarb.read_ready /\ ~dmi.read_valid
        <3>1. ser.write /\ send_data => byte_taken
            BY TxReady DEF ReadInv, byte_taken
        <3> QED
            BY <1>1, <2>1, <3>1 DEF CountInv
    <2>3. ser.busy \/ ser.done
        BY <2>1, Counting
    <2> QED
        BY <2>2, <2>3, ArbiterEdge, SerialiserEdge
<1> QED
    BY <1>5, <1>7, <1>8, <1>10, <1>11, <1>13, <1>14, <1>15 DEF CountInv

-----------------------------------------------------------------------------
(* The reply at an edge.                                                   *)

\* How TX_Escape comes to carry another byte.
LEMMA LoadsByte ==
    ASSUME PlainReader, ReadInv, NEW fin \in BOOLEAN, NEW end \in BOOLEAN, Edge(fin, end),
           ~Carries \/ Released(end), Carries'
    PROVE  /\ ~send_data
           /\ CarriesCommand' => rarb.send /\ ~ser.busy
           /\ CarriesData' => ser.write /\ data_buffer' = ser.byte
<1>1. ~send_data
    BY TransmitEdge DEF Carries
<1>2. rarb.send => CarriesCommand' /\ ~ser.busy
    BY <1>1, TransmitEdge DEF ReadInv, CountInv
<1>3. ~rarb.send => ser.write /\ CarriesData' /\ data_buffer' = ser.byte
    BY <1>1, TransmitEdge DEF Carries
<1> QED
    BY <1>1, <1>2, <1>3 DEF CarriesCommand

\* What the host has to hear still, when no byte of a register is carried.
LEMMA HostWaits ==
    ASSUME PlainReader, ReadInv, NEW fin \in BOOLEAN, NEW end \in BOOLEAN, Edge(fin, end),
           ~HearsData(end)
    PROVE  rest' = rest
BY HostEdge DEF Listening, Sending

\* The bytes counted after an edge.
LEMMA CountedEdge ==
    ASSUME PlainReader, ReadInv, NEW fin \in BOOLEAN, NEW end \in BOOLEAN, Edge(fin, end)
    PROVE  /\ ser'.write /\ Carries' =>
                 ser.busy /\ more /\ ~send_data /\ CarriesData' /\ Counted' = ser.count + 1
           /\ ~(ser'.write /\ Carries') => Counted' = ser'.count
           /\ ser'.count = IF ser.reset THEN 0 ELSE Counted
           /\ ser.reset => Counted = 0 \/ Counted = Last
           /\ Counted \in Nat
<1>1. CountInv' /\ TxInv' /\ ReadInv
    BY CountStep, TransmitEdge
<1>2. byte_taken' <=> ser'.write /\ send_data'
    BY <1>1 DEF byte_taken, TX_READY_O, tx_ready, TxInv
<1>3. ser'.write => ser.busy /\ more /\ ~send_data /\ ~ser.reset
    BY SerialiserEdge
<1>4. ~send_data /\ send_data' => Carries'
    <2>1. ~send_data => rarb.send \/ ser.write \/ ~send_data'
        BY TransmitEdge
    <2> QED
        BY <2>1, TransmitEdge DEF CarriesCommand, CarriesData, TxInv
<1>5. Carries' => send_data'
    BY DEF Carries
<1>6. ser'.count = IF ser.reset THEN 0 ELSE Counted
    BY SerialiserEdge, Counting
<1>7. ser.reset => Counted = 0 \/ Counted = Last
    BY Counting
<1>8. ser'.write /\ Carries' => CarriesData' /\ Counted' = ser.count + 1
    <2> SUFFICES ASSUME ser'.write, Carries' PROVE CarriesData' /\ Counted' = ser.count + 1
        OBVIOUS
    <2>1. byte_taken' /\ CarriesData'
        BY <1>1, <1>2, <1>5 DEF CountInv
    <2>2. ser'.count = ser.count
        BY <1>3, SerialiserEdge
    <2> QED
        BY <2>1, <2>2 DEF Counted
<1>9. ~(ser'.write /\ Carries') => Counted' = ser'.count
    BY <1>2, <1>3, <1>4 DEF Counted
<1>10. Counted \in Nat
    BY Counting
<1> QED
    BY <1>3, <1>6, <1>7, <1>8, <1>9, <1>10

LEMMA ReplyStep ==
    ASSUME PlainReader, ReadInv, NEW fin \in BOOLEAN, NEW end \in BOOLEAN, Edge(fin, end)
    PROVE  ReplyInv'
<1>1. ReplyInv /\ CountInv /\ TapTypes
    BY EdgeParts DEF ReadInv
<1>2. CASE ~Serving
    <2>1. ~ser.busy /\ ~ser.write /\ Counted = 0 /\ ~CarriesData
        BY <1>2, Counting DEF Serving
    <2>2. ~CarriesData'
        BY <2>1, LoadsByte, TransmitEdge DEF CarriesData
    <2>3. Counted' = 0
        BY <2>1, CountedEdge
    <2>4. rest = <<>> /\ rest' = rest
        BY <1>1, <2>1, HostWaits DEF ReplyInv, HearsData
    <2> QED
        BY <2>2, <2>3, <2>4 DEF ReplyInv
<1>3. CASE Serving /\ HearsData(end)
    <2>1. Released(end) /\ CarriesData /\ ~Carries'
        BY <1>3, TransmitEdge DEF HearsData
    <2>2. rest' = From(Carried + 1)
        BY <1>3, <2>1, HostEdge, Remaining DEF Listening, Sending
    <2>3. Counted' = IF ser.reset THEN 0 ELSE Counted
        BY <2>1, CountedEdge
    <2>4. rest' = IF Counted' = 0 THEN <<>> ELSE From(Counted' + 1)
        BY <2>1, <2>2, <2>3, Remaining, CountedEdge
    <2>5. \A n : From(n)' = From(n)
        BY <1>3, RegisterKept
    <2>6. From(Counted + 1)' = From(Counted' + 1)
        BY <2>5 DEF From, Last, Register
    <2> QED
        BY <2>1, <2>4, <2>6 DEF ReplyInv, CarriesData, CarriesCommand
<1>4. CASE Serving /\ CarriesData /\ ~Released(end)
    <2>1. CarriesData' /\ data_buffer' = data_buffer /\ rest' = rest /\ send_data
        BY <1>4, TransmitEdge, HostWaits DEF CarriesData, HearsData
    <2>2. Counted' = IF ser.reset THEN 0 ELSE Counted
        BY <2>1, CountedEdge
    <2>3. Last' = Last /\ Register' = Register
        BY <1>4, RegisterKept
    <2>4. Carried' = Carried /\ Counted' <= Last
        BY <1>1, <1>4, <2>2, <2>3, CountedEdge, Registers DEF Carried, ReplyInv
    <2> QED
        BY <1>1, <1>4, <2>1, <2>3, <2>4 DEF ReplyInv, From, CarriesCommand
<1>5. CASE Serving /\ ~CarriesData
    <2>1. rest' = rest /\ rest = IF Counted = 0 THEN <<>> ELSE From(Counted + 1)
        BY <1>1, <1>5, HostWaits DEF ReplyInv, HearsData
    <2>2. Last' = Last /\ Register' = Register
        BY <1>5, RegisterKept
    <2>3. ~ser.done /\ (ser.reset => Counted = 0) /\ Counted = ser.count
        BY <1>5, Counting
    <2>4. ser'.count = Counted
        BY <2>3, CountedEdge
    <2>5. CASE CarriesData'
        <3>1. ~send_data /\ ser.write /\ data_buffer' = ser.byte
            BY <1>5, <2>5, LoadsByte, TransmitEdge DEF CarriesData
        <3>2. ser.busy /\ more /\ ~ser.reset /\ ser.byte = Register[ser.count + 1]
            BY <1>1, <3>1 DEF CountInv
        <3>3. Counted' = Counted + 1
            BY <2>3, <2>5, <3>1, <3>2, SerialiserEdge, CountedEdge DEF CarriesData
        <3>4. Counted + 1 <= Last
            BY <2>3, <3>2, Counting DEF more
        <3>5. Carried' = Counted + 1
            BY <3>3, CountedEdge DEF Carried
        <3> QED
            BY <2>1, <2>2, <2>3, <2>5, <3>1, <3>2, <3>3, <3>4, <3>5, CountedEdge
               DEF ReplyInv, From, CarriesCommand
    <2>6. CASE ~CarriesData'
        <3>1. Counted' = Counted
            BY <2>4, <2>6, CountedEdge
        <3>2. CarriesCommand' => Counted = 0
            <4>1. CASE CarriesCommand /\ ~Released(end)
                BY <1>1, <4>1 DEF ReplyInv
            <4>2. CASE CarriesCommand' /\ (~Carries \/ Released(end))
                <5>1. ~ser.busy
                    BY <4>2, LoadsByte DEF CarriesCommand
                <5> QED
                    BY <2>3, <5>1, Counting
            <4> QED
                BY <1>5, <4>1, <4>2 DEF CarriesCommand
        <3> QED
            BY <2>1, <2>2, <2>6, <3>1, <3>2 DEF ReplyInv, From
    <2> QED
        BY <2>5, <2>6
<1> QED
    BY <1>2, <1>3, <1>4, <1>5 DEF HearsData

-----------------------------------------------------------------------------
(* The commands and the host at an edge.                                   *)

\* The host sends when nothing is on its way.
LEMMA SendingAlone ==
    ASSUME ReadInv, NEW end, Sending(end)
    PROVE  /\ rx = NoItem /\ ~BUSY_O /\ ~rarb.ready /\ ~Accepting
           /\ ~PendingRead /\ ~Pending("CMD_RESET")
           /\ ~ser.write => ~rarb.send
<1>1. rx = NoItem /\ ~BUSY_O /\ ~rarb.ready
    BY DEF Sending, Settled, ReadInv, PendingInv
<1> QED
    BY <1>1 DEF Accepting, Valid, BUSY_O, PendingRead, Pending, NoItem, ReadInv, PendingInv

\* A command that is pending after an edge has just been sent, or was pending
\* before and the read arbiter has not answered it.
LEMMA PendingEdges ==
    ASSUME PlainReader, ReadInv, NEW fin \in BOOLEAN, NEW end \in BOOLEAN, Edge(fin, end),
           NEW c, Pending(c)'
    PROVE  \/ /\ Sending(end) /\ rx'.kind = "command" /\ rx'.cmd = c
              /\ ~Accepting /\ ~rarb.ready
           \/ /\ Listening(end) /\ ~Sending(end) /\ Pending(c)
              /\ c \in {"CMD_READ", "CMD_CONT_READ"} => ~rarb.ready
           \/ Listening(end) /\ ~Sending(end) /\ ResetBehind /\ c = "CMD_RESET"
<1>1. Next /\ TapInv /\ Decoder /\ TapTypes
    BY EdgeParts DEF ReadInv
<1>2. CASE rx = NoItem /\ Settled /\ rx'.kind = "command" /\ rx'.cmd = c
    <2>1. CASE Sending(end)
        BY <1>2, <2>1, SendingAlone
    <2>2. CASE ~Sending(end)
        BY <1>2, <2>2, HostEdge DEF Listening, ResetBehind, IsReset, NoItem
    <2> QED
        BY <2>1, <2>2
<1>3. CASE Pending(c)
    <2>1. rx # NoItem \/ BUSY_O
        BY <1>3 DEF Pending, BUSY_O, NoItem
    <2>2. ~Sending(end) /\ Listening(end)
        BY <2>1, HostEdge DEF Sending, Settled
    <2>3. ASSUME c \in {"CMD_READ", "CMD_CONT_READ"}, rarb.ready PROVE FALSE
        <3>1. BUSY_O /\ (rx = NoItem \/ IsReset(rx))
            BY <1>1, <2>3 DEF ReadInv, PendingInv, TapInv, FlowInv
        <3>2. decoder.state = "handover" /\ decoder.cmd = c
            BY <1>3, <2>3, <3>1 DEF Pending, NoItem, IsReset
        <3>3. HandsTo(c) = {"read"}
            BY <2>3 DEF HandsTo
        <3>4. \A arbiter \in HandsTo(decoder.cmd) : Ready(arbiter)
            BY <2>3, <3>2, <3>3 DEF Ready
        <3>5. decoder'.state = "wait_ack"
            BY <1>1, <3>2, <3>4, DecoderSteps DEF TapTypes
        <3>6. rx' = NoItem \/ IsReset(rx')
            BY <2>2, <3>1 DEF Listening, ResetBehind
        <3> QED
            BY <2>3, <3>5, <3>6 DEF Pending, NoItem, IsReset
    <2> QED
        BY <1>3, <2>2, <2>3
<1> QED
    BY <1>1, <1>2, <1>3, PendingEdge

\* A read that the arbiter has not answered stays pending.
LEMMA PendingStays ==
    ASSUME ReadInv, NEW fin \in BOOLEAN, NEW end \in BOOLEAN, Edge(fin, end),
           NEW c \in {"CMD_READ", "CMD_CONT_READ"}, Pending(c), ~rarb.ready
    PROVE  Pending(c)'
<1>1. Next /\ TapInv /\ Decoder /\ TapTypes
    BY EdgeParts DEF ReadInv
<1>2. CASE rx.kind = "command" /\ rx.cmd = c
    <2>1. rx # NoItem
        BY <1>2 DEF NoItem
    <2>2. rx_read /\ decoder.state = "idle"
        BY <1>1, <1>2, <2>1, ItemsAreRead DEF TapInv, FlowInv, BUSY_O, IsReset
    <2>3. decoder' = [state |-> "handover", cmd |-> rx.cmd, addr |-> rx.addr]
        BY <1>1, <1>2, <2>2, DecoderSteps
    <2> QED
        BY <1>2, <2>3 DEF Pending
<1>3. CASE decoder.state = "handover" /\ decoder.cmd = c
    <2>1. HandsTo(c) = {"read"}
        BY DEF HandsTo
    <2>2. ~(\A arbiter \in HandsTo(decoder.cmd) : Ready(arbiter))
        BY <1>3, <2>1 DEF Ready
    <2>3. decoder' = decoder
        BY <1>1, <1>3, <2>2, DecoderSteps
    <2> QED
        BY <1>3, <2>3 DEF Pending
<1> QED
    BY <1>2, <1>3 DEF Pending

\* The reader stays at rest while no command is accepted.
LEMMA StaysAtRest ==
    ASSUME PlainReader, ReadInv, NEW fin \in BOOLEAN, NEW end \in BOOLEAN, Edge(fin, end),
           Resting, ~Accepting
    PROVE  /\ Resting' /\ ~rarb'.ready
           /\ ~Carries /\ ~rarb.ready => ~send_data' /\ ~Carries'
<1>1. Resting' /\ ~rarb'.ready
    BY ArbiterEdge DEF Resting
<1>2. ~rarb.ready => ~rarb.send /\ ~ser.write
    BY Counting DEF ReadInv, PendingInv, Resting, Reading
<1> QED
    BY <1>1, <1>2, TransmitEdge DEF Carries

LEMMA ServingStep ==
    ASSUME PlainReader, ReadInv, NEW fin \in BOOLEAN, NEW end \in BOOLEAN, Edge(fin, end)
    PROVE  ServingInv'
<1>1. Next /\ TapInv /\ TapInv' /\ ServingInv
    BY EdgeParts DEF ReadInv
<1>2. ASSUME Serving' PROVE ~dmi'.busy /\ Quiet' /\ rx'.kind # "data"
    <2>1. CASE Serving
        <3>1. ~dmi.busy /\ Quiet /\ rx.kind # "data"
            BY <1>1, <2>1 DEF ServingInv
        <3>2. Quiet' /\ ~dmi'.busy
            BY <1>1, <3>1, QuietNext, DmiEdge DEF Quiet
        <3>3. ~(Settled /\ ~BUSY_O /\ ReadsNothing)
            BY <2>1, ReaderAtRest
        <3>4. rx'.kind # "data"
            BY <3>1, <3>3, HostEdge
               DEF Listening, ResetBehind, IsReset, Sending, NewRead, NewEnd, NewWord,
                   NewCommand, NoItem
        <3> QED
            BY <3>2, <3>4
    <2>2. CASE ~Serving
        <3>1. ~Reading' /\ ~CarriesData'
            <4>1. ~Reading'
                BY <2>2, ReadBegins DEF Serving
            <4>2. ~CarriesData'
                BY <2>2, LoadsByte, TransmitEdge, Counting DEF Serving, CarriesData
            <4> QED
                BY <4>1, <4>2
        <3>2. \E c \in {"CMD_READ", "CMD_CONT_READ"} : Pending(c)' /\ ~Pending(c)
            BY <1>2, <2>2, <3>1 DEF Serving, PendingRead
        <3>3. /\ Sending(end) /\ rx'.kind = "command"
              /\ rx'.cmd \in {"CMD_READ", "CMD_CONT_READ"}
            BY <3>2, PendingEdges
        <3>4. ~dmi.busy
            <4>1. CASE NewRead
                BY <4>1 DEF NewRead
            <4>2. CASE NewEnd
                <5>1. reading = "stream" /\ ~PendingRead
                    BY <3>3, <4>2, SendingAlone DEF NewEnd, NewCommand
                <5>2. Reading
                    BY <5>1 DEF ReadInv, HostInv, Reading, PendingRead
                <5> QED
                    BY <2>2, <5>2 DEF Serving
            <4> QED
                BY <3>3, <4>1, <4>2 DEF Sending, NewWord
        <3>5. ~deser.done
            BY <3>3 DEF Sending, Settled
        <3>6. ~dmi'.busy
            BY <1>1, <3>4, <3>5, DmiEdge
        <3>7. Quiet'
            BY <1>1, <3>3 DEF TapInv, FlowInv, InFlight, NoItem
        <3> QED
            BY <3>3, <3>6, <3>7
    <2> QED
        BY <2>1, <2>2
<1>3. ASSUME Reading' PROVE rarb'.addr = asked' /\ ser'.length = Last'
    <2>1. Serving /\ (Accepting \/ Reading)
        BY <1>3, ReadBegins DEF Serving
    <2>2. asked' = asked /\ Last' = Last
        BY <2>1, RegisterKept
    <2> QED
        BY <1>1, <2>1, <2>2, ArbiterEdge, SerialiserEdge DEF ServingInv
<1>4. ASSUME ~Reading'
      PROVE  /\ ~rarb'.read_ready /\ ~dmi'.read_valid /\ valid_address' = "ADDR_NOP"
             /\ ~ser'.busy /\ ~ser'.run
    <2>1. CASE ~Reading
        BY <1>1, <2>1, ArbiterEdge, SerialiserEdge DEF ServingInv
    <2>2. CASE Reading
        <3>1. ser.done /\ ser.count > 0 /\ ~ser.busy
            BY <1>4, <2>2, ReadEnds, Counting
        <3>2. ~rarb.read_ready /\ ~dmi.read_valid
            BY <3>1 DEF ReadInv, CountInv
        <3> QED
            BY <3>1, <3>2, ArbiterEdge, SerialiserEdge
    <2> QED
        BY <2>1, <2>2
<1> QED
    BY <1>2, <1>3, <1>4 DEF ServingInv

\* The read arbiter stays at rest or at its last register, or comes to it.
LEMMA AtRestUnbusy ==
    ASSUME ReadInv, NEW fin \in BOOLEAN, NEW end \in BOOLEAN, Edge(fin, end), Resting
    PROVE  ~ser'.busy
<1>1. ~ser.busy /\ ~ser.run
    BY Counting DEF Resting, Reading
<1> QED
    BY <1>1, SerialiserEdge

LEMMA FinishingStays ==
    ASSUME PlainReader, ReadInv, NEW fin \in BOOLEAN, NEW end \in BOOLEAN, Edge(fin, end),
           Finishing, reading = "ended" \/ ~Accepting
    PROVE  Finishing'
<1> SUFFICES ASSUME Reading' PROVE rarb'.cmd = "CMD_READ" /\ (ser'.busy \/ ser'.done)
    BY DEF Finishing
<1>1. Reading
    <2> SUFFICES ASSUME ~Reading PROVE FALSE
        OBVIOUS
    <2>1. Accepting /\ Unasked /\ PendingRead
        BY ReadBegins
    <2> QED
        BY <2>1 DEF PendingRead, ReadInv, PendingInv, Unasked, Resting
<1>2. rarb.cmd = "CMD_READ" /\ ser.busy
    BY <1>1, ArbiterEdge DEF Finishing, Reading
<1>3. ~Accepting
    BY <1>2 DEF Accepting
<1> QED
    BY <1>2, <1>3, ArbiterEdge, SerialiserEdge, Counting

LEMMA EndingStays ==
    ASSUME PlainReader, ReadInv, NEW fin \in BOOLEAN, NEW end \in BOOLEAN, Edge(fin, end),
           Ending
    PROVE  Finishing' \/ Ending'
<1>1. Decoder /\ TapTypes
    BY EdgeParts
<1>2. HandsTo(decoder.cmd) = {"read"}
    BY DEF Ending, HandsTo
<1>3. decoder' = decoder
    BY <1>1, <1>2, DecoderSteps DEF Ending, Ready
<1>4. CASE ser.busy
    <2>1. ~Accepting /\ ~ser.reset /\ ~ser.done
        BY <1>4, Counting DEF Accepting
    <2>2. rarb'.cmd = rarb.cmd /\ ~rarb'.ready
        BY <2>1, ArbiterEdge DEF Ending
    <2>3. ~ser'.reset /\ (ser'.busy \/ ser'.done)
        BY <1>4, <2>1, SerialiserEdge DEF Ending
    <2> QED
        BY <1>3, <2>2, <2>3 DEF Ending
<1>5. CASE ~ser.busy
    <2>1. Accepting /\ ser.done /\ ~ser.reset
        BY <1>2, <1>5 DEF Accepting, Valid, Ending
    <2>2. rarb'.cmd = "CMD_READ" /\ ser'.done
        BY <2>1, ArbiterEdge, SerialiserEdge DEF Ending
    <2> QED
        BY <2>2 DEF Finishing
<1> QED
    BY <1>4, <1>5

LEMMA EdgeHeld ==
    ASSUME ReadInv, NEW fin \in BOOLEAN, NEW end \in BOOLEAN, Edge(fin, end)
    PROVE  held' = (decoder'.state # "idle" /\ (held \/ (Valid("read") /\ ser.busy)))
BY DEF Edge, Clock, Held

LEMMA HeldStep ==
    ASSUME PlainReader, ReadInv, NEW fin \in BOOLEAN, NEW end \in BOOLEAN, Edge(fin, end)
    PROVE  HeldInv'
<1> SUFFICES ASSUME held' PROVE reading' = "ended" /\ (Finishing' \/ Ending')
    BY DEF HeldInv
<1>1. held \/ (Valid("read") /\ ser.busy)
    BY EdgeHeld
<1>2. BUSY_O /\ reading = "ended" /\ (Finishing \/ Ending)
    <2>1. CASE held
        BY <2>1 DEF ReadInv, HeldInv, TapInv, FlowInv
    <2>2. CASE Valid("read") /\ ser.busy
        <3>1. decoder.state = "handover" /\ BUSY_O /\ Reading
            BY <2>2, Counting DEF Valid, BUSY_O
        <3>2. decoder.cmd \in {"CMD_READ", "CMD_CONT_READ", "CMD_RESET"}
            BY <2>2, <3>1 DEF Valid, HandsTo, ReadInv, TapInv, TapTypes, FlowInv, Commands
        <3>3. Pending(decoder.cmd)
            BY <3>1 DEF Pending
        <3>4. CASE decoder.cmd = "CMD_READ"
            BY <2>2, <3>1, <3>3, <3>4
               DEF ReadInv, PendingInv, Unasked, Resting, Reading, Finishing, Ending
        <3>5. CASE decoder.cmd = "CMD_CONT_READ"
            BY <2>2, <3>1, <3>3, <3>5 DEF ReadInv, PendingInv, Unasked, Resting, Reading
        <3>6. CASE decoder.cmd = "CMD_RESET"
            BY <3>1, <3>3, <3>6 DEF ReadInv, PendingInv
        <3> QED
            BY <3>2, <3>4, <3>5, <3>6
    <2> QED
        BY <1>1, <2>1, <2>2
<1>3. reading' = "ended"
    BY <1>2, HostEdge DEF Listening, Sending
<1> QED
    BY <1>2, <1>3, FinishingStays, EndingStays

LEMMA PendingInvStep ==
    ASSUME PlainReader, ReadInv, NEW fin \in BOOLEAN, NEW end \in BOOLEAN, Edge(fin, end)
    PROVE  PendingInv'
<1>1. Next /\ TapInv /\ TapTypes /\ Decoder /\ PendingInv /\ HostInv
    BY EdgeParts DEF ReadInv
<1>2. (rarb'.send <=> rarb'.ready) /\ (rarb'.send => rarb'.byte # Esc)
    BY ArbiterEdge
<1>3. rarb'.ready => BUSY_O'
    <2> SUFFICES ASSUME rarb'.ready PROVE decoder'.state # "idle"
        BY DEF BUSY_O
    <2>1. decoder.state = "handover"
        BY ArbiterEdge, Accepted
    <2> QED
        BY <1>1, <2>1, DecoderSteps DEF TapTypes
\* The register of a command is the one that the host asked for last.
<1>4. /\ rx'.kind = "command" /\ rx'.cmd # "CMD_WRITE" => rx'.addr = asked'
      /\ decoder'.state = "handover" /\ decoder'.cmd # "CMD_WRITE" => decoder'.addr = asked'
    <2>1. CASE Listening(end)
        <3>1. rx'.kind = "command" /\ rx'.cmd # "CMD_WRITE" => rx'.addr = asked'
            BY <1>1, <2>1 DEF Listening, ResetBehind, PendingInv, NoItem
        <3>2. decoder'.state = "handover" /\ decoder'.cmd # "CMD_WRITE" => decoder'.addr = asked
            BY <1>1, DecoderSteps DEF PendingInv, TapTypes
        <3> QED
            BY <2>1, <3>1, <3>2 DEF Listening
    <2>2. CASE Sending(end)
        <3>1. rx'.kind = "command" /\ rx'.cmd # "CMD_WRITE" => rx'.addr = asked'
            BY <2>2 DEF Sending, NewRead, NewEnd, NewWord, NewCommand
        <3>2. rx = NoItem /\ decoder.state = "idle"
            BY <2>2, SendingAlone DEF BUSY_O
        <3>3. decoder'.state = "idle"
            BY <1>1, <3>2, DecoderSteps DEF NoItem
        <3> QED
            BY <3>1, <3>3
    <2> QED
        BY <2>1, <2>2, HostEdge
\* A read is sent to a reader at rest, or to end a stream.
<1>5. ASSUME Sending(end), NewRead
      PROVE  Unasked' /\ rarb'.cmd # "CMD_CONT_READ"
    <2>1. Resting /\ ~Carries /\ ~rarb.ready /\ ~Accepting
        BY <1>5, ReaderAtRest, SendingAlone DEF Sending, NewRead
    <2>2. Resting' /\ ~rarb'.ready /\ ~send_data'
        BY <2>1, StaysAtRest
    <2> QED
        BY <2>2 DEF Unasked, Resting
<1>6. ASSUME Sending(end), reading = "stream"
      PROVE  rarb'.cmd = "CMD_CONT_READ" /\ ~rarb'.ready
    <2>1. rarb.cmd = "CMD_CONT_READ" /\ ~Accepting
        BY <1>1, <1>6, SendingAlone DEF HostInv, PendingRead
    <2> QED
        BY <2>1, ArbiterEdge
\* What comes of a pending command.
<1>7. ASSUME Pending("CMD_READ")'
      PROVE  \/ Unasked' /\ reading' = "once"
             \/ /\ rarb'.cmd = "CMD_READ" /\ rarb'.ready
                /\ reading' = "ended" \/ (reading' = "once" /\ ~ser'.busy)
             \/ rarb'.cmd = "CMD_CONT_READ" /\ ~rarb'.ready /\ reading' = "ended"
    <2>1. CASE Sending(end) /\ rx'.cmd = "CMD_READ" /\ rx'.kind = "command"
        BY <1>5, <1>6, <2>1 DEF Sending, NewRead, NewEnd, NewWord, NewCommand
    <2>2. CASE Listening(end) /\ Pending("CMD_READ") /\ ~rarb.ready
        <3>1. CASE Unasked /\ reading = "once"
            <4>1. ~CarriesData /\ reading' = "once"
                BY <2>2, <3>1 DEF Unasked, CarriesData, Carries, Listening, HearsData
            <4>2. CASE Accepting
                <5>1. decoder.cmd = "CMD_READ"
                    BY <1>1, <3>1, <4>2, Accepted DEF PendingInv
                <5>2. ~ser'.busy
                    BY <3>1, AtRestUnbusy DEF Unasked
                <5> QED
                    BY <3>1, <4>1, <4>2, <5>1, <5>2, ArbiterEdge DEF Unasked, Resting
            <4>3. CASE ~Accepting
                BY <3>1, <4>1, <4>3, StaysAtRest DEF Unasked, Carries
            <4> QED
                BY <4>2, <4>3
        <3>2. CASE rarb.cmd = "CMD_CONT_READ" /\ reading = "ended"
            <4>1. reading' = "ended"
                BY <2>2, <3>2 DEF Listening
            <4>2. CASE Accepting
                <5>1. decoder.cmd = "CMD_READ"
                    BY <1>1, <3>2, <4>2, Accepted DEF PendingInv, Reading, Finishing, Ending
                <5> QED
                    BY <3>2, <4>1, <4>2, <5>1, ArbiterEdge
            <4>3. CASE ~Accepting
                BY <3>2, <4>1, <4>3, ArbiterEdge
            <4> QED
                BY <4>2, <4>3
        <3> QED
            BY <1>1, <2>2, <3>1, <3>2 DEF PendingInv
    <2> QED
        BY <1>7, <2>1, <2>2, PendingEdges
<1>8. ASSUME Pending("CMD_CONT_READ")'
      PROVE  /\ reading' = "stream"
             /\ Unasked' \/ (rarb'.cmd = "CMD_CONT_READ" /\ rarb'.ready /\ ~ser'.busy)
    <2>1. CASE Sending(end) /\ rx'.cmd = "CMD_CONT_READ" /\ rx'.kind = "command"
        BY <1>5, <2>1 DEF Sending, NewRead, NewEnd, NewWord, NewCommand
    <2>2. CASE Listening(end) /\ Pending("CMD_CONT_READ") /\ ~rarb.ready
        <3>1. Unasked /\ reading = "stream"
            BY <1>1, <2>2 DEF PendingInv
        <3>2. reading' = "stream"
            BY <2>2, <3>1 DEF Listening
        <3>3. CASE Accepting
            <4>1. decoder.cmd = "CMD_CONT_READ"
                BY <1>1, <3>1, <3>3, Accepted DEF PendingInv
            <4>2. ~ser'.busy
                BY <3>1, AtRestUnbusy DEF Unasked
            <4> QED
                BY <3>1, <3>2, <3>3, <4>1, <4>2, ArbiterEdge DEF Unasked, Resting
        <3>4. CASE ~Accepting
            BY <3>1, <3>2, <3>4, StaysAtRest DEF Unasked, Carries
        <3> QED
            BY <3>3, <3>4
    <2> QED
        BY <1>8, <2>1, <2>2, PendingEdges
<1>9. ASSUME Pending("CMD_RESET")'
      PROVE  reading' = "ended" /\ (Finishing' \/ (held' /\ Ending'))
    <2>1. CASE Sending(end) /\ rx'.cmd = "CMD_RESET" /\ rx'.kind = "command"
        <3>1. reading' = "ended" /\ reading # "stream"
            BY <2>1 DEF Sending, NewRead, NewEnd, NewWord, NewCommand
        <3>2. rarb.cmd # "CMD_CONT_READ" /\ ~Accepting
            BY <1>1, <2>1, <3>1, SendingAlone DEF HostInv, Resting, PendingRead
        <3>3. Reading => ~dmi.busy
            BY DEF ReadInv, ServingInv, Serving
        <3>4. Finishing
            BY <2>1, <3>2, <3>3 DEF Sending, Settled, Finishing, Reading
        <3>5. Finishing'
            BY <3>2, <3>4, FinishingStays
        <3> QED
            BY <3>1, <3>5
    <2>2. CASE Listening(end) /\ (Pending("CMD_RESET") \/ held)
        <3>1. reading = "ended" /\ (Finishing \/ (held /\ Ending))
            BY <1>1, <2>2 DEF PendingInv, ReadInv, HeldInv
        <3>2. reading' = "ended"
            BY <2>2, <3>1 DEF Listening
        <3>3. Finishing' \/ (held /\ Ending')
            BY <3>1, FinishingStays, EndingStays
        <3>4. held /\ Ending' => held'
            BY EdgeHeld DEF Ending
        <3> QED
            BY <3>2, <3>3, <3>4
    <2> QED
        BY <1>9, <2>1, <2>2, PendingEdges DEF ResetBehind
<1> QED
    BY <1>2, <1>3, <1>4, <1>7, <1>8, <1>9 DEF PendingInv

\* The last byte of a single read is heard when the read arbiter is at rest.
LEMMA LastByteHeard ==
    ASSUME PlainReader, ReadInv, NEW fin \in BOOLEAN, NEW end \in BOOLEAN, Edge(fin, end),
           reading = "once", HearsData(end), Carried = Last
    PROVE  Resting /\ ~rarb.ready /\ ~Accepting /\ ~PendingRead /\ ~Pending("CMD_RESET")
<1>1. CarriesData /\ Released(end) /\ send_data
    BY DEF HearsData, CarriesData, Carries
<1>2. ~rarb.ready
    BY <1>1 DEF ReadInv, HostInv
<1>3. ~PendingRead /\ ~Pending("CMD_RESET")
    BY <1>1, <1>2 DEF PendingRead, ReadInv, PendingInv, Unasked
<1>4. ~Accepting
    BY <1>3, Accepted DEF PendingRead
<1>5. Resting
    <2>1. ~Reading
        <3>1. CASE ser.busy
            <4>1. more /\ ~ser.write /\ Counted = ser.count
                BY <1>1, <3>1, FrameEnds, Counting
            <4>2. Counted < Last
                BY <3>1, <4>1, Counting DEF more
            <4>3. Counted = 0
                BY <1>1, <4>2, Counting, Remaining
            <4> QED
                BY <1>1, <4>3 DEF ReadInv, HostInv, Resting, Reading
        <3>2. CASE ~ser.busy
            BY <1>1, <3>2, FrameEnds
        <3> QED
            BY <3>1, <3>2
    <2> QED
        BY <2>1 DEF ReadInv, TapInv, TapTypes, HostInv, Resting, Reading
<1> QED
    BY <1>2, <1>3, <1>4, <1>5

LEMMA HostInvStep ==
    ASSUME PlainReader, ReadInv, NEW fin \in BOOLEAN, NEW end \in BOOLEAN, Edge(fin, end)
    PROVE  HostInv'
<1>1. Next /\ TapInv /\ TapTypes /\ PendingInv /\ HostInv
    BY EdgeParts DEF ReadInv
<1>2. reading' \in {"once", "stream", "ended", "nothing"}
    BY <1>1, HostEdge DEF HostInv, Listening, Sending, NewRead, NewEnd, NewWord
<1>3. rarb'.cmd = "CMD_RESET" => reading' = "ended"
    <2> SUFFICES ASSUME rarb'.cmd = "CMD_RESET" PROVE reading' = "ended"
        OBVIOUS
    <2>1. Accepting /\ Pending("CMD_RESET")
        BY ArbiterEdge, Accepted
    <2>2. reading = "ended" /\ Listening(end)
        BY <1>1, <2>1, HostEdge, SendingAlone DEF PendingInv
    <2> QED
        BY <2>2 DEF Listening
\* At the end of a read, and while the host reads nothing.
<1>4. ASSUME reading' = "nothing"
      PROVE  Resting' /\ ~Carries' /\ ~rarb'.ready /\ ~PendingRead' /\ ~Pending("CMD_RESET")'
    <2>1. CASE reading = "nothing"
        <3>1. Resting /\ ~Carries /\ ~rarb.ready /\ ~PendingRead /\ ~Pending("CMD_RESET")
            BY <1>1, <2>1 DEF HostInv
        <3>2. ~Accepting
            BY <3>1, Accepted DEF PendingRead
        <3>3. ~PendingRead' /\ ~Pending("CMD_RESET")'
            <4> DEFINE Asks == {"CMD_READ", "CMD_CONT_READ", "CMD_RESET"}
            <4>1. ~ResetBehind
                BY <2>1 DEF ResetBehind, ReadInv, HeldInv
            <4>2. ASSUME Sending(end), rx'.kind = "command" PROVE rx'.cmd = "CMD_WRITE"
                BY <1>4, <4>2 DEF Sending, NewRead, NewEnd, NewWord
            <4>3. ASSUME NEW c \in Asks, Pending(c)' PROVE FALSE
                <5>1. ~Pending(c)
                    BY <3>1 DEF PendingRead
                <5>2. Sending(end) /\ rx'.kind = "command" /\ rx'.cmd = c
                    BY <4>1, <4>3, <5>1, PendingEdges
                <5> QED
                    BY <4>2, <5>2
            <4> QED
                BY <4>3 DEF PendingRead
        <3> QED
            BY <3>1, <3>2, <3>3, StaysAtRest
    <2>2. CASE reading # "nothing"
        <3>1. Listening(end) /\ HearsData(end) /\ rest' = <<>> /\ reading = "once"
            BY <1>4, <2>2, HostEdge DEF Listening, Sending, NewRead, NewEnd, NewWord
        <3>2. Carried = Last
            BY <3>1, Remaining DEF Listening, HearsData
        <3>3. Resting /\ ~rarb.ready /\ ~Accepting /\ ~PendingRead /\ ~Pending("CMD_RESET")
            BY <3>1, <3>2, LastByteHeard
        <3>4. ~Sending(end)
            BY <3>1 DEF Sending
        <3>5. ~PendingRead' /\ ~Pending("CMD_RESET")'
            BY <3>1, <3>3, <3>4, PendingEdges DEF PendingRead, ResetBehind, ReadInv, HeldInv
        <3>6. ~Carries'
            BY <3>1, TransmitEdge DEF HearsData
        <3> QED
            BY <3>3, <3>5, <3>6, StaysAtRest
    <2> QED
        BY <2>1, <2>2
<1>5. ASSUME reading' = "once"
      PROVE  /\ rarb'.cmd # "CMD_CONT_READ"
             /\ ser'.reset => Resting'
             /\ CarriesData' /\ Counted' = 0 => Resting'
             /\ rarb'.ready => Reading' /\ ~CarriesData'
    <2>1. CASE Sending(end)
        <3>1. ReadsNothing
            BY <1>5, <2>1 DEF Sending, NewRead, NewEnd, NewWord
        <3>2. Resting /\ ~Accepting
            BY <2>1, <3>1, ReaderAtRest, SendingAlone DEF Sending
        <3>3. Resting' /\ ~rarb'.ready
            BY <3>2, StaysAtRest
        <3> QED
            BY <3>3 DEF Resting
    <2>2. CASE Listening(end)
        <3>1. reading = "once"
            BY <1>5, <2>2 DEF Listening
        <3>2. ~Pending("CMD_CONT_READ") /\ ~Pending("CMD_RESET")
            BY <1>1, <3>1 DEF PendingInv
        <3>3. Accepting => decoder.cmd = "CMD_READ" /\ Pending("CMD_READ")
            BY <3>2, Accepted
        <3>4. /\ rarb.cmd \in {"CMD_NOP", "CMD_READ"}
              /\ ser.reset => Resting
              /\ CarriesData /\ Counted = 0 => Resting
              /\ rarb.ready => Reading /\ ~CarriesData
            BY <1>1, <3>1 DEF HostInv, TapTypes
        <3>5. rarb'.cmd # "CMD_CONT_READ"
            BY <3>3, <3>4, ArbiterEdge
        <3>6. ser'.reset => Resting'
            BY <3>4, SerialiserEdge, ArbiterEdge DEF Resting, Reading
        <3>7. CarriesData /\ Resting => ~Accepting
            BY <1>1, <3>1, <3>3, <3>4
               DEF PendingInv, Unasked, CarriesData, Carries, Resting
        <3>8. CarriesData' /\ Counted' = 0 => Resting'
            <4> SUFFICES ASSUME CarriesData', Counted' = 0 PROVE Resting'
                OBVIOUS
            <4>1. CASE CarriesData /\ ~Released(end)
                <5>1. Resting
                    BY <3>4, <4>1, CountedEdge DEF CarriesData, Carries
                <5> QED
                    BY <3>7, <4>1, <5>1, StaysAtRest
            <4>2. CASE ~CarriesData \/ Released(end)
                <5>1. ~send_data /\ ser.write
                    BY <4>2, LoadsByte, TransmitEdge DEF CarriesData
                <5>2. ser'.write /\ Carries'
                    BY <5>1, SerialiserEdge DEF ReadInv, CountInv, CarriesData
                <5>3. Counted' = ser.count + 1 /\ ser.count \in Nat
                    BY <5>2, CountedEdge, Counting
                <5> QED
                    BY <5>3
            <4> QED
                BY <4>1, <4>2
        <3>9. rarb'.ready => Reading' /\ ~CarriesData'
            <4> SUFFICES ASSUME Accepting PROVE Reading' /\ ~CarriesData'
                BY ArbiterEdge
            <4>1. Unasked \/ (rarb.cmd = "CMD_READ" /\ rarb.ready)
                BY <1>1, <3>1, <3>3 DEF PendingInv
            <4>2. ~CarriesData /\ ~ser.busy
                BY <3>4, <4>1, Accepted DEF Unasked, CarriesData, Carries
            <4>3. ~CarriesData'
                BY <4>2, LoadsByte, TransmitEdge, Counting DEF CarriesData
            <4>4. rarb'.cmd = "CMD_READ"
                BY <3>3, <4>1, <4>2, ArbiterEdge, Counting DEF Unasked, Resting
            <4> QED
                BY <4>3, <4>4 DEF Reading
        <3> QED
            BY <3>5, <3>6, <3>8, <3>9
    <2> QED
        BY <2>1, <2>2, HostEdge
<1>6. ASSUME reading' = "stream"
      PROVE  rarb'.cmd = "CMD_CONT_READ" \/ (Pending("CMD_CONT_READ")' /\ Resting')
    <2>1. CASE Sending(end)
        <3>1. CASE NewRead
            <4>1. Pending("CMD_CONT_READ")'
                BY <1>6, <3>1 DEF NewRead, NewCommand, Pending
            <4>2. Resting /\ ~Accepting
                BY <2>1, <3>1, ReaderAtRest, SendingAlone DEF Sending, NewRead
            <4> QED
                BY <4>1, <4>2, StaysAtRest
        <3>2. CASE NewWord
            <4>1. reading = "stream" /\ ReadsNothing
                BY <1>6, <3>2 DEF NewWord
            <4> QED
                BY <4>1 DEF ReadsNothing
        <3> QED
            BY <1>6, <2>1, <3>1, <3>2 DEF Sending, NewEnd
    <2>2. CASE Listening(end)
        <3>1. reading = "stream"
            BY <1>6, <2>2 DEF Listening
        <3>2. Accepting => decoder.cmd = "CMD_CONT_READ"
            BY <1>1, <3>1, Accepted DEF PendingInv
        <3>3. CASE rarb.cmd = "CMD_CONT_READ"
            BY <3>2, <3>3, ArbiterEdge
        <3>4. CASE Pending("CMD_CONT_READ") /\ Resting
            <4>1. ~rarb.ready
                BY <1>1, <3>4 DEF PendingInv, Unasked, Resting
            <4>2. Pending("CMD_CONT_READ")'
                BY <3>4, <4>1, PendingStays
            <4> QED
                BY <3>2, <3>4, <4>2, ArbiterEdge DEF Resting
        <3> QED
            BY <1>1, <3>1, <3>3, <3>4 DEF HostInv
    <2> QED
        BY <2>1, <2>2, HostEdge
<1>7. ASSUME reading' = "ended", rarb'.cmd = "CMD_CONT_READ" PROVE Pending("CMD_READ")'
    <2>1. CASE Sending(end)
        <3>1. rarb.cmd = "CMD_CONT_READ" /\ ~PendingRead
            BY <1>7, <2>1, SendingAlone, ArbiterEdge
        <3>2. reading = "stream"
            BY <1>1, <3>1 DEF HostInv, Resting, PendingRead
        <3>3. NewCommand("CMD_READ")
            BY <1>7, <2>1, <3>2 DEF Sending, NewRead, NewEnd, NewWord, ReadsNothing
        <3> QED
            BY <3>3 DEF NewCommand, Pending
    <2>2. CASE Listening(end)
        <3>1. reading = "ended"
            BY <1>7, <2>2 DEF Listening
        <3>2. ~(Accepting /\ decoder.cmd = "CMD_CONT_READ")
            BY <1>1, <3>1, Accepted DEF PendingInv
        <3>3. rarb.cmd = "CMD_CONT_READ"
            BY <1>7, <3>2, ArbiterEdge
        <3>4. Pending("CMD_READ") /\ ~rarb.ready
            BY <1>1, <3>1, <3>3 DEF HostInv, PendingInv, Unasked, Resting
        <3> QED
            BY <3>4, PendingStays
    <2> QED
        BY <2>1, <2>2, HostEdge
<1> QED
    BY <1>2, <1>3, <1>4, <1>5, <1>6, <1>7 DEF HostInv

-----------------------------------------------------------------------------
(* The theorem.                                                            *)

LEMMA ReadInit ==
    ASSUME TapInit
    PROVE  ReadInv
<1>1. TapInv
    BY TapInit_Inv
<1>2. ~PendingRead /\ ~Pending("CMD_RESET") /\ ~Carries /\ ~Reading /\ Resting
      /\ ~Serving /\ ~CarriesData /\ ~CarriesCommand /\ ~byte_taken
    BY DEF TapInit, TxInit, PendingRead, Pending, NoItem, Carries, Reading, Resting,
           Serving, CarriesData, CarriesCommand, byte_taken
<1>3. TxInv
    BY <1>2 DEF TapInit, TxInit, TxInv
<1>4. PendingInv /\ HeldInv /\ HostInv /\ ServingInv
    BY <1>2 DEF TapInit, PendingInv, HeldInv, HostInv, ServingInv, NoItem, PendingRead
<1>5. CountInv /\ ReplyInv
    BY <1>2 DEF TapInit, CountInv, ReplyInv, Counted
<1> QED
    BY <1>1, <1>3, <1>4, <1>5 DEF ReadInv

LEMMA ReadInvStep ==
    ASSUME PlainReader, ReadInv, [Next]_vars
    PROVE  ReadInv'
<1>1. CASE Next
    <2>1. PICK fin \in BOOLEAN, end \in BOOLEAN : Edge(fin, end)
        BY <1>1, EdgeExists
    <2> QED
        BY <2>1, EdgeParts, TransmitEdge, PendingInvStep, HeldStep, HostInvStep, ServingStep,
           CountStep, ReplyStep DEF ReadInv
<1>2. CASE UNCHANGED vars
    <2>1. TapInv'
        BY <1>2, TapInvStep DEF ReadInv
    <2>2. UNCHANGED <<rx, data_rec, decoder, warb, deser, rarb, ser, latch,
                      valid_address, dmi, sent, asked, reading, rest, taken, held>>
        BY <1>2 DEF vars, tap, host
    <2>3. UNCHANGED <<send_esc, send_data, data_buffer, buffered_tx_ready, write_o,
                      data_send_o, sending, frame, pausing, host_escaped>>
        BY <1>2 DEF vars, tx, escape, uart_tx
    <2>4. TxInv'
        BY <2>3 DEF ReadInv, TxInv, Current, Carries
    <2>5. PendingInv' /\ HeldInv' /\ HostInv'
        BY <2>2, <2>3
           DEF ReadInv, PendingInv, HeldInv, Finishing, Ending, HostInv, Pending, PendingRead, Unasked, Resting,
               Reading, BUSY_O, Carries, CarriesData, Counted, byte_taken, TX_READY_O, tx_ready
    <2>6. ServingInv'
        BY <2>2, <2>3
           DEF ReadInv, ServingInv, Serving, Reading, CarriesData, Carries, PendingRead,
               Pending, Quiet, Register, Last
    <2>7. CountInv' /\ ReplyInv'
        BY <2>2, <2>3
           DEF ReadInv, CountInv, ReplyInv, Reading, CarriesData, CarriesCommand, Carries,
               Carried, Counted, From, byte_taken, TX_READY_O, tx_ready, more, Register, Last
    <2> QED
        BY <2>1, <2>4, <2>5, <2>6, <2>7 DEF ReadInv
<1> QED
    BY <1>1, <1>2

\* What the host decodes at the end of a frame.
LEMMA ItemsHeard ==
    ASSUME ReadInv, NEW end \in BOOLEAN, Heard(end) # <<>>
    PROVE  LET item == Heard(end)[1]
           IN  IF item.cmd THEN rest = <<>>
               ELSE reading # "nothing" /\ item.byte = Head(Expected)
<1>1. TxInv /\ ReplyInv /\ HostInv
    BY DEF ReadInv
<1>2. Released(end) /\ Carries
    BY <1>1, TxHeard DEF Released, TxInv, Carries
<1>3. CASE CarriesData
    <2>1. Heard(end) = <<Data(data_buffer)>> /\ reading # "nothing"
        BY <1>1, <1>2, <1>3, TxHeard DEF HostInv, CarriesData
    <2>2. ~Heard(end)[1].cmd /\ Heard(end)[1].byte = Head(Expected)
        BY <1>3, <2>1, Remaining DEF Data
    <2> QED
        BY <2>1, <2>2
<1>4. CASE CarriesCommand
    <2>1. Heard(end) = <<Command(data_buffer)>>
        BY <1>1, <1>2, <1>4, TxHeard
    <2>2. rest = <<>>
        BY <1>1, <1>4 DEF ReplyInv, CarriesCommand
    <2>3. Heard(end)[1].cmd
        BY <2>1 DEF Command
    <2> QED
        BY <2>2, <2>3
<1> QED
    BY <1>2, <1>3, <1>4 DEF CarriesCommand

\* For any words, any IDCODE and any lengths of them: a byte that the host decodes
\* as data is the next of the register it asked for, and no notification comes
\* between the bytes of a register (READ_ARBITER, TX_SERIALIZER, TX_Escape, UART_TX).
THEOREM RepliesAreWhole == PlainReader => (Spec => RepliesWhole)
<1> SUFFICES ASSUME PlainReader PROVE Spec => RepliesWhole
    OBVIOUS
<1> DEFINE Whole ==
        sending /\ ~sending' /\ Heard(TRUE) # <<>> =>
          LET item == Heard(TRUE)[1]
          IN  IF item.cmd THEN rest = <<>>
              ELSE reading # "nothing" /\ item.byte = Head(Expected)
<1>1. ReadInv => Whole
    <2>1. TRUE \in BOOLEAN
        OBVIOUS
    <2> QED
        BY <2>1, ItemsHeard
<1> HIDE DEF Whole
<1>2. Spec => []ReadInv
    BY ReadInit, ReadInvStep, PTL DEF Spec
<1>3. [][Next]_vars /\ []ReadInv => [][Whole]_vars
    BY <1>1, PTL
<1> QED
    BY <1>2, <1>3, PTL DEF Spec, RepliesWhole, Whole

=============================================================================
