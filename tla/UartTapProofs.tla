--------------------------- MODULE UartTapProofs ---------------------------
(***************************************************************************)
(* What UartTap promises for any words, any register lengths, and a host   *)
(* that may reset the TAP at any time and be paused: the registers keep    *)
(* their types, and every word the host sends is taken once and as it was  *)
(* sent.  If the host makes no early resets, no command is lost.           *)
(***************************************************************************)
EXTENDS UartTap, TLAPS

Items == [kind : {"command"}, cmd : Commands, addr : Addresses]
         \cup [kind : {"data"}, byte : Bytes] \cup {NoItem}

-----------------------------------------------------------------------------
(* Types.  The two registers of the deserialiser's reset and of the read   *)
(* arbiter's address are behind the bounds on the counters: the first is   *)
(* up unless a word for the DMI is written, the second does not change     *)
(* under a serialisation.                                                  *)

WarbTyped ==
    warb \in [ready : BOOLEAN, cmd : {"CMD_NOP", "CMD_WRITE", "CMD_RESET"},
              addr : Addresses, data : Words \cup {<<>>}, enable : BOOLEAN]

TapTypes ==
    /\ rx \in Items /\ data_rec \in Items
    /\ decoder \in [state : {"idle", "handover", "wait_ack"},
                    cmd : Commands \cup {"CMD_NOP"}, addr : Addresses]
    /\ WarbTyped
    /\ deser.reset \in BOOLEAN /\ deser.run \in BOOLEAN /\ deser.done \in BOOLEAN
    /\ deser.bytes \in Seq(Bytes) /\ Len(deser.bytes) <= WordLength
    /\ rarb.cmd \in {"CMD_NOP", "CMD_READ", "CMD_CONT_READ", "CMD_RESET"}
    /\ rarb.addr \in Addresses /\ rarb.ready \in BOOLEAN
    /\ rarb.send \in BOOLEAN /\ rarb.read_ready \in BOOLEAN
    /\ ser \in [run : BOOLEAN, reset : BOOLEAN, length : Nat, count : Nat,
                busy : BOOLEAN, done : BOOLEAN, byte : Bytes, write : BOOLEAN]
    /\ latch.read_data \in Words \cup {IdCode, <<>>}
    /\ latch.read_valid \in BOOLEAN
    /\ valid_address \in {"ADDR_NOP", "ADDR_DMI"}
    /\ dmi.ready \in BOOLEAN /\ dmi.busy \in BOOLEAN /\ dmi.read_valid \in BOOLEAN
    /\ dmi.request \in Words \cup {<<>>} /\ dmi.resp \in Words
    /\ sent \in [word : Words \cup {<<>>}, n : Nat]
    /\ asked \in Addresses /\ taken \in BOOLEAN /\ held \in BOOLEAN

\* The serialiser counts from 0, and without a command it sends a DMI word.
SerialiserInv ==
    /\ ser.busy => ~ser.done /\ ser.count <= ser.length
    /\ ~ser.busy /\ ~ser.done => ser.count = 0
    /\ ser.run /\ Resting => rarb.addr = "ADDR_DMI"
    /\ ser.busy /\ Resting /\ ~ser.reset => rarb.addr = "ADDR_DMI"

-----------------------------------------------------------------------------
(* Where a word is that the host has begun to send.                        *)

InFlight == rx # NoItem \/ BUSY_O

Quiet == /\ ~deser.run /\ ~deser.done /\ ~dmi.ready
         /\ Len(deser.bytes) < WordLength

\* A command that the write arbiter has not yet taken over.
Pending(c) == \/ rx.kind = "command" /\ rx.cmd = c
              \/ decoder.state = "handover" /\ decoder.cmd = c

IsReset(item) == item.kind = "command" /\ item.cmd = "CMD_RESET"

\* One item at a time is on its way through the TAP, but for a reset behind a
\* command of the read arbiter.
FlowInv ==
    /\ rx # NoItem => data_rec = rx
    /\ rx # NoItem /\ BUSY_O => IsReset(rx) /\ held
    /\ held => BUSY_O /\ decoder.cmd # "CMD_WRITE"
    /\ InFlight => Quiet
    /\ deser.run => data_rec.kind = "data" /\ Len(deser.bytes) < WordLength
    /\ BUSY_O => decoder.cmd # "CMD_NOP"
    /\ rx.kind = "command" /\ rx.cmd = "CMD_WRITE" => rx.addr = "ADDR_DMI"
    /\ decoder.cmd = "CMD_WRITE" => decoder.addr = "ADDR_DMI"
    /\ Writing => warb.addr = "ADDR_DMI"
    /\ ~Writing => deser.reset

\* The bytes of the word that have arrived: one may be on its way.
OnItsWay == IF rx.kind = "data" \/ deser.run THEN 1 ELSE 0

Collecting ==
    /\ ~taken /\ ~dmi.busy /\ ~dmi.ready /\ ~deser.done /\ warb.data = <<>>
    /\ deser.reset => sent.n = 0 /\ OnItsWay = 0
    /\ ~deser.reset =>
          /\ warb.enable
          /\ sent.n = Len(deser.bytes) + OnItsWay
          /\ \A i \in 1 .. Len(deser.bytes) : deser.bytes[i] = sent.word[i]
          /\ OnItsWay = 1 => data_rec.byte = sent.word[sent.n]

\* The deserialiser is done, and the word is offered to the DMI from the next
\* edge on.
Complete ==
    /\ sent.n = WordLength /\ OnItsWay = 0
    /\ deser.done /\ deser.bytes = sent.word
    /\ \/ /\ ~taken /\ ~dmi.busy /\ ~dmi.ready /\ ~deser.reset
          /\ warb.data = <<>>
       \/ /\ ~taken /\ ~dmi.busy /\ dmi.ready /\ ~deser.reset
          /\ warb.data = sent.word
       \/ /\ taken /\ dmi.busy /\ dmi.ready /\ deser.reset
          /\ warb.data = sent.word

Served ==
    /\ sent.n = WordLength /\ OnItsWay = 0
    /\ taken /\ ~dmi.ready /\ ~deser.done /\ deser.bytes = <<>>

\* The host has reset the TAP, which has not seen it, and sends no more bytes.
Abandoned == sent = Unsent(<<>>) /\ Quiet /\ OnItsWay = 0

WordInv ==
    /\ Pending("CMD_WRITE") =>
          sent.word \in Words /\ sent.n = 0 /\ ~taken /\ ~dmi.busy
    /\ Pending("CMD_RESET") => sent = Unsent(<<>>) /\ ~taken
    /\ ~Pending("CMD_WRITE") /\ ~Pending("CMD_RESET") =>
          IF Writing THEN \/ sent.word \in Words /\ (Collecting \/ Complete \/ Served)
                          \/ Abandoned
          ELSE sent = Unsent(<<>>) /\ ~deser.done /\ OnItsWay = 0

TapInv == TapTypes /\ SerialiserInv /\ FlowInv /\ WordInv

-----------------------------------------------------------------------------
(* What an edge does, register by register.                                *)

LEMMA WordLengths ==
    /\ WordLength \in Nat \ {0}
    /\ \A w \in Words : w \in Seq(Bytes) /\ Len(w) = WordLength
    /\ IdCode \in Seq(Bytes) /\ Len(IdCode) \in Nat \ {0}
<1>1. PICK v \in Words : TRUE
    BY UartTapAssumption
<1>2. (CHOOSE w \in Words : TRUE) \in Words
    BY <1>1
<1>3. \A w \in Words : w \in Seq(Bytes) /\ Len(w) \in Nat
    BY UartTapAssumption
<1> QED
    BY <1>2, <1>3, UartTapAssumption DEF WordLength

\* What the host does at an edge, as far as words are concerned.
SendsItem(c) == rx' \in [kind : {"command"}, cmd : c, addr : Addresses]

HostStep ==
    \/ /\ rx' = IF rx_read THEN NoItem ELSE rx
       /\ UNCHANGED <<data_rec, sent>>
    \/ /\ Settled /\ data_rec' = rx'
       /\ SendsItem({"CMD_RESET"}) /\ sent' = Unsent(<<>>)
    \/ /\ Settled /\ ~BUSY_O /\ data_rec' = rx'
       /\ \/ SendsItem({"CMD_READ", "CMD_CONT_READ"}) /\ sent' = sent
          \/ /\ rx' = CommandItem("CMD_WRITE", "ADDR_DMI") /\ ~dmi.busy
             /\ \E w \in Words : sent' = Unsent(w)
          \/ /\ sent.n < Len(sent.word)
             /\ rx' = DataItem(sent.word[sent.n + 1])
             /\ sent' = [sent EXCEPT !.n = @ + 1]

LEMMA HostSteps ==
    ASSUME NEW end, HostSends(end) \/ HostListens(end), asked \in Addresses
    PROVE  HostStep
<1>1. CASE HostListens(end)
    BY <1>1 DEF HostListens, HostStep
<1>2. CASE HostSends(end)
    <2>1. ASSUME NEW c \in {"CMD_READ", "CMD_CONT_READ"}, NEW a \in Addresses,
                 SendsRead(c, a), ~BUSY_O
          PROVE  HostStep
        BY <1>2, <2>1 DEF HostSends, SendsNext, SendsRead, Sends, CommandItem, HostStep, SendsItem
    <2>2. CASE SendsEnd /\ ~BUSY_O
        BY <1>2, <2>2 DEF HostSends, SendsNext, SendsEnd, Sends, CommandItem, HostStep, SendsItem
    <2>3. CASE SendsReset
        BY <1>2, <2>3 DEF HostSends, SendsReset, Sends, CommandItem, HostStep, SendsItem
    <2>4. ASSUME NEW w \in Words, SendsWrite(w), ~BUSY_O PROVE HostStep
        BY <1>2, <2>4 DEF HostSends, SendsNext, SendsWrite, Sends, HostStep
    <2>5. CASE SendsByte /\ ~BUSY_O
        BY <1>2, <2>5 DEF HostSends, SendsNext, SendsByte, Sends, HostStep
    <2> QED
        BY <1>2, <2>1, <2>2, <2>3, <2>4, <2>5 DEF HostSends, SendsNext
<1> QED
    BY <1>1, <1>2

\* A deserialiser that is done holds the word, and nothing else is in flight.
LEMMA DoneWithWord ==
    ASSUME TapInv, deser.done
    PROVE  ~InFlight /\ Writing /\ Complete /\ sent.word \in Words
<1>1. ~InFlight
    BY DEF TapInv, FlowInv, Quiet
<1>2. ~Pending("CMD_WRITE") /\ ~Pending("CMD_RESET")
    BY <1>1 DEF InFlight, BUSY_O, Pending, NoItem
<1> QED
    BY <1>1, <1>2 DEF TapInv, WordInv, Collecting, Served, Abandoned, Quiet

\* The three steps of COMMAND_DECODER.
LEMMA DecoderSteps ==
    ASSUME TapTypes, Decoder
    PROVE  \/ /\ decoder.state = "idle" /\ rx_read /\ rx.kind = "command"
              /\ decoder' = [state |-> "handover", cmd |-> rx.cmd, addr |-> rx.addr]
           \/ /\ decoder.state = "handover"
              /\ \A arbiter \in HandsTo(decoder.cmd) : Ready(arbiter)
              /\ decoder' = [decoder EXCEPT !.state = "wait_ack"]
           \/ /\ decoder.state = "wait_ack" /\ ~warb.ready /\ ~rarb.ready
              /\ decoder' = [decoder EXCEPT !.state = "idle"]
           \/ /\ decoder' = decoder
              /\ ~(decoder.state = "idle" /\ rx_read /\ rx.kind = "command")
              /\ ~(/\ decoder.state = "handover"
                   /\ \A arbiter \in HandsTo(decoder.cmd) : Ready(arbiter))
              /\ ~(decoder.state = "wait_ack" /\ ~warb.ready /\ ~rarb.ready)
BY Zenon DEF Decoder

\* WRITE_ARBITER takes a command over, or goes on with the one it has.
LEMMA WriteArbiterSteps ==
    ASSUME TapTypes, WriteArbiter
    PROVE  \/ /\ Valid("write")
              /\ warb' = [ready |-> TRUE, cmd |-> decoder.cmd, addr |-> WRITE_ADDRESS_O,
                          data |-> <<>>, enable |-> FALSE]
           \/ /\ ~Valid("write")
              /\ warb'.ready = FALSE /\ warb'.addr = warb.addr
              /\ warb'.cmd = IF warb.cmd = "CMD_RESET" THEN "CMD_NOP" ELSE warb.cmd
              /\ warb'.enable = (Writing /\ ~deser.done)
              /\ warb'.data = IF warb.cmd = "CMD_RESET" THEN <<>>
                              ELSE IF Writing /\ deser.done THEN deser.bytes ELSE warb.data
              /\ warb'.data \in Words \cup {<<>>} => WarbTyped'
<1>1. CASE Valid("write")
    BY <1>1 DEF WriteArbiter
<1>2. CASE ~Valid("write")
    <2> DEFINE d == CASE warb.cmd = "CMD_RESET" -> <<>>
                      [] Writing /\ deser.done  -> deser.bytes
                      [] OTHER                  -> warb.data
    <2>1. d = IF warb.cmd = "CMD_RESET" THEN <<>>
              ELSE IF Writing /\ deser.done THEN deser.bytes ELSE warb.data
        <3>1. CASE warb.cmd = "CMD_RESET"
            BY <3>1 DEF Writing
        <3>2. CASE warb.cmd # "CMD_RESET" /\ Writing /\ deser.done
            BY <3>2
        <3>3. CASE warb.cmd # "CMD_RESET" /\ ~(Writing /\ deser.done)
            BY <3>3
        <3> QED
            BY <3>1, <3>2, <3>3
    <2>2. warb' = [warb EXCEPT !.ready = FALSE,
                               !.cmd = IF warb.cmd = "CMD_RESET" THEN "CMD_NOP" ELSE warb.cmd,
                               !.data = d, !.enable = Writing /\ ~deser.done]
        BY <1>2 DEF WriteArbiter
    <2> HIDE DEF d
    <2>3. /\ warb'.ready = FALSE /\ warb'.addr = warb.addr /\ warb'.data = d
          /\ warb'.cmd = IF warb.cmd = "CMD_RESET" THEN "CMD_NOP" ELSE warb.cmd
          /\ warb'.enable = (Writing /\ ~deser.done)
        BY <2>2 DEF TapTypes, WarbTyped
    <2>4. ASSUME d \in Words \cup {<<>>} PROVE WarbTyped'
        <3> DEFINE c == IF warb.cmd = "CMD_RESET" THEN "CMD_NOP" ELSE warb.cmd
        <3> DEFINE e == Writing /\ ~deser.done
        <3>1. c \in {"CMD_NOP", "CMD_WRITE", "CMD_RESET"} /\ e \in BOOLEAN
            BY DEF TapTypes, WarbTyped
        <3>2. warb' = [warb EXCEPT !.ready = FALSE, !.cmd = c, !.data = d, !.enable = e]
            BY <2>2
        <3> HIDE DEF c, e
        <3> QED
            BY <2>4, <3>1, <3>2 DEF TapTypes, WarbTyped
    <2> QED
        BY <1>2, <2>1, <2>3, <2>4
<1> QED
    BY <1>1, <1>2

\* RX_DESERIALIZER starts anew, takes a byte, or keeps what it has.
LEMMA DeserialiserSteps ==
    ASSUME Deserialiser
    PROVE  /\ deser'.reset = deser_reset_d /\ deser'.run = deser_run_d
           /\ deser'.done = (~deser.reset
                             /\ Len(deser.bytes) >= get_write_length(warb.addr))
           /\ \/ deser.reset /\ deser'.bytes = <<>>
              \/ /\ ~deser.reset /\ deser.run
                 /\ ~(Len(deser.bytes) >= get_write_length(warb.addr))
                 /\ deser'.bytes = Append(deser.bytes, data_rec.byte)
              \/ /\ ~deser.reset
                 /\ deser.run => Len(deser.bytes) >= get_write_length(warb.addr)
                 /\ deser'.bytes = deser.bytes
BY DEF Deserialiser

\* TX_SERIALIZER is reset, or counts the bytes taken.
LEMMA SerialiserSteps ==
    ASSUME TapTypes, Serialiser
    PROVE  /\ ser'.run = ser_run_d /\ ser'.reset = ser_reset_d
           /\ ser'.length = IF Accepting \/ Moved THEN get_read_length(read_address_d)
                            ELSE ser.length
           /\ ser.reset => /\ ser'.count = 0 /\ ~ser'.busy /\ ~ser'.done
                           /\ ser'.byte = Resume /\ ~ser'.write
           /\ ~ser.reset =>
                 /\ ser'.busy = ((ser.busy \/ (ser.run /\ ~ser.done)) /\ (ser.busy => more))
                 /\ ser'.done = (ser.done \/ (ser.busy /\ ~more))
                 /\ ser'.count = IF ser.busy /\ more /\ byte_taken THEN ser.count + 1
                                 ELSE ser.count
                 /\ ser'.byte = IF more /\ ser.count < Len(READ_DATA_O)
                                THEN READ_DATA_O[ser.count + 1] ELSE Resume
                 /\ ser'.write = (ser.busy /\ more /\ TX_READY_O)
           /\ DOMAIN ser' = {"run", "reset", "length", "count", "busy", "done", "byte", "write"}
<1> DEFINE next == [ser EXCEPT !.run = ser_run_d, !.reset = ser_reset_d,
                               !.length = IF Accepting \/ Moved
                                          THEN get_read_length(read_address_d) ELSE ser.length]
<1>1. CASE ser.reset
    BY <1>1 DEF Serialiser, TapTypes
<1>2. CASE ~ser.reset
    BY <1>2 DEF Serialiser, TapTypes
<1> QED
    BY <1>1, <1>2

\* A register has a length, and READ_DATA_O is one of them.
LEMMA ReadData ==
    ASSUME TapTypes
    PROVE  /\ READ_DATA_O \in Words \cup {IdCode, <<>>}
           /\ READ_DATA_O \in Seq(Bytes)
           /\ \A a \in Addresses : get_read_length(a) \in Nat \ {0}
<1>1. READ_DATA_O \in Words \cup {IdCode, <<>>}
    BY DEF TapTypes, READ_DATA_O
<1>2. <<>> \in Seq(Bytes)
    OBVIOUS
<1>3. READ_DATA_O \in Seq(Bytes)
    <2>1. CASE READ_DATA_O \in Words
        BY <2>1, WordLengths
    <2>2. CASE READ_DATA_O = IdCode
        BY <2>2, WordLengths
    <2>3. CASE READ_DATA_O = <<>>
        BY <2>3, <1>2
    <2> QED
        BY <1>1, <2>1, <2>2, <2>3
<1>4. \A a \in Addresses : get_read_length(a) \in Nat \ {0}
    BY WordLengths DEF get_read_length, get_write_length
<1> QED
    BY <1>1, <1>3, <1>4

-----------------------------------------------------------------------------
(* The types at an edge.                                                   *)

\* The host sends no more than its word.
LEMMA SentOfWord ==
    ASSUME TapInv
    PROVE  /\ sent.word \in Seq(Bytes) /\ sent.n \in 0 .. Len(sent.word)
           /\ sent.word = <<>> \/ (sent.word \in Words /\ Len(sent.word) = WordLength)
<1>1. sent.word = <<>> \/ sent.word \in Words
    BY DEF TapInv, TapTypes
<1>2. sent.word \in Seq(Bytes)
    <2>1. CASE sent.word \in Words
        BY <2>1, WordLengths
    <2>2. CASE sent.word = <<>>
        BY <2>2
    <2> QED
        BY <1>1, <2>1, <2>2
<1>3. sent.word \in Words => Len(sent.word) = WordLength
    BY WordLengths
<1>4. sent.n \in 0 .. Len(sent.word)
    <2>1. CASE Pending("CMD_WRITE")
        BY <2>1, <1>3, WordLengths DEF TapInv, WordInv
    <2>2. CASE Pending("CMD_RESET")
        BY <2>2 DEF TapInv, WordInv, Unsent
    <2>3. CASE ~Pending("CMD_WRITE") /\ ~Pending("CMD_RESET") /\ ~Writing
        BY <2>3 DEF TapInv, WordInv, Unsent
    <2>4. CASE ~Pending("CMD_WRITE") /\ ~Pending("CMD_RESET") /\ Writing
        <3>1. \/ sent.word \in Words /\ (Collecting \/ Complete \/ Served)
              \/ sent = Unsent(<<>>)
            BY <2>4 DEF TapInv, WordInv, Abandoned
        <3>2. CASE sent.word \in Words /\ (Complete \/ Served)
            BY <3>2, <1>3, WordLengths DEF Complete, Served
        <3>3. CASE sent.word \in Words /\ Collecting /\ deser.reset
            BY <3>3, <1>3, WordLengths DEF Collecting
        <3>4. CASE sent = Unsent(<<>>)
            BY <3>4 DEF Unsent
        <3>5. CASE sent.word \in Words /\ Collecting /\ ~deser.reset
            <4>1. /\ Len(deser.bytes) \in Nat /\ Len(deser.bytes) <= WordLength
                  /\ sent.n = Len(deser.bytes) + OnItsWay /\ OnItsWay \in {0, 1}
                <5>1. deser.bytes \in Seq(Bytes) /\ Len(deser.bytes) <= WordLength
                    BY DEF TapInv, TapTypes
                <5>2. OnItsWay \in {0, 1}
                    BY DEF OnItsWay
                <5> QED
                    BY <3>5, <5>1, <5>2 DEF Collecting
            <4>2. OnItsWay = 1 => Len(deser.bytes) < WordLength
                BY DEF OnItsWay, TapInv, FlowInv, InFlight, Quiet, NoItem
            <4> QED
                BY <3>5, <4>1, <4>2, <1>3, WordLengths
        <3> QED
            BY <3>1, <3>2, <3>3, <3>4, <3>5
    <2> QED
        BY <2>1, <2>2, <2>3, <2>4
<1> QED
    BY <1>1, <1>2, <1>3, <1>4

LEMMA HostTypes ==
    ASSUME TapInv, HostStep
    PROVE  /\ rx' \in Items /\ data_rec' \in Items
           /\ sent' \in [word : Words \cup {<<>>}, n : Nat]
<1>1. CASE rx' = (IF rx_read THEN NoItem ELSE rx) /\ UNCHANGED <<data_rec, sent>>
    BY <1>1 DEF TapInv, TapTypes, Items
<1>2. CASE /\ SendsItem({"CMD_READ", "CMD_CONT_READ"}) /\ sent' = sent
           /\ data_rec' = rx'
    BY <1>2 DEF TapInv, TapTypes, Items, SendsItem, Commands
<1>3. CASE SendsItem({"CMD_RESET"}) /\ sent' = Unsent(<<>>) /\ data_rec' = rx'
    BY <1>3 DEF TapInv, TapTypes, Items, SendsItem, Commands, Unsent
<1>4. CASE /\ rx' = CommandItem("CMD_WRITE", "ADDR_DMI") /\ data_rec' = rx'
           /\ \E w \in Words : sent' = Unsent(w)
    BY <1>4 DEF TapInv, TapTypes, Items, CommandItem, Commands, Addresses, Unsent
<1>5. CASE /\ sent.n < Len(sent.word) /\ data_rec' = rx'
           /\ rx' = DataItem(sent.word[sent.n + 1])
           /\ sent' = [sent EXCEPT !.n = @ + 1]
    <2>1. sent.word[sent.n + 1] \in Bytes
        BY <1>5, SentOfWord
    <2>2. rx' \in Items
        BY <1>5, <2>1 DEF Items, DataItem
    <2> QED
        BY <1>5, <2>2 DEF TapInv, TapTypes
<1> QED
    BY <1>1, <1>2, <1>3, <1>4, <1>5 DEF HostStep

LEMMA WriteTypes ==
    ASSUME TapInv, Decoder, WriteArbiter, Deserialiser
    PROVE  /\ decoder' \in [state : {"idle", "handover", "wait_ack"},
                            cmd : Commands \cup {"CMD_NOP"}, addr : Addresses]
           /\ WarbTyped'
           /\ deser'.reset \in BOOLEAN /\ deser'.run \in BOOLEAN /\ deser'.done \in BOOLEAN
           /\ deser'.bytes \in Seq(Bytes) /\ Len(deser'.bytes) <= WordLength
<1>1. decoder' \in [state : {"idle", "handover", "wait_ack"},
                    cmd : Commands \cup {"CMD_NOP"}, addr : Addresses]
    <2>1. CASE /\ rx.kind = "command"
               /\ decoder' = [state |-> "handover", cmd |-> rx.cmd, addr |-> rx.addr]
        <3>1. rx.cmd \in Commands /\ rx.addr \in Addresses
            BY <2>1 DEF TapInv, TapTypes, Items, NoItem
        <3> QED
            BY <2>1, <3>1
    <2> QED
        BY <2>1, DecoderSteps DEF TapInv, TapTypes
<1>2. WarbTyped'
    <2>1. CASE Valid("write")
        <3>1. decoder.cmd \in {"CMD_WRITE", "CMD_RESET"}
            BY <2>1 DEF Valid, HandsTo, TapInv, TapTypes, Commands, FlowInv, BUSY_O
        <3>2. WRITE_ADDRESS_O \in Addresses
            BY DEF TapInv, TapTypes, WRITE_ADDRESS_O, Addresses
        <3>3. warb' = [ready |-> TRUE, cmd |-> decoder.cmd, addr |-> WRITE_ADDRESS_O,
                       data |-> <<>>, enable |-> FALSE]
            BY <2>1 DEF WriteArbiter
        <3> QED
            BY <3>1, <3>2, <3>3 DEF WarbTyped
    <2>2. CASE ~Valid("write")
        <3>1. Writing /\ deser.done => deser.bytes \in Words
            BY DoneWithWord DEF Complete
        <3>2. warb'.data \in Words \cup {<<>>}
            BY <2>2, <3>1, WriteArbiterSteps DEF TapInv, TapTypes, WarbTyped
        <3> QED
            BY <2>2, <3>2, WriteArbiterSteps DEF TapInv
    <2> QED
        BY <2>1, <2>2
<1>3. deser'.reset \in BOOLEAN /\ deser'.run \in BOOLEAN /\ deser'.done \in BOOLEAN
    BY DeserialiserSteps DEF deser_reset_d, deser_run_d
<1>4. deser'.bytes \in Seq(Bytes) /\ Len(deser'.bytes) <= WordLength
    <2>1. deser.run => data_rec.byte \in Bytes /\ Len(deser.bytes) < WordLength
        BY DEF TapInv, TapTypes, FlowInv, Items, NoItem
    <2>2. deser.bytes \in Seq(Bytes) /\ Len(deser.bytes) <= WordLength
        BY DEF TapInv, TapTypes
    <2>3. CASE deser'.bytes = <<>>
        BY <2>3, WordLengths
    <2>4. CASE deser.run /\ deser'.bytes = Append(deser.bytes, data_rec.byte)
        BY <2>1, <2>2, <2>4, WordLengths
    <2>5. CASE deser'.bytes = deser.bytes
        BY <2>2, <2>5
    <2> QED
        BY <2>3, <2>4, <2>5, DeserialiserSteps
<1> QED
    BY <1>1, <1>2, <1>3, <1>4

LEMMA ReadTypes ==
    ASSUME TapInv, ReadArbiter, Serialiser, ReadInterconnect
    PROVE  /\ rarb'.cmd \in {"CMD_NOP", "CMD_READ", "CMD_CONT_READ", "CMD_RESET"}
           /\ rarb'.addr \in Addresses /\ rarb'.ready \in BOOLEAN
           /\ rarb'.send \in BOOLEAN /\ rarb'.read_ready \in BOOLEAN
           /\ ser' \in [run : BOOLEAN, reset : BOOLEAN, length : Nat, count : Nat,
                        busy : BOOLEAN, done : BOOLEAN, byte : Bytes, write : BOOLEAN]
           /\ latch'.read_data \in Words \cup {IdCode, <<>>}
           /\ latch'.read_valid \in BOOLEAN
           /\ valid_address' \in {"ADDR_NOP", "ADDR_DMI"}
<1>1. TapTypes
    BY DEF TapInv
<1>2. read_address_d \in Addresses
    BY <1>1 DEF read_address_d, Moved, Announced, TapTypes, Addresses
<1>3. read_command_d \in {"CMD_NOP", "CMD_READ", "CMD_CONT_READ", "CMD_RESET"}
    <2>1. Accepting => decoder.cmd \in {"CMD_READ", "CMD_CONT_READ", "CMD_RESET"}
        BY <1>1 DEF Accepting, Valid, HandsTo, TapTypes, TapInv, FlowInv, BUSY_O, Commands
    <2> QED
        BY <1>1, <2>1 DEF read_command_d, TapTypes
<1>4. /\ rarb'.cmd \in {"CMD_NOP", "CMD_READ", "CMD_CONT_READ", "CMD_RESET"}
      /\ rarb'.addr \in Addresses /\ rarb'.ready \in BOOLEAN
      /\ rarb'.send \in BOOLEAN /\ rarb'.read_ready \in BOOLEAN
    BY <1>2, <1>3 DEF ReadArbiter, Accepting, Moved, Announced
<1>5. /\ READ_DATA_O \in Words \cup {IdCode, <<>>} /\ READ_DATA_O \in Seq(Bytes)
      /\ get_read_length(read_address_d) \in Nat
    BY <1>1, <1>2, ReadData
<1>6. latch'.read_data \in Words \cup {IdCode, <<>>} /\ latch'.read_valid \in BOOLEAN
    BY <1>1, <1>5 DEF ReadInterconnect, READ_VALID_O, TapTypes
<1>7. valid_address' \in {"ADDR_NOP", "ADDR_DMI"}
    BY DEF ReadInterconnect
<1>8. ser' \in [run : BOOLEAN, reset : BOOLEAN, length : Nat, count : Nat,
                busy : BOOLEAN, done : BOOLEAN, byte : Bytes, write : BOOLEAN]
    <2> DEFINE length == IF Accepting \/ Moved THEN get_read_length(read_address_d)
                         ELSE ser.length
    <2> DEFINE byte == IF more /\ ser.count < Len(READ_DATA_O)
                       THEN READ_DATA_O[ser.count + 1] ELSE Resume
    <2>1. /\ ser_run_d \in BOOLEAN /\ ser_reset_d \in BOOLEAN /\ length \in Nat
          /\ byte \in Bytes
        BY <1>1, <1>5, TxPathAssumption DEF TapTypes, ser_run_d, ser_reset_d
    <2> DEFINE next == [ser EXCEPT !.run = ser_run_d, !.reset = ser_reset_d, !.length = length]
    <2>2. next \in [run : BOOLEAN, reset : BOOLEAN, length : Nat, count : Nat,
                    busy : BOOLEAN, done : BOOLEAN, byte : Bytes, write : BOOLEAN]
        <3> HIDE DEF length, byte
        <3> QED
            BY <1>1, <2>1 DEF TapTypes
    <2>3. CASE ser.reset
        <3>1. ser' = [next EXCEPT !.count = 0, !.busy = FALSE, !.done = FALSE,
                                  !.byte = Resume, !.write = FALSE]
            BY <2>3 DEF Serialiser
        <3> HIDE DEF next
        <3> QED
            BY <2>2, <3>1, TxPathAssumption
    <2>4. CASE ~ser.reset
        <3> DEFINE busy == (next.busy \/ (ser.run /\ ~ser.done)) /\ (ser.busy => more)
        <3> DEFINE done == next.done \/ (ser.busy /\ ~more)
        <3> DEFINE count == IF ser.busy /\ more /\ byte_taken THEN next.count + 1 ELSE next.count
        <3> DEFINE write == ser.busy /\ more /\ TX_READY_O
        <3>1. ser' = [next EXCEPT !.busy = busy, !.done = done, !.count = count,
                                  !.byte = byte, !.write = write]
            BY <2>4 DEF Serialiser
        <3>2. next.count \in Nat
            BY <2>2
        <3>3. busy \in BOOLEAN /\ done \in BOOLEAN /\ count \in Nat /\ write \in BOOLEAN
            BY <3>2
        <3> HIDE DEF next, busy, done, count, write, byte
        <3> QED
            BY <2>1, <2>2, <3>1, <3>3
    <2> QED
        BY <2>3, <2>4
<1> QED
    BY <1>4, <1>6, <1>7, <1>8

\* DMI_UART takes a word, ends a request, or waits.
LEMMA DmiSteps ==
    ASSUME NEW fin, DmiEnd(fin)
    PROVE  /\ fin => dmi.busy /\ ~dmi.ready
           /\ dmi'.ready = (~dmi.busy /\ WRITE_VALID_O /\ warb.addr = "ADDR_DMI")
           /\ dmi'.busy = IF dmi.busy THEN ~fin
                          ELSE WRITE_VALID_O /\ warb.addr = "ADDR_DMI" /\ warb.data # <<>>
           /\ dmi'.request = IF ~dmi.busy /\ WRITE_VALID_O /\ warb.addr = "ADDR_DMI"
                             THEN warb.data ELSE dmi.request
           /\ dmi'.resp \in IF fin THEN Words ELSE {dmi.resp}
           /\ dmi'.read_valid = (~dmi.busy /\ rarb.read_ready /\ rarb.addr = "ADDR_DMI")
<1>1. PICK answer \in IF fin THEN Words ELSE {dmi.resp} :
         dmi' = [ready   |-> ~dmi.busy /\ WRITE_VALID_O /\ warb.addr = "ADDR_DMI",
                 busy    |-> IF dmi.busy THEN ~fin
                             ELSE WRITE_VALID_O /\ warb.addr = "ADDR_DMI" /\ warb.data # <<>>,
                 request |-> IF ~dmi.busy /\ WRITE_VALID_O /\ warb.addr = "ADDR_DMI"
                             THEN warb.data ELSE dmi.request,
                 resp    |-> answer,
                 read_valid |-> ~dmi.busy /\ rarb.read_ready /\ rarb.addr = "ADDR_DMI"]
    BY DEF DmiEnd
<1>2. fin => dmi.busy /\ ~dmi.ready
    BY DEF DmiEnd
<1> QED
    BY <1>1, <1>2

LEMMA DmiTypes ==
    ASSUME TapInv, NEW fin \in BOOLEAN, DmiEnd(fin), Taken
    PROVE  /\ dmi'.ready \in BOOLEAN /\ dmi'.busy \in BOOLEAN /\ dmi'.read_valid \in BOOLEAN
           /\ dmi'.request \in Words \cup {<<>>} /\ dmi'.resp \in Words
           /\ taken' \in BOOLEAN
<1>1. TapTypes
    BY DEF TapInv
<1>2. dmi'.ready \in BOOLEAN /\ dmi'.busy \in BOOLEAN /\ dmi'.read_valid \in BOOLEAN
    BY DmiSteps
<1>3. dmi'.request \in Words \cup {<<>>}
    BY <1>1, DmiSteps DEF TapTypes, WarbTyped
<1>4. dmi'.resp \in Words
    BY <1>1, DmiSteps DEF TapTypes
<1>5. taken' \in BOOLEAN
    BY <1>1 DEF TapTypes, Taken
<1> QED
    BY <1>2, <1>3, <1>4, <1>5

\* The edge as its parts see it.
LEMMA NextSteps ==
    ASSUME Next, asked \in Addresses
    PROVE  /\ HostStep /\ asked' \in Addresses
           /\ Decoder /\ WriteArbiter /\ Deserialiser /\ ReadInterconnect
           /\ ReadArbiter /\ Serialiser /\ Taken /\ Held
           /\ \E fin \in BOOLEAN : DmiEnd(fin)
<1>1. PICK fin \in BOOLEAN, end \in BOOLEAN :
          (HostSends(end) \/ HostListens(end)) /\ Clock(fin, end)
    BY DEF Next
<1>2. HostStep
    BY <1>1, HostSteps
<1>3. asked' \in Addresses
    BY <1>1 DEF HostSends, HostListens, SendsNext, SendsRead, SendsEnd, SendsReset, SendsWrite, SendsByte
<1> QED
    BY <1>1, <1>2, <1>3 DEF Clock

LEMMA TypesStep == TapInv /\ Next => TapTypes'
<1> SUFFICES ASSUME TapInv, Next PROVE TapTypes'
    OBVIOUS
<1>1. TapTypes
    BY DEF TapInv
<1>2. asked \in Addresses
    BY <1>1 DEF TapTypes
<1>3. PICK fin \in BOOLEAN : DmiEnd(fin)
    BY <1>2, NextSteps
<1> QED
    BY <1>2, <1>3, NextSteps, HostTypes, WriteTypes, ReadTypes, DmiTypes DEF TapTypes, Held

-----------------------------------------------------------------------------
(* The counters of the serialiser at an edge.                              *)

LEMMA SerialiserStep == TapInv /\ Next => SerialiserInv'
<1> SUFFICES ASSUME TapInv, Next PROVE SerialiserInv'
    OBVIOUS
<1>1. TapTypes /\ SerialiserInv
    BY DEF TapInv
<1>2. ReadArbiter /\ Serialiser
    BY <1>1, NextSteps DEF TapTypes
<1>3. /\ ser.run \in BOOLEAN /\ ser.reset \in BOOLEAN /\ ser.busy \in BOOLEAN
      /\ ser.done \in BOOLEAN /\ ser.count \in Nat /\ ser.length \in Nat
    BY <1>1 DEF TapTypes
\* The address changes only between serialisations.
<1>4. ser.busy /\ ~ser.reset => ~Accepting /\ ~Moved
    BY <1>1, <1>3 DEF Accepting, Moved, Announced, SerialiserInv, TapTypes
<1>5. /\ ser'.busy => ~ser'.done /\ ser'.count <= ser'.length
      /\ ~ser'.busy /\ ~ser'.done => ser'.count = 0
    <2>1. CASE ser.reset
        BY <1>1, <1>2, <2>1, SerialiserSteps
    <2>2. CASE ~ser.reset /\ ser.busy
        <3>1. ser'.length = ser.length
            BY <1>1, <1>2, <1>4, <2>2, SerialiserSteps
        <3>2. /\ ser'.busy = ((ser.busy \/ (ser.run /\ ~ser.done)) /\ (ser.busy => more))
              /\ ser'.done = (ser.done \/ (ser.busy /\ ~more))
              /\ ser'.count = IF ser.busy /\ more /\ byte_taken THEN ser.count + 1
                              ELSE ser.count
            BY <1>1, <1>2, <2>2, SerialiserSteps
        <3>3. ~ser.done
            BY <1>1, <2>2 DEF SerialiserInv
        <3>4. CASE more
            <4>1. ser'.busy /\ ~ser'.done
                BY <2>2, <3>2, <3>3, <3>4
            <4>2. ser'.count <= ser'.length
                BY <1>3, <3>1, <3>2, <3>4 DEF more
            <4> QED
                BY <4>1, <4>2
        <3>5. CASE ~more
            BY <2>2, <3>2, <3>5
        <3> QED
            BY <3>4, <3>5
    <2>3. CASE ~ser.reset /\ ~ser.busy
        <3>1. ser'.length \in Nat
            BY TypesStep DEF TapTypes
        <3> QED
            BY <1>1, <1>2, <1>3, <2>3, <3>1, SerialiserSteps DEF SerialiserInv
    <2> QED
        BY <1>3, <2>1, <2>2, <2>3
\* A command that is accepted is not NOP, and one that ends is reset or done.
<1>6. /\ rarb'.cmd = read_command_d /\ rarb'.addr = read_address_d
      /\ Accepting => decoder.cmd # "CMD_NOP"
    BY <1>2 DEF ReadArbiter, TapInv, FlowInv, Accepting, Valid, BUSY_O
<1>7. ser'.run /\ Resting' => rarb'.addr = "ADDR_DMI"
    <2> SUFFICES ASSUME ser_run_d, read_command_d = "CMD_NOP"
                 PROVE  read_address_d = "ADDR_DMI"
        BY <1>1, <1>2, <1>6, SerialiserSteps DEF Resting
    <2>1. ~Reading
        BY <1>6 DEF Reading, ser_run_d, read_command_d
    <2>2. Announced /\ ~Moved
        BY <2>1 DEF ser_run_d
    <2>3. ~Accepting
        BY <1>6, <2>2 DEF read_command_d, Announced, Resting
    <2> QED
        BY <1>1, <2>2, <2>3 DEF read_address_d, Announced, Moved, TapTypes
<1>8. ser'.busy /\ Resting' /\ ~ser'.reset => rarb'.addr = "ADDR_DMI"
    <2> SUFFICES ASSUME ser'.busy, read_command_d = "CMD_NOP", ~ser_reset_d
                 PROVE  read_address_d = "ADDR_DMI"
        BY <1>1, <1>2, <1>6, SerialiserSteps DEF Resting
    <2>1. /\ ~ser.reset /\ ~ser.done
          /\ ser.busy \/ ser.run
        BY <1>1, <1>2, <1>3, SerialiserSteps DEF SerialiserInv
    <2>2. Resting /\ ~Accepting
        BY <1>6, <2>1 DEF read_command_d, ser_reset_d, Resting
    <2>3. rarb.addr = "ADDR_DMI"
        BY <1>1, <2>1, <2>2 DEF SerialiserInv
    <2> QED
        BY <1>1, <2>2, <2>3 DEF read_address_d, Moved, Announced, TapTypes
<1> QED
    BY <1>5, <1>7, <1>8 DEF SerialiserInv

-----------------------------------------------------------------------------
(* The flow of items at an edge.                                           *)

\* What RX_Escape offers is read at once by an idle TAP, and else it is a reset.
LEMMA ItemsAreRead == TapInv /\ rx # NoItem => rx_read \/ (BUSY_O /\ IsReset(rx))
<1> SUFFICES ASSUME TapInv, rx # NoItem, ~BUSY_O PROVE rx_read
    BY DEF TapInv, FlowInv
<1>1. rx.kind \in {"command", "data"}
    BY DEF TapInv, TapTypes, Items
<1>2. CASE rx.kind = "command"
    BY <1>1, <1>2 DEF rx_read
<1>3. CASE rx.kind = "data"
    <2>1. ~Pending("CMD_WRITE") /\ ~Pending("CMD_RESET")
        BY <1>3 DEF Pending, BUSY_O
    <2>2. OnItsWay = 1
        BY <1>3 DEF OnItsWay
    <2>3. warb.enable
        BY <2>1, <2>2 DEF TapInv, WordInv, Collecting, Complete, Served, Abandoned
    <2> QED
        BY <2>3 DEF rx_read
<1> QED
    BY <1>1, <1>2, <1>3

LEMMA ItemsArrive ==
    ASSUME TapInv, Next
    PROVE  /\ rx' # NoItem =>
                 \/ rx' = rx /\ BUSY_O /\ IsReset(rx)
                 \/ /\ Settled /\ rx = NoItem /\ data_rec' = rx'
                    /\ BUSY_O => IsReset(rx') /\ held
           /\ rx # NoItem => /\ data_rec' = data_rec /\ sent' = sent
                             /\ rx' = NoItem \/ (rx' = rx /\ BUSY_O)
           /\ rx' = NoItem => data_rec' = data_rec /\ sent' = sent
<1>1. HostStep
    BY NextSteps DEF TapInv, TapTypes
<1>2. rx # NoItem => rx_read \/ (BUSY_O /\ IsReset(rx))
    BY ItemsAreRead
<1>3. Settled => rx = NoItem /\ (BUSY_O => held)
    BY DEF Settled
<1>4. /\ \A c : SendsItem(c) => rx' # NoItem
      /\ SendsItem({"CMD_RESET"}) => IsReset(rx')
    BY DEF SendsItem, NoItem, IsReset
<1>5. CommandItem("CMD_WRITE", "ADDR_DMI") # NoItem /\ \A b : DataItem(b) # NoItem
    BY DEF CommandItem, DataItem, NoItem
<1> QED
    BY <1>1, <1>2, <1>3, <1>4, <1>5 DEF HostStep

\* Without a data byte the deserialiser stays quiet.
LEMMA QuietNext ==
    ASSUME TapInv, Next, Quiet, rx.kind # "data"
    PROVE  Quiet'
<1>1. TapTypes /\ asked \in Addresses
    BY DEF TapInv, TapTypes
<1>2. Deserialiser /\ \E fin \in BOOLEAN : DmiEnd(fin)
    BY <1>1, NextSteps
<1>3. ~deser.reset => get_write_length(warb.addr) = WordLength
    BY DEF TapInv, FlowInv, get_write_length
<1>4. ~deser'.run
    BY <1>2, DeserialiserSteps DEF deser_run_d
<1>5. ~deser'.done
    BY <1>1, <1>2, <1>3, WordLengths, DeserialiserSteps DEF Quiet, TapTypes
<1>6. Len(deser'.bytes) < WordLength
    BY <1>2, WordLengths, DeserialiserSteps DEF Quiet
<1>7. ~dmi'.ready
    BY <1>2, DmiSteps DEF Quiet, WRITE_VALID_O
<1> QED
    BY <1>4, <1>5, <1>6, <1>7 DEF Quiet

LEMMA FlowStep == TapInv /\ Next => FlowInv'
<1> SUFFICES ASSUME TapInv, Next PROVE FlowInv'
    OBVIOUS
<1>1. TapTypes /\ asked \in Addresses /\ FlowInv
    BY DEF TapInv, TapTypes
<1>2. HostStep /\ Decoder /\ WriteArbiter /\ Deserialiser
    BY <1>1, NextSteps
<1>3. /\ rx' # NoItem => data_rec' = rx'
      /\ rx' # NoItem /\ BUSY_O' => IsReset(rx') /\ held'
    <2> SUFFICES ASSUME rx' # NoItem
                 PROVE  data_rec' = rx' /\ (BUSY_O' => IsReset(rx') /\ held')
        OBVIOUS
    <2>1. /\ data_rec' = rx'
          /\ BUSY_O => IsReset(rx') /\ held
          /\ ~BUSY_O => rx = NoItem
        BY <1>1, ItemsArrive DEF FlowInv
    <2>2. CASE BUSY_O
        BY <1>1, <2>1, <2>2, NextSteps DEF Held, BUSY_O
    <2>3. CASE ~BUSY_O
        <3>1. decoder' = decoder
            BY <1>1, <1>2, <2>1, <2>3, DecoderSteps DEF NoItem, BUSY_O
        <3> QED
            BY <2>1, <2>3, <3>1 DEF BUSY_O
    <2> QED
        BY <2>2, <2>3
<1>4. BUSY_O' => BUSY_O \/ rx.kind = "command"
    BY <1>1, <1>2, DecoderSteps DEF BUSY_O
<1>5. held' => BUSY_O' /\ decoder'.cmd # "CMD_WRITE"
    <2> SUFFICES ASSUME held' PROVE BUSY_O' /\ decoder'.cmd # "CMD_WRITE"
        OBVIOUS
    <2>1. BUSY_O' /\ (held \/ Valid("read"))
        BY <1>1, NextSteps DEF Held, BUSY_O
    <2>2. BUSY_O /\ decoder.cmd # "CMD_WRITE"
        BY <1>1, <2>1 DEF FlowInv, Valid, HandsTo, BUSY_O
    <2>3. decoder'.cmd = decoder.cmd
        BY <1>1, <1>2, <2>2, DecoderSteps DEF BUSY_O, TapTypes
    <2> QED
        BY <2>1, <2>2, <2>3
<1>6. InFlight' => Quiet'
    <2>1. CASE rx' # NoItem
        <3>1. Quiet /\ rx.kind # "data"
            BY <1>1, <2>1, ItemsArrive DEF Settled, Quiet, NoItem, FlowInv, InFlight, IsReset
        <3> QED
            BY <3>1, QuietNext
    <2>2. CASE BUSY_O'
        <3>1. Quiet /\ rx.kind # "data"
            BY <1>1, <1>4, <2>2 DEF FlowInv, InFlight, NoItem, IsReset
        <3> QED
            BY <3>1, QuietNext
    <2> QED
        BY <2>1, <2>2 DEF InFlight
<1>7. deser'.run => data_rec'.kind = "data" /\ Len(deser'.bytes) < WordLength
    <2> SUFFICES ASSUME deser'.run
                 PROVE  data_rec'.kind = "data" /\ Len(deser'.bytes) < WordLength
        OBVIOUS
    <2>1. rx.kind = "data" /\ rx # NoItem
        <3>1. deser_run_d
            BY <1>2, DeserialiserSteps
        <3> QED
            BY <3>1 DEF deser_run_d, NoItem
    <2>2. Quiet /\ data_rec' = data_rec /\ data_rec = rx
        BY <1>1, <2>1, ItemsArrive DEF FlowInv, InFlight
    <2>3. Len(deser'.bytes) < WordLength
        BY <1>2, <2>2, WordLengths, DeserialiserSteps DEF Quiet
    <2> QED
        BY <2>1, <2>2, <2>3
<1>8. rx.kind = "command" => rx.cmd # "CMD_NOP"
    BY <1>1 DEF TapTypes, Items, NoItem, Commands
<1>9. /\ BUSY_O' => decoder'.cmd # "CMD_NOP"
      /\ decoder'.cmd = "CMD_WRITE" => decoder'.addr = "ADDR_DMI"
    <2>1. CASE rx.kind = "command" /\ decoder' = [state |-> "handover", cmd |-> rx.cmd, addr |-> rx.addr]
        BY <1>1, <1>8, <2>1 DEF FlowInv
    <2>2. CASE /\ decoder'.cmd = decoder.cmd /\ decoder'.addr = decoder.addr
               /\ BUSY_O' => BUSY_O
        BY <1>1, <2>2 DEF FlowInv
    <2> QED
        BY <1>1, <1>2, <2>1, <2>2, DecoderSteps DEF BUSY_O, TapTypes
<1>10. rx'.kind = "command" /\ rx'.cmd = "CMD_WRITE" => rx'.addr = "ADDR_DMI"
    <2> SUFFICES ASSUME rx'.kind = "command", rx'.cmd = "CMD_WRITE"
                 PROVE  rx'.addr = "ADDR_DMI"
        OBVIOUS
    <2>1. rx' # NoItem /\ ~IsReset(rx')
        BY DEF NoItem, IsReset
    <2>2. rx' = CommandItem("CMD_WRITE", "ADDR_DMI")
        BY <1>2, <2>1, ItemsArrive, ItemsAreRead DEF HostStep, SendsItem, DataItem, IsReset
    <2> QED
        BY <2>2 DEF CommandItem
<1>11. Writing' => warb'.addr = "ADDR_DMI"
    <2>1. CASE Valid("write")
        <3>1. warb'.cmd = decoder.cmd /\ (Writing' => warb'.addr = decoder.addr)
            BY <2>1, <1>2 DEF WriteArbiter, WRITE_ADDRESS_O, Writing
        <3> QED
            BY <1>1, <3>1 DEF FlowInv, Writing
    <2>2. CASE ~Valid("write")
        <3>1. warb'.addr = warb.addr /\ (Writing' => Writing)
            BY <1>1, <1>2, <2>2, WriteArbiterSteps DEF Writing
        <3> QED
            BY <1>1, <3>1 DEF FlowInv
    <2> QED
        BY <2>1, <2>2
<1>12. ~Writing' => deser'.reset
    BY <1>1, <1>2, WriteArbiterSteps, DeserialiserSteps
       DEF deser_reset_d, Writing
<1> QED
    BY <1>3, <1>5, <1>6, <1>7, <1>9, <1>10, <1>11, <1>12 DEF FlowInv

-----------------------------------------------------------------------------
(* The word at an edge: it is collected, complete, and served, in the      *)
(* order of these lemmas.                                                  *)

\* What an edge does to a word that is being written.
LEMMA WritingEdge ==
    ASSUME TapInv, Next, Writing, ~Valid("write")
    PROVE  /\ Writing'
           /\ (warb'.enable <=> ~deser.done)
           /\ warb'.data = IF deser.done THEN deser.bytes ELSE warb.data
           /\ (deser'.reset <=> deser.done /\ dmi.ready)
           /\ (deser'.run <=> rx.kind = "data")
           /\ (deser'.done <=> ~deser.reset /\ Len(deser.bytes) >= WordLength)
           /\ \/ deser.reset /\ deser'.bytes = <<>>
              \/ ~deser.reset /\ deser.run /\ deser'.bytes = Append(deser.bytes, data_rec.byte)
              \/ ~deser.reset /\ ~deser.run /\ deser'.bytes = deser.bytes
<1>1. TapTypes /\ asked \in Addresses /\ warb.addr = "ADDR_DMI"
    BY DEF TapInv, TapTypes, FlowInv
<1>2. WriteArbiter /\ Deserialiser
    BY <1>1, NextSteps
<1>3. /\ warb'.cmd = warb.cmd /\ warb'.enable = (Writing /\ ~deser.done)
      /\ warb'.data = IF Writing /\ deser.done THEN deser.bytes ELSE warb.data
    BY <1>1, <1>2, WriteArbiterSteps DEF Writing
<1>4. /\ Writing' /\ (warb'.enable <=> ~deser.done)
      /\ warb'.data = IF deser.done THEN deser.bytes ELSE warb.data
    BY <1>1, <1>3 DEF Writing, TapTypes
<1>5. deser'.reset <=> deser.done /\ dmi.ready
    BY <1>1, <1>2, DeserialiserSteps DEF deser_reset_d, WRITE_READY_I
<1>6. deser'.run <=> rx.kind = "data"
    BY <1>2, DeserialiserSteps DEF deser_run_d
<1>7. get_write_length(warb.addr) = WordLength
    BY <1>1 DEF get_write_length
<1>8. deser.run => ~(Len(deser.bytes) >= WordLength)
    BY WordLengths DEF TapInv, FlowInv, TapTypes
<1> QED
    BY <1>2, <1>4, <1>5, <1>6, <1>7, <1>8, DeserialiserSteps

\* What an edge does to the DMI and to the history of the word.
LEMMA DmiEdge ==
    ASSUME TapInv, Next
    PROVE  /\ (dmi'.ready <=> ~dmi.busy /\ deser.done /\ warb.addr = "ADDR_DMI")
           /\ ~dmi.busy => (dmi'.busy <=> deser.done /\ warb.addr = "ADDR_DMI" /\ warb.data # <<>>)
           /\ dmi.busy /\ dmi.ready => dmi'.busy
           /\ taken' = IF sent'.n = 0 THEN FALSE ELSE taken \/ (~dmi.busy /\ dmi'.busy)
<1>1. asked \in Addresses
    BY DEF TapInv, TapTypes
<1>2. Taken /\ \E fin \in BOOLEAN : DmiEnd(fin)
    BY <1>1, NextSteps
<1> QED
    BY <1>2, DmiSteps DEF Taken, WRITE_VALID_O

\* The host sends the next byte.
LEMMA ByteIsSent ==
    ASSUME TapInv, Next, Writing, Collecting \/ Complete \/ Served,
           ~Valid("write"), sent.word \in Words, rx'.kind = "data"
    PROVE  sent'.word \in Words /\ Collecting'
<1>1. TapTypes /\ asked \in Addresses
    BY DEF TapInv, TapTypes
<1>2. HostStep
    BY <1>1, NextSteps
<1>3. Settled /\ rx = NoItem /\ data_rec' = rx'
    BY ItemsArrive DEF NoItem, IsReset
<1>4. /\ sent.n < Len(sent.word) /\ rx' = DataItem(sent.word[sent.n + 1])
      /\ sent' = [sent EXCEPT !.n = @ + 1]
    BY <1>2, <1>3 DEF HostStep, SendsItem, CommandItem, NoItem
<1>5. /\ ~deser.run /\ ~deser.done /\ ~deser.reset /\ ~dmi.ready
      /\ Len(deser.bytes) < WordLength
    BY <1>3 DEF Settled
<1>6. Collecting /\ OnItsWay = 0
    BY <1>3, <1>4, <1>5, WordLengths DEF Complete, Served, OnItsWay, NoItem
<1>7. /\ sent.n = Len(deser.bytes) /\ sent'.n = sent.n + 1 /\ sent'.word = sent.word
      /\ data_rec'.byte = sent.word[sent.n + 1]
    BY <1>1, <1>3, <1>4, <1>5, <1>6 DEF Collecting, DataItem, TapTypes
<1>8. OnItsWay' = 1
    BY DEF OnItsWay
<1>9. deser.bytes \in Seq(Bytes) /\ Len(deser.bytes) \in Nat
    BY <1>1 DEF TapTypes
<1>10. ~deser'.done /\ deser'.bytes = deser.bytes /\ ~deser'.reset
    BY <1>5, <1>9, WordLengths, WritingEdge
<1>11. warb'.enable /\ warb'.data = <<>>
    BY <1>5, <1>6, WritingEdge DEF Collecting
<1>12. ~taken' /\ ~dmi'.busy /\ ~dmi'.ready
    BY <1>5, <1>6, DmiEdge DEF Collecting
<1> QED
    BY <1>6, <1>7, <1>8, <1>9, <1>10, <1>11, <1>12 DEF Collecting

\* The deserialiser takes the bytes, and is complete after the last.
LEMMA WordIsCollected ==
    ASSUME TapInv, Next, Writing, Collecting,
           ~Valid("write"), sent.word \in Words, rx'.kind # "data", sent' = sent
    PROVE  Collecting' \/ Complete'
<1>1. TapTypes
    BY DEF TapInv
<1>2. /\ deser.bytes \in Seq(Bytes) /\ Len(deser.bytes) \in Nat
      /\ Len(deser.bytes) <= WordLength /\ WordLength \in Nat \ {0}
    BY <1>1, WordLengths DEF TapTypes
<1>3. ~taken' /\ ~dmi'.busy /\ ~dmi'.ready /\ ~deser'.reset /\ warb'.enable /\ warb'.data = <<>>
    BY DmiEdge, WritingEdge DEF Collecting
<1>4. OnItsWay' = IF rx.kind = "data" THEN 1 ELSE 0
    BY WritingEdge DEF OnItsWay
<1>5. CASE deser.reset
    <2>1. sent.n = 0 /\ rx.kind # "data"
        BY <1>5 DEF Collecting, OnItsWay
    <2>2. deser'.bytes = <<>> /\ Len(deser'.bytes) = 0 /\ ~deser'.done /\ OnItsWay' = 0
        BY <1>4, <1>5, <2>1, WritingEdge
    <2> QED
        BY <1>3, <2>1, <2>2 DEF Collecting
<1>6. CASE ~deser.reset /\ rx.kind = "data"
    <2>1. rx # NoItem
        BY <1>6 DEF NoItem
    <2>2. data_rec' = data_rec /\ Quiet
        BY <2>1, ItemsArrive DEF TapInv, FlowInv, InFlight
    <2>3. deser'.bytes = deser.bytes /\ ~deser'.done
        BY <1>2, <1>6, <2>2, WritingEdge DEF Quiet
    <2> QED
        BY <1>3, <1>4, <1>6, <2>2, <2>3 DEF Collecting, OnItsWay
<1>7. CASE ~deser.reset /\ rx.kind # "data" /\ deser.run
    <2>1. Len(deser.bytes) < WordLength
        BY <1>7 DEF TapInv, FlowInv
    <2>2. deser'.bytes = Append(deser.bytes, data_rec.byte) /\ ~deser'.done
        BY <1>2, <1>7, <2>1, WritingEdge
    <2>3. data_rec.byte \in Bytes
        BY <1>1, <1>7 DEF TapInv, FlowInv, TapTypes, Items, NoItem
    <2>4. /\ Len(deser'.bytes) = Len(deser.bytes) + 1
          /\ deser'.bytes[Len(deser.bytes) + 1] = data_rec.byte
          /\ \A i \in 1 .. Len(deser.bytes) : deser'.bytes[i] = deser.bytes[i]
        BY <1>2, <2>2, <2>3
    <2>5. /\ sent.n = Len(deser.bytes) + 1 /\ data_rec.byte = sent.word[sent.n]
          /\ \A i \in 1 .. Len(deser.bytes) : deser.bytes[i] = sent.word[i]
        BY <1>7 DEF Collecting, OnItsWay
    <2>6. \A i \in 1 .. Len(deser'.bytes) : deser'.bytes[i] = sent.word[i]
        <3> DEFINE l == Len(deser.bytes)
        <3>1. \A i \in 1 .. l + 1 : i \in 1 .. l \/ i = l + 1
            BY <1>2
        <3> QED
            BY <2>4, <2>5, <3>1
    <2>7. OnItsWay' = 0
        BY <1>4, <1>7
    <2> QED
        BY <1>2, <1>3, <2>2, <2>4, <2>5, <2>6, <2>7 DEF Collecting
<1>8. CASE ~deser.reset /\ rx.kind # "data" /\ ~deser.run
    <2>1. /\ sent.n = Len(deser.bytes)
          /\ \A i \in 1 .. Len(deser.bytes) : deser.bytes[i] = sent.word[i]
        <3>1. OnItsWay = 0
            BY <1>8 DEF OnItsWay
        <3> QED
            BY <1>2, <1>8, <3>1 DEF Collecting
    <2>2. deser'.bytes = deser.bytes /\ OnItsWay' = 0
        BY <1>4, <1>8, WritingEdge
    <2>3. CASE Len(deser.bytes) < WordLength
        <3>1. ~deser'.done
            BY <1>2, <2>3, WritingEdge
        <3> QED
            BY <1>2, <1>3, <2>1, <2>2, <3>1 DEF Collecting
    <2>4. CASE Len(deser.bytes) = WordLength
        <3>1. deser'.done
            BY <1>2, <1>8, <2>4, WritingEdge
        <3>2. sent.word \in Seq(Bytes) /\ Len(sent.word) = WordLength
            BY WordLengths
        <3>3. deser.bytes = sent.word
            BY <1>2, <2>1, <2>4, <3>2
        <3> QED
            BY <1>3, <2>1, <2>2, <2>4, <3>1, <3>3 DEF Complete
    <2> QED
        BY <1>2, <2>3, <2>4
<1> QED
    BY <1>1, <1>5, <1>6, <1>7, <1>8 DEF TapTypes

\* A complete word is handed to the DMI in three edges.
LEMMA WordIsTaken ==
    ASSUME TapInv, Next, Writing, Complete, sent.word \in Words
    PROVE  /\ Complete' \/ Served'
           /\ sent' = sent /\ Writing'
<1>1. /\ deser.bytes \in Seq(Bytes) /\ Len(deser.bytes) = WordLength
      /\ WordLength \in Nat \ {0} /\ sent.word # <<>>
      /\ warb.addr = "ADDR_DMI"
    BY WordLengths DEF Complete, TapInv, FlowInv
<1>2. ~InFlight /\ rx = NoItem /\ ~Valid("write")
    BY DoneWithWord DEF Complete, InFlight, BUSY_O, Valid
<1>3. rx' = NoItem /\ sent' = sent
    BY <1>2, ItemsArrive DEF Complete, Settled, InFlight
<1>4. ~deser'.run /\ OnItsWay' = 0
    BY <1>2, <1>3, WritingEdge DEF OnItsWay, NoItem
<1>5. sent.n # 0 /\ sent'.n = WordLength /\ ~deser.run
    BY <1>1, <1>3 DEF Complete, OnItsWay
<1>6. warb'.data = sent.word /\ Writing'
    BY <1>2, WritingEdge DEF Complete
<1>7. CASE ~taken /\ ~dmi.busy /\ ~dmi.ready /\ ~deser.reset /\ warb.data = <<>>
    <2>1. ~dmi'.busy /\ dmi'.ready /\ ~taken'
        BY <1>1, <1>3, <1>5, <1>7, DmiEdge DEF Complete
    <2>2. ~deser'.reset /\ deser'.done /\ deser'.bytes = deser.bytes
        BY <1>1, <1>2, <1>5, <1>7, WritingEdge DEF Complete
    <2> QED
        BY <1>3, <1>4, <1>5, <1>6, <2>1, <2>2 DEF Complete
<1>8. CASE ~taken /\ ~dmi.busy /\ dmi.ready /\ ~deser.reset /\ warb.data = sent.word
    <2>1. dmi'.busy /\ dmi'.ready /\ taken'
        BY <1>1, <1>3, <1>5, <1>8, DmiEdge DEF Complete
    <2>2. deser'.reset /\ deser'.done /\ deser'.bytes = deser.bytes
        BY <1>1, <1>2, <1>5, <1>8, WritingEdge DEF Complete
    <2> QED
        BY <1>3, <1>4, <1>5, <1>6, <2>1, <2>2 DEF Complete
<1>9. CASE taken /\ dmi.busy /\ dmi.ready /\ deser.reset /\ warb.data = sent.word
    <2>1. ~dmi'.ready /\ taken'
        BY <1>3, <1>5, <1>9, DmiEdge
    <2>2. ~deser'.done /\ deser'.bytes = <<>>
        BY <1>2, <1>9, WritingEdge
    <2> QED
        BY <1>3, <1>4, <1>5, <1>6, <2>1, <2>2 DEF Served
<1> QED
    BY <1>3, <1>6, <1>7, <1>8, <1>9 DEF Complete

LEMMA WordStaysServed ==
    ASSUME TapInv, Next, Writing, Served, ~Valid("write"),
           rx'.kind # "data", sent' = sent
    PROVE  Served'
<1>1. WordLength \in Nat \ {0} /\ Len(deser.bytes) = 0 /\ sent.n # 0
    BY WordLengths DEF Served
<1>2. rx.kind # "data" /\ ~deser.run
    BY DEF Served, OnItsWay
<1>3. ~deser'.run /\ OnItsWay' = 0 /\ ~deser'.done /\ deser'.bytes = <<>>
    BY <1>1, <1>2, WritingEdge DEF Served, OnItsWay
<1>4. taken' /\ ~dmi'.ready
    BY <1>1, DmiEdge DEF Served
<1> QED
    BY <1>3, <1>4 DEF Served

\* A command that is pending after an edge was pending before or is just sent.
LEMMA PendingEdge ==
    ASSUME TapInv, Next, NEW c, Pending(c)'
    PROVE  \/ rx = NoItem /\ Settled /\ rx'.kind = "command" /\ rx'.cmd = c
           \/ Pending(c) /\ (sent' = sent \/ (held /\ rx = NoItem /\ IsReset(rx')))
<1>1. TapTypes /\ Decoder
    BY NextSteps DEF TapInv, TapTypes
<1>2. CASE rx'.kind = "command" /\ rx'.cmd = c
    <2>1. rx' # NoItem
        BY <1>2 DEF NoItem
    <2> QED
        BY <1>2, <2>1, ItemsArrive DEF Pending
<1>3. CASE decoder'.state = "handover" /\ decoder'.cmd = c
    <2>1. CASE /\ rx.kind = "command"
               /\ decoder' = [state |-> "handover", cmd |-> rx.cmd, addr |-> rx.addr]
        <3>1. rx # NoItem
            BY <2>1 DEF NoItem
        <3> QED
            BY <1>3, <2>1, <3>1, ItemsArrive DEF Pending
    <2>2. CASE decoder.state = "handover" /\ decoder'.cmd = decoder.cmd
        <3>1. sent' = sent \/ (held /\ rx = NoItem /\ IsReset(rx'))
            BY <2>2, ItemsArrive DEF BUSY_O
        <3> QED
            BY <1>3, <2>2, <3>1 DEF Pending
    <2> QED
        BY <1>1, <1>3, <2>1, <2>2, DecoderSteps DEF TapTypes
<1> QED
    BY <1>2, <1>3 DEF Pending

LEMMA PendingStep ==
    ASSUME TapInv, Next
    PROVE  /\ Pending("CMD_WRITE")' =>
                 sent'.word \in Words /\ sent'.n = 0 /\ ~taken' /\ ~dmi'.busy
           /\ Pending("CMD_RESET")' => sent' = Unsent(<<>>) /\ ~taken'
<1>1. HostStep
    BY NextSteps DEF TapInv, TapTypes
<1>2. sent'.n = 0 => ~taken'
    BY DmiEdge
<1>3. ASSUME Pending("CMD_WRITE")'
      PROVE  sent'.word \in Words /\ sent'.n = 0 /\ ~taken' /\ ~dmi'.busy
    <2>1. CASE rx = NoItem /\ Settled /\ rx'.kind = "command" /\ rx'.cmd = "CMD_WRITE"
        <3>1. ~dmi.busy /\ \E w \in Words : sent' = Unsent(w)
            BY <1>1, <2>1 DEF HostStep, SendsItem, DataItem, NoItem
        <3>2. ~deser.done
            BY <2>1 DEF Settled
        <3> QED
            BY <1>2, <3>1, <3>2, DmiEdge DEF Unsent
    <2>2. CASE Pending("CMD_WRITE") /\ sent' = sent
        <3>1. InFlight
            BY <2>2 DEF Pending, InFlight, BUSY_O, NoItem
        <3>2. ~deser.done
            BY <3>1 DEF TapInv, FlowInv, Quiet
        <3> QED
            BY <1>2, <2>2, <3>2, DmiEdge DEF TapInv, WordInv
    <2>3. ~(Pending("CMD_WRITE") /\ held /\ rx = NoItem)
        BY DEF TapInv, FlowInv, Pending, NoItem
    <2> QED
        BY <1>3, <2>1, <2>2, <2>3, PendingEdge
<1>4. ASSUME Pending("CMD_RESET")' PROVE sent' = Unsent(<<>>) /\ ~taken'
    <2>1. CASE rx = NoItem /\ Settled /\ rx'.kind = "command" /\ rx'.cmd = "CMD_RESET"
        <3>1. sent' = Unsent(<<>>)
            BY <1>1, <2>1 DEF HostStep, SendsItem, CommandItem, DataItem, NoItem
        <3> QED
            BY <1>2, <3>1 DEF Unsent
    <2>2. CASE Pending("CMD_RESET") /\ sent' = sent
        BY <1>2, <2>2 DEF TapInv, WordInv, Unsent
    <2>3. rx = NoItem /\ IsReset(rx') => Settled
        BY ItemsArrive DEF NoItem, IsReset
    <2> QED
        BY <1>4, <2>1, <2>2, <2>3, PendingEdge DEF IsReset
<1> QED
    BY <1>3, <1>4

\* The write arbiter takes a command over when the decoder has handed it over.
LEMMA CommandIsTakenOver ==
    ASSUME TapInv, Next, Pending("CMD_WRITE"), ~Pending("CMD_WRITE")'
    PROVE  /\ sent' = sent /\ OnItsWay' = 0 /\ Quiet'
           /\ warb'.cmd = "CMD_WRITE" /\ warb'.data = <<>> /\ deser'.reset
<1>1. TapTypes /\ FlowInv /\ Decoder /\ WriteArbiter /\ Deserialiser
    BY NextSteps DEF TapInv, TapTypes
<1>2. CASE rx.kind = "command" /\ rx.cmd = "CMD_WRITE"
    <2>1. rx # NoItem
        BY <1>2 DEF NoItem
    <2>2. rx_read /\ decoder.state = "idle"
        BY <1>1, <1>2, <2>1, ItemsAreRead DEF FlowInv, BUSY_O, IsReset
    <2>3. decoder' = [state |-> "handover", cmd |-> rx.cmd, addr |-> rx.addr]
        BY <1>1, <1>2, <2>2, DecoderSteps
    <2> QED
        BY <1>2, <2>3 DEF Pending
<1>3. CASE decoder.state = "handover" /\ decoder.cmd = "CMD_WRITE"
    <2>1. Valid("write") /\ BUSY_O
        BY <1>3 DEF Valid, HandsTo, BUSY_O
    <2>2. rx = NoItem /\ ~held /\ Quiet
        BY <1>1, <1>3, <2>1 DEF FlowInv, InFlight
    <2>3. rx' = NoItem /\ sent' = sent
        BY <2>1, <2>2, ItemsArrive
    <2>4. ~deser'.run /\ deser'.reset
        BY <1>1, <2>1, DeserialiserSteps DEF deser_run_d, deser_reset_d
    <2>5. warb'.cmd = "CMD_WRITE" /\ warb'.data = <<>>
        BY <1>1, <1>3, <2>1 DEF WriteArbiter
    <2>6. Quiet'
        BY <2>2, QuietNext DEF NoItem
    <2> QED
        BY <2>3, <2>4, <2>5, <2>6 DEF OnItsWay, NoItem
<1> QED
    BY <1>2, <1>3 DEF Pending

\* A reset that is no longer pending has been taken over, or it was read while
\* the decoder could not take it.
LEMMA ResetIsOver ==
    ASSUME TapInv, Next, Pending("CMD_RESET"), ~Pending("CMD_RESET")'
    PROVE  Abandoned'
<1>1. TapTypes /\ FlowInv /\ Deserialiser
    BY NextSteps DEF TapInv, TapTypes
<1>2. Quiet /\ rx.kind # "data" /\ sent = Unsent(<<>>)
    BY <1>1 DEF TapInv, FlowInv, WordInv, Pending, InFlight, BUSY_O, NoItem, IsReset
<1>3. rx' = NoItem
    <2> SUFFICES ASSUME rx' # NoItem PROVE FALSE
        OBVIOUS
    <2>1. ~IsReset(rx') /\ rx' # rx
        <3>1. CASE rx' = rx
            BY <3>1, ItemsArrive DEF Pending, IsReset
        <3> QED
            BY <3>1 DEF Pending, IsReset
    <2>2. rx = NoItem /\ ~BUSY_O
        BY <2>1, ItemsArrive
    <2> QED
        BY <2>2 DEF Pending, BUSY_O, NoItem
<1>4. sent' = sent
    BY <1>3, ItemsArrive
<1>5. ~deser'.run
    BY <1>1, <1>2, DeserialiserSteps DEF deser_run_d
<1> QED
    BY <1>2, <1>3, <1>4, <1>5, QuietNext DEF Abandoned, OnItsWay, NoItem

LEMMA WordStep == TapInv /\ Next => WordInv'
<1> SUFFICES ASSUME TapInv, Next PROVE WordInv'
    OBVIOUS
<1> DEFINE None == ~Pending("CMD_WRITE") /\ ~Pending("CMD_RESET")
<1> DEFINE Word == IF Writing THEN \/ sent.word \in Words /\ (Collecting \/ Complete \/ Served)
                                   \/ Abandoned
                   ELSE sent = Unsent(<<>>) /\ ~deser.done /\ OnItsWay = 0
<1>1. TapTypes /\ FlowInv
    BY DEF TapInv
<1>2. HostStep /\ WriteArbiter /\ Deserialiser
    BY <1>1, NextSteps DEF TapTypes
<1>3. ASSUME None', Pending("CMD_WRITE") PROVE Word'
    <2>1. /\ sent' = sent /\ OnItsWay' = 0 /\ Quiet'
          /\ warb'.cmd = "CMD_WRITE" /\ warb'.data = <<>> /\ deser'.reset
        BY <1>3, CommandIsTakenOver
    <2>2. sent.word \in Words /\ sent.n = 0 /\ ~dmi.busy /\ ~deser.done
        <3>1. InFlight
            BY <1>3 DEF Pending, InFlight, BUSY_O, NoItem
        <3> QED
            BY <1>3, <3>1 DEF TapInv, WordInv, FlowInv, Quiet
    <2>3. ~taken' /\ ~dmi'.busy
        BY <2>1, <2>2, DmiEdge
    <2>4. Collecting'
        BY <2>1, <2>2, <2>3 DEF Collecting, Quiet
    <2> QED
        BY <2>1, <2>2, <2>4 DEF Writing
<1>4. ASSUME None', Pending("CMD_RESET") PROVE Word'
    <2>1. Abandoned'
        BY <1>4, ResetIsOver
    <2> QED
        BY <2>1 DEF Abandoned, Quiet
<1>5. ASSUME None', None PROVE Word'
    <2>1. ~Valid("write")
        BY <1>1, <1>5 DEF Pending, Valid, HandsTo, FlowInv, BUSY_O, TapTypes, Commands
    <2>2. \/ rx'.kind = "data"
          \/ rx'.kind # "data" /\ sent' = sent
        <3>1. CASE rx' = NoItem
            BY <3>1, ItemsArrive DEF NoItem
        <3>2. CASE rx'.kind = "command" /\ rx' # NoItem
            BY <1>2, <1>5, <3>2, ItemsArrive
               DEF HostStep, SendsItem, CommandItem, DataItem, Pending, IsReset
        <3>3. rx' \in Items
            BY TypesStep DEF TapTypes
        <3> QED
            BY <3>1, <3>2, <3>3 DEF Items
    <2>3. CASE Writing
        <3>1. (sent.word \in Words /\ (Collecting \/ Complete \/ Served)) \/ Abandoned
            BY <1>5, <2>3 DEF TapInv, WordInv
        <3>2. Writing'
            BY <2>1, <2>3, WritingEdge
        <3>3. CASE Abandoned
            <4>1. sent' = sent /\ rx'.kind # "data"
                BY <1>2, <2>2, <3>3, ItemsArrive
                   DEF HostStep, SendsItem, CommandItem, NoItem, Abandoned, Unsent, IsReset
            <4>2. rx.kind # "data"
                BY <3>3 DEF Abandoned, OnItsWay
            <4>3. Quiet' /\ ~deser'.run
                BY <1>2, <3>3, <4>2, QuietNext, DeserialiserSteps DEF Abandoned, deser_run_d
            <4> QED
                BY <3>2, <3>3, <4>1, <4>3 DEF Abandoned, OnItsWay
        <3>4. CASE sent.word \in Words /\ ~Abandoned /\ rx'.kind = "data"
            BY <2>1, <2>3, <3>1, <3>2, <3>4, ByteIsSent
        <3>5. CASE sent.word \in Words /\ ~Abandoned /\ rx'.kind # "data" /\ sent' = sent
            <4>1. CASE Collecting
                BY <2>1, <2>3, <3>1, <3>2, <3>5, <4>1, WordIsCollected
            <4>2. CASE Complete
                BY <2>1, <2>3, <3>1, <3>2, <3>5, <4>2, WordIsTaken
            <4>3. CASE Served
                BY <2>1, <2>3, <3>1, <3>2, <3>5, <4>3, WordStaysServed
            <4> QED
                BY <3>1, <3>5, <4>1, <4>2, <4>3
        <3> QED
            BY <2>2, <3>1, <3>3, <3>4, <3>5
    <2>4. CASE ~Writing
        <3>1. sent = Unsent(<<>>) /\ OnItsWay = 0 /\ deser.reset
            BY <1>1, <1>5, <2>4 DEF TapInv, WordInv, FlowInv
        <3>2. ~Writing' /\ ~deser'.done /\ ~deser'.run
            BY <1>1, <1>2, <2>1, <2>4, <3>1, WriteArbiterSteps, DeserialiserSteps
               DEF Writing, deser_run_d
        <3>3. rx'.kind # "data"
            <4>1. Len(sent.word) = 0 /\ sent.n = 0
                BY <3>1 DEF Unsent
            <4> QED
                BY <1>2, <4>1, ItemsArrive
                   DEF HostStep, SendsItem, CommandItem, NoItem, IsReset
        <3> QED
            BY <2>2, <3>1, <3>2, <3>3 DEF OnItsWay
    <2> QED
        BY <2>3, <2>4
<1>6. None' => Word'
    BY <1>3, <1>4, <1>5
<1> QED
    BY <1>6, PendingStep DEF WordInv

-----------------------------------------------------------------------------
(* Where a command is that the decoder hands over.                         *)

\* What an arbiter has taken over is the command of the decoder: ready comes one
\* edge after it, and the read arbiter, which loses a command that meets the end of
\* the one before, takes it again at the next edge.  A command that arrives early
\* finds no write command, so that it stays with RX_Escape.
HandoverInv ==
    /\ warb.enable => Writing
    /\ rx # NoItem /\ BUSY_O => ~Writing
    /\ warb.ready => warb.cmd = decoder.cmd
    /\ rarb.cmd = "CMD_RESET" => rarb.ready
    /\ rarb.ready /\ decoder.cmd = "CMD_RESET" => warb.ready
    /\ rarb.ready /\ decoder.state = "handover" =>
          rarb.cmd = decoder.cmd \/ (Resting /\ ~ser.busy)

LEMMA HandoverStep ==
    ASSUME ~ResetsEarly, TapInv, HandoverInv, Next
    PROVE  HandoverInv'
<1>1. TapTypes /\ FlowInv /\ asked \in Addresses
    BY DEF TapInv, TapTypes
<1>2. Decoder /\ WriteArbiter /\ ReadArbiter /\ Serialiser
    BY <1>1, NextSteps
<1>3. /\ Valid("write") => warb'.ready /\ ~warb'.enable /\ warb'.cmd = decoder.cmd
      /\ ~Valid("write") => /\ ~warb'.ready
                            /\ warb'.enable => Writing
                            /\ Writing <=> warb'.cmd = "CMD_WRITE"
    <2>1. CASE Valid("write")
        <3>1. warb' = [ready |-> TRUE, cmd |-> decoder.cmd, addr |-> WRITE_ADDRESS_O,
                       data |-> <<>>, enable |-> FALSE]
            BY <1>1, <1>2, <2>1, WriteArbiterSteps
        <3> QED
            BY <2>1, <3>1
    <2>2. CASE ~Valid("write")
        <3>1. /\ warb'.ready = FALSE /\ warb'.enable = (Writing /\ ~deser.done)
              /\ warb'.cmd = IF warb.cmd = "CMD_RESET" THEN "CMD_NOP" ELSE warb.cmd
            BY <1>1, <1>2, <2>2, WriteArbiterSteps
        <3> QED
            BY <2>2, <3>1 DEF Writing
    <2> QED
        BY <2>1, <2>2
<1>4. rarb'.ready = Accepting /\ rarb'.cmd = read_command_d
    BY <1>2 DEF ReadArbiter
<1>5. Valid("write") \/ Accepting => decoder.state = "handover" /\ decoder'.cmd = decoder.cmd
    BY <1>1, <1>2, DecoderSteps DEF Valid, Accepting, TapTypes
<1>6. (warb.enable => Writing)'
    BY <1>3 DEF Writing
<1>7. (rx # NoItem /\ BUSY_O => ~Writing)'
    <2> SUFFICES ASSUME rx' # NoItem, BUSY_O', Writing' PROVE FALSE
        OBVIOUS
    <2>1. BUSY_O
        <3>1. rx = NoItem \/ BUSY_O
            BY ItemsArrive
        <3>2. BUSY_O \/ decoder'.state = "idle" \/ rx # NoItem
            BY <1>1, <1>2, DecoderSteps DEF BUSY_O, rx_read
        <3> QED
            BY <3>1, <3>2 DEF BUSY_O
    <2>2. ~Writing
        <3>1. CASE rx # NoItem
            BY <2>1, <3>1 DEF HandoverInv
        <3>2. CASE rx = NoItem
            BY <2>1, <3>2 DEF Next, HostSends, HostListens, SendsReset
        <3> QED
            BY <3>1, <3>2
    <2>3. decoder.cmd = "CMD_WRITE"
        BY <1>3, <2>2 DEF Writing
    <2>4. held
        BY <1>1, <2>1, ItemsArrive DEF FlowInv
    <2> QED
        BY <1>1, <2>3, <2>4 DEF FlowInv
<1>8. (warb.ready => warb.cmd = decoder.cmd)'
    BY <1>3, <1>5
<1>9. (rarb.cmd = "CMD_RESET" => rarb.ready)'
    BY <1>4 DEF read_command_d
<1>10. (rarb.ready /\ decoder.cmd = "CMD_RESET" => warb.ready)'
    BY <1>3, <1>4, <1>5 DEF Valid, HandsTo
<1>11. (rarb.ready /\ decoder.state = "handover" =>
          rarb.cmd = decoder.cmd \/ (Resting /\ ~ser.busy))'
    <2> SUFFICES ASSUME Accepting, decoder'.state = "handover", rarb'.cmd # decoder.cmd
                 PROVE  rarb'.cmd = "CMD_NOP" /\ ~ser'.busy
        BY <1>4, <1>5 DEF Resting
    <2>1. ~rarb.ready
        <3>1. CASE HandsTo(decoder.cmd) = {"read"}
            BY <1>1, <1>2, <1>5, <3>1, DecoderSteps DEF Ready, TapTypes
        <3>2. CASE HandsTo(decoder.cmd) # {"read"}
            <4>1. decoder.cmd = "CMD_RESET"
                BY <3>2 DEF Accepting, Valid, HandsTo
            <4>2. ASSUME rarb.ready PROVE FALSE
                BY <1>1, <1>2, <1>5, <4>1, <4>2, DecoderSteps
                   DEF HandoverInv, HandsTo, Ready, TapTypes
            <4> QED
                BY <4>2
        <3> QED
            BY <3>1, <3>2
    <2>2. rarb'.cmd = "CMD_NOP" /\ ser.done
        BY <1>4, <2>1 DEF HandoverInv, read_command_d
    <2>3. ~ser'.busy
        BY <1>1, <1>2, <2>2, SerialiserSteps DEF Accepting
    <2> QED
        BY <2>2, <2>3
<1> QED
    BY <1>6, <1>7, <1>8, <1>9, <1>10, <1>11 DEF HandoverInv

-----------------------------------------------------------------------------
(* The theorems.                                                           *)

LEMMA TapInit_Inv == TapInit => TapInv
<1> SUFFICES ASSUME TapInit PROVE TapInv
    OBVIOUS
<1>1. TapTypes
    <2>1. <<>> \in Seq(Bytes) /\ Len(<<>>) <= WordLength
        BY WordLengths
    <2>2. WarbTyped
        BY DEF TapInit, WarbTyped, Addresses
    <2> QED
        BY <2>1, <2>2, TxPathAssumption
           DEF TapInit, TapTypes, Items, NoItem, Addresses, Commands, Unsent
<1>2. SerialiserInv
    BY DEF TapInit, SerialiserInv, Resting
<1>3. ~BUSY_O /\ rx = NoItem /\ ~Writing /\ Quiet /\ OnItsWay = 0
    <2>1. Len(<<>>) < WordLength
        BY WordLengths
    <2> QED
        BY <2>1 DEF TapInit, BUSY_O, Writing, Quiet, OnItsWay, NoItem
<1>4. FlowInv
    BY <1>3 DEF TapInit, FlowInv, InFlight, NoItem
<1>5. WordInv
    BY <1>3 DEF TapInit, WordInv, Pending, BUSY_O, NoItem
<1> QED
    BY <1>1, <1>2, <1>4, <1>5 DEF TapInv

LEMMA TapInvStep == TapInv /\ [Next]_vars => TapInv'
<1> SUFFICES ASSUME TapInv, [Next]_vars PROVE TapInv'
    OBVIOUS
<1>1. CASE Next
    BY <1>1, TypesStep, SerialiserStep, FlowStep, WordStep DEF TapInv
<1>2. CASE UNCHANGED vars
    <2>1. UNCHANGED <<rx, data_rec, decoder, warb, deser, rarb, ser, latch,
                      valid_address, dmi, sent, asked, taken, held>>
        BY <1>2 DEF vars, tap, host
    <2>2. TapTypes' /\ SerialiserInv'
        BY <2>1 DEF TapInv, TapTypes, WarbTyped, SerialiserInv, Resting
    <2>3. UNCHANGED <<BUSY_O, Quiet, Writing, OnItsWay>>
        BY <2>1 DEF BUSY_O, Quiet, Writing, OnItsWay
    <2>4. UNCHANGED <<Pending("CMD_WRITE"), Pending("CMD_RESET")>>
        BY <2>1 DEF Pending
    <2>5. UNCHANGED <<Collecting, Complete, Served, Abandoned>>
        BY <2>1, <2>3 DEF Collecting, Complete, Served, Abandoned
    <2>6. FlowInv'
        BY <2>1, <2>3 DEF TapInv, FlowInv, InFlight, IsReset
    <2>7. WordInv'
        BY <2>1, <2>3, <2>4, <2>5 DEF TapInv, WordInv
    <2> QED
        BY <2>2, <2>6, <2>7 DEF TapInv
<1> QED
    BY <1>1, <1>2

LEMMA TapInvariant == Spec => []TapInv
BY TapInit_Inv, TapInvStep, PTL DEF Spec

\* The registers of the TAP hold values of their types: the deserialiser does not
\* run over its word, nor the serialiser over its register, whatever the lengths
\* of the registers and whatever the host ends with a reset (RX_DESERIALIZER,
\* TX_SERIALIZER).
THEOREM TypeCorrect == Spec => []TypeOK
<1>1. TapInv => TypeOK
    BY DEF TapInv, TapTypes, WarbTyped, SerialiserInv, Items, NoItem, TypeOK
<1> QED
    BY <1>1, TapInvariant, PTL

\* Each word is taken by the DMI once and as the host sent it, for any words and
\* any reads between its bytes, and also when the host resets the TAP
\* (WRITE_ARBITER, RX_DESERIALIZER, dmi_uart.sv).
THEOREM WordsTakenOnce == Spec => WordsOnce
<1> DEFINE Once ==
        /\ ~dmi.busy /\ dmi'.busy
              => ~taken /\ dmi'.request = sent.word /\ sent.n = Len(sent.word)
        /\ sent' # sent /\ sent.n > 0 /\ sent.n = Len(sent.word) => taken
<1>1. TapInv /\ Next => Once
    <2> SUFFICES ASSUME TapInv, Next PROVE Once
        OBVIOUS
    <2>1. ASSUME ~dmi.busy, dmi'.busy
          PROVE  ~taken /\ dmi'.request = sent.word /\ sent.n = Len(sent.word)
        <3>1. deser.done /\ warb.addr = "ADDR_DMI" /\ warb.data # <<>>
            BY <2>1, DmiEdge
        <3>2. Complete /\ Len(sent.word) = WordLength
            BY <3>1, DoneWithWord, WordLengths
        <3>3. dmi'.request = warb.data
            BY <2>1, <3>1, NextSteps, DmiSteps DEF TapInv, TapTypes, WRITE_VALID_O
        <3> QED
            BY <2>1, <3>1, <3>2, <3>3 DEF Complete
    <2>2. ASSUME sent' # sent, sent.n > 0, sent.n = Len(sent.word) PROVE taken
        <3>1. rx = NoItem /\ Settled
            BY <2>2, ItemsArrive
        <3>2. /\ ~deser.done /\ (Writing => ~deser.reset)
              /\ ~deser.run /\ Len(deser.bytes) < WordLength
            BY <3>1 DEF Settled
        <3>3. ~Pending("CMD_WRITE") /\ ~Pending("CMD_RESET") /\ OnItsWay = 0
            BY <2>2, <3>1, <3>2 DEF TapInv, WordInv, Unsent, OnItsWay, NoItem
        <3>4. Writing /\ sent.word \in Words /\ (Collecting \/ Served)
            BY <2>2, <3>2, <3>3 DEF TapInv, WordInv, Complete, Abandoned, Unsent
        <3>5. ~Collecting
            BY <2>2, <3>2, <3>3, <3>4, WordLengths DEF Collecting, TapInv, TapTypes
        <3> QED
            BY <3>4, <3>5 DEF Served
    <2> QED
        BY <2>1, <2>2
<1> HIDE DEF Once
<1>2. [][Next]_vars /\ []TapInv => [][Once]_vars
    BY <1>1, PTL
<1> QED
    BY <1>2, TapInvariant, PTL DEF Spec, WordsOnce, Once

\* No command is lost: RX_Escape keeps it until the decoder takes it over, and the
\* decoder until each arbiter that it is for has taken it over, if the host resets
\* nothing before the decoder is free (COMMAND_DECODER.sv, dmi_uart_tap.sv).
THEOREM CommandsAreTaken ==
    ASSUME ~ResetsEarly
    PROVE  Spec => CommandsTaken
<1> DEFINE Kept ==
        /\ rx.kind = "command" /\ rx' = NoItem =>
             decoder' = [state |-> "handover", cmd |-> rx.cmd, addr |-> rx.addr]
        /\ decoder.state = "handover" /\ decoder' # decoder =>
             /\ decoder' = [decoder EXCEPT !.state = "wait_ack"]
             /\ "write" \in HandsTo(decoder.cmd) => warb.cmd = decoder.cmd
             /\ "read" \in HandsTo(decoder.cmd) => decoder.cmd \in {rarb.cmd, rarb'.cmd}
<1>1. TapInit => HandoverInv
    BY DEF TapInit, HandoverInv
<1>2. TapInv /\ HandoverInv /\ [Next]_vars => HandoverInv'
    <2>1. CASE UNCHANGED vars
        BY <2>1 DEF vars, tap, HandoverInv, Writing, BUSY_O, Resting
    <2> QED
        BY <2>1, HandoverStep
<1>3. TapInv /\ HandoverInv /\ Next => Kept
    <2> SUFFICES ASSUME TapInv, HandoverInv, Next PROVE Kept
        OBVIOUS
    <2>1. TapTypes /\ Decoder /\ ReadArbiter
        BY NextSteps DEF TapInv, TapTypes
    <2>2. ASSUME rx.kind = "command", rx' = NoItem
          PROVE  decoder' = [state |-> "handover", cmd |-> rx.cmd, addr |-> rx.addr]
        <3>1. rx # NoItem
            BY <2>2 DEF NoItem
        <3>2. rx_read
            BY <2>2, <3>1 DEF Next, HostSends, Settled, HostListens
        <3>3. ~BUSY_O
            BY <2>2, <3>1, <3>2 DEF HandoverInv, rx_read
        <3> QED
            BY <2>1, <2>2, <3>2, <3>3 DEF Decoder, BUSY_O
    <2>3. ASSUME decoder.state = "handover", decoder' # decoder
          PROVE  /\ decoder' = [decoder EXCEPT !.state = "wait_ack"]
                 /\ "write" \in HandsTo(decoder.cmd) => warb.cmd = decoder.cmd
                 /\ "read" \in HandsTo(decoder.cmd) => decoder.cmd \in {rarb.cmd, rarb'.cmd}
        <3>1. /\ decoder' = [decoder EXCEPT !.state = "wait_ack"]
              /\ \A arbiter \in HandsTo(decoder.cmd) : Ready(arbiter)
            BY <2>1, <2>3, DecoderSteps
        <3>2. "write" \in HandsTo(decoder.cmd) => warb.cmd = decoder.cmd
            BY <3>1 DEF HandoverInv, Ready
        <3>3. ASSUME "read" \in HandsTo(decoder.cmd), rarb.cmd # decoder.cmd
              PROVE  rarb'.cmd = decoder.cmd
            <4>1. Resting /\ ~ser.busy
                BY <2>3, <3>1, <3>3 DEF HandoverInv, Ready
            <4> QED
                BY <2>1, <2>3, <3>3, <4>1
                   DEF ReadArbiter, read_command_d, Accepting, Valid, Resting
        <3> QED
            BY <3>1, <3>2, <3>3
    <2> QED
        BY <2>2, <2>3
<1> HIDE DEF Kept
<1>4. TapInit /\ [][Next]_vars /\ []TapInv => [](TapInv /\ HandoverInv)
    BY <1>1, <1>2, PTL
<1>5. [][Next]_vars /\ [](TapInv /\ HandoverInv) => [][Kept]_vars
    BY <1>3, PTL
<1> QED
    BY <1>4, <1>5, TapInvariant, PTL DEF Spec, CommandsTaken, Kept

=============================================================================
