------------------------------ MODULE DmiUart ------------------------------
(***************************************************************************)
(* From a word deserialised by the UART TAP to a transaction on the DMI:   *)
(* the end of WRITE_ARBITER in src/uart/dmi_uart_tap.sv that hands over a  *)
(* word, DMI_UART of src/uart/dmi_uart.sv, and the DMI device with its     *)
(* response FIFO (dm_csrs.sv).  One step is one rising clock edge.         *)
(*                                                                         *)
(* The bytes of a word and how it is assembled are left out: a word        *)
(* arrives as event "word" with an operation and a number of its own.      *)
(***************************************************************************)
EXTENDS Naturals, Sequences, SequencesExt

CONSTANTS
    MaxWords,  \* words the host sends, a bound for TLC
    Burst,     \* the host may send words without a new CMD_WRITE for each
    Prompt     \* the device answers with the edge that takes the request

ASSUME DmiUartAssumption ==
    /\ MaxWords \in Nat
    /\ {Burst, Prompt} \subseteq BOOLEAN

Ops     == {"NOP", "READ", "WRITE"}
Words   == [id : 0 .. MaxWords, op : Ops]
NoWord  == [id |-> 0, op |-> "NOP"]

VARIABLES
    writing,          \* current_write_command = CMD_WRITE, to ADDR_DMI
    deser_reset,      \* deser_reset
    deser_done,       \* DONE_O of the deserialiser
    deser_word,       \* deser_data_out
    write_data,       \* write_data
    tap_write_ready,  \* TAP_WRITE_READY_O
    tap_read_valid,   \* TAP_READ_VALID_O
    do_request, do_read, do_end,
    request,          \* request
    req_valid,        \* DMI_REQ_VALID_O
    resp_ready,       \* DMI_RESP_READY_O
    dmi_resp,         \* dmi_resp: the number of the request it answers
    inflight,         \* device: requests taken and not yet answered
    resp_queue,       \* device: the response FIFO, numbers of requests
    sent,             \* history: words with an operation, as deserialised
    served            \* history: requests the device has taken

arbiter == <<writing, deser_reset, deser_done, deser_word, write_data>>
dmi     == <<tap_write_ready, do_request, do_read, do_end, request,
             req_valid, resp_ready, dmi_resp>>
vars    == <<arbiter, dmi, tap_read_valid, inflight, resp_queue, sent, served>>

Init ==
    /\ writing = FALSE /\ deser_reset = TRUE
    /\ deser_done = FALSE /\ deser_word = NoWord
    /\ write_data = NoWord
    /\ tap_write_ready = FALSE /\ tap_read_valid = FALSE
    /\ do_request = FALSE /\ do_read = FALSE /\ do_end = FALSE
    /\ request = NoWord
    /\ req_valid = FALSE /\ resp_ready = FALSE
    /\ dmi_resp = 0
    /\ inflight = <<>> /\ resp_queue = <<>>
    /\ sent = <<>> /\ served = <<>>

-----------------------------------------------------------------------------
(* WRITE_ARBITER and the deserialiser.  ev is what the host's bytes bring  *)
(* in this cycle: "command" (write_arbiter_valid with CMD_WRITE), "reset"  *)
(* (with CMD_RESET), "word" (the last byte of a word) or "none".           *)

\* A byte lasts at least ten bit times, a DMI transaction six clock cycles:
\* the host's next command or word comes after the handover has ended.
Quiet == ~deser_done /\ ~do_request /\ ~do_end /\ ~tap_write_ready

HostMay(ev) ==
    \/ ev = "none"
    \/ ev \in {"command", "reset"} /\ Quiet
    \/ /\ ev = "word" /\ Quiet /\ writing /\ ~deser_reset
       /\ Len(sent) < MaxWords
       /\ Burst \/ write_data = NoWord

\* write_data is loaded one edge after deser_done, which is already the
\* valid of the interconnect.
Arbiter(ev) ==
    IF ev \in {"command", "reset"}
    THEN /\ writing' = (ev = "command")
         /\ deser_reset' = TRUE
         /\ write_data' = NoWord
    ELSE /\ writing' = writing
         /\ deser_reset' = (writing => deser_done /\ tap_write_ready)
         /\ write_data' = IF writing /\ deser_done THEN deser_word
                          ELSE write_data

Deserialiser(ev) ==
    IF deser_reset
    THEN deser_done' = FALSE /\ deser_word' = NoWord /\ sent' = sent
    ELSE IF ev = "word"
    THEN \E op \in Ops :
            LET word == [id |-> Len(sent) + 1, op |-> op] IN
            /\ deser_done' = TRUE /\ deser_word' = word
            /\ sent' = IF op = "NOP" THEN sent ELSE Append(sent, word)
    ELSE UNCHANGED <<deser_done, deser_word, sent>>

-----------------------------------------------------------------------------
(* The device: a request is taken when valid and ready meet and answered   *)
(* with the same edge, or later when the device is not Prompt; answers is  *)
(* the number of answers in this cycle.                                    *)

req_ready  == Len(inflight) + Len(resp_queue) < 2
resp_valid == resp_queue # <<>>

Device(answers) ==
    LET taken  == IF req_valid /\ req_ready THEN <<request>> ELSE <<>>
        due    == inflight \o taken
        left   == IF resp_ready /\ resp_valid THEN Tail(resp_queue)
                  ELSE resp_queue
    IN  /\ served' = served \o taken
        /\ answers <= Len(due)
        /\ Prompt => answers = Len(due)
        /\ inflight' = SubSeq(due, answers + 1, Len(due))
        /\ resp_queue' = left \o [i \in 1 .. answers |-> due[i].id]

-----------------------------------------------------------------------------
(* DMI_UART: DMI_WRITE and TAP_READ *)

\* Offer the request until the device was ready the cycle before.
Issue(done, again) ==
    /\ do_request
    /\ req_valid' = TRUE /\ resp_ready' = FALSE /\ tap_write_ready' = FALSE
    /\ do_request' = again
    /\ do_end' = done
    /\ UNCHANGED <<do_read, request, dmi_resp>>

\* Mutants: the request is offered for one cycle more; it is not withdrawn.
IssueRequest_Twice == Issue(req_ready /\ req_valid, ~(req_ready /\ req_valid))
IssueRequest_Kept  == Issue(req_ready, TRUE)

IssueRequest == Issue(req_ready, ~req_ready)

\* One cycle of ready ends the transaction, with a response or without.
Take(last, read) ==
    /\ ~do_request /\ do_end
    /\ req_valid' = FALSE /\ resp_ready' = TRUE /\ tap_write_ready' = FALSE
    /\ do_end' = ~last
    /\ IF resp_ready /\ do_read /\ resp_valid
       THEN do_read' = read /\ dmi_resp' = Head(resp_queue)
       ELSE UNCHANGED <<do_read, dmi_resp>>
    /\ UNCHANGED <<do_request, request>>

\* Mutants: the transaction ends as ready is raised; a read never ends.
TakeResponse_Early  == Take(TRUE, FALSE)
TakeResponse_NoRead == Take(resp_ready, do_read)

TakeResponse == Take(resp_ready, FALSE)

\* A word with an operation becomes the request; any word is acknowledged.
Await(ops) ==
    /\ ~do_request /\ ~do_end
    /\ req_valid' = FALSE /\ resp_ready' = FALSE
    /\ tap_write_ready' = deser_done
    /\ IF deser_done /\ write_data.op \in ops
       THEN /\ do_request' = TRUE
            /\ do_read' = (do_read \/ write_data.op = "READ")
            /\ request' = write_data
       ELSE UNCHANGED <<do_request, do_read, request>>
    /\ UNCHANGED <<do_end, dmi_resp>>

AwaitWord_ReadsOnly == Await({"READ"})  \* mutant: writes are not issued

AwaitWord == Await({"READ", "WRITE"})

\* The TAP may read the last response whenever no request is under way.
TapRead_Always(ready) == tap_read_valid' = ready  \* mutant: always answered

TapRead(ready) == tap_read_valid' = (ready /\ ~do_read /\ ~do_request)

-----------------------------------------------------------------------------
Clock(answers) ==
    \E ev \in {"none", "command", "reset", "word"}, ready \in BOOLEAN :
        /\ HostMay(ev)
        /\ Arbiter(ev)
        /\ Deserialiser(ev)
        /\ Device(answers)
        /\ TapRead(ready)
        /\ \/ IssueRequest
           \/ TakeResponse
           \/ AwaitWord

Next == \E answers \in {0, 1} : Clock(answers)

Spec == Init /\ [][Next]_vars

\* The clock runs, and the device answers what it has taken.
FairSpec == Spec /\ WF_vars(Next) /\ WF_vars(Clock(1))

-----------------------------------------------------------------------------
(* Properties *)

TypeOK ==
    /\ {writing, deser_reset, deser_done, tap_write_ready, tap_read_valid,
        do_request, do_read, do_end, req_valid, resp_ready} \subseteq BOOLEAN
    /\ {deser_word, write_data, request} \subseteq Words
    /\ dmi_resp \in 0 .. MaxWords
    /\ Len(inflight) + Len(resp_queue) <= 2
    /\ ~(do_request /\ do_end)

\* The device takes every word the host sent exactly once and in order, and
\* has taken it before the next one arrives (WRITE_ARBITER, DMI_WRITE).
ServedInOrder ==
    /\ IsPrefix(served, sent)
    /\ Quiet => Len(served) = Len(sent)

\* debug-system.md:410, "Only one transaction may be active at any given
\* time": no request is offered while an answer is still due, and none is
\* left behind for the next transaction.
OneTransaction ==
    /\ Len(inflight) + Len(resp_queue) + (IF req_valid THEN 1 ELSE 0) <= 1
    /\ Quiet => resp_queue = <<>> /\ inflight = <<>>

\* What the TAP is given to send to the host is the answer to the last read
\* the device has taken (do_read, dmi_resp, TAP_READ).
IsRead(n) == n \in DOMAIN served /\ served[n].op = "READ"

IsLastRead(n) == IsRead(n) /\ \A m \in DOMAIN served : m > n => ~IsRead(m)

AnswersLastRead(id) ==
    \/ id = 0 /\ \A n \in DOMAIN served : ~IsRead(n)
    \/ \E n \in DOMAIN served : IsLastRead(n) /\ id = served[n].id

ReadIsCurrent == tap_read_valid => AnswersLastRead(dmi_resp)

\* The transaction as the client of a debug module sees it: the request is
\* with the port until it is no longer offered, with the device until the
\* answer has left the FIFO and a read has it, and the last cycle of
\* resp_ready shows that it is complete.  "torn", which the port does not
\* have, is a request while the device still owes an answer to another.
port_phase ==
    LET requested == do_request \/ req_valid
        owing     == inflight # <<>> \/ resp_queue # <<>>
    IN IF requested THEN IF owing THEN "torn" ELSE "accepted"
       ELSE IF owing \/ do_read THEN "taken"
       ELSE IF resp_ready THEN "answered" ELSE "free"

port_op ==
    IF port_phase = "free" THEN "none"
    ELSE IF request.op = "READ" THEN "read" ELSE "write"

\* What the TAP holds for the host: the answer of a read, or the word written.
port_word ==
    IF request.op = "READ" /\ port_phase \in {"answered", "free"}
    THEN dmi_resp ELSE request.id

Port == INSTANCE DmiPort
            WITH Data <- 0 .. MaxWords, phase <- port_phase, op <- port_op,
                 word <- port_word

\* Every request becomes one operation of the debug module, which takes it
\* once and answers it before the next is issued, and no read ends without
\* its answer: the path over the UART implements the same port as the JTAG
\* DTM does (DMI_WRITE; DmiPort).
ImplementsDmiPort == Port!Spec

\* debug-system.md:402-410: "After some time, the device sends the answers
\* the request on the response channel. ... A transaction is completed as
\* soon as the response is received by the host."  A read that was issued
\* gets its response, and TAP reads are served again.
ReadCompletes == do_read ~> ~do_read

\* Every word the deserialiser completed reaches the device.
WordServed == \A n \in 1 .. MaxWords : Len(sent) >= n ~> Len(served) >= n

\* dmi_uart_tap.sv:191, "When done, transmit data over write interconnect to
\* target": what the device is given is what the host sent.
WordsAsSent == IsPrefix(served, sent)

=============================================================================
