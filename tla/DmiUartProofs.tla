---------------------------- MODULE DmiUartProofs ----------------------------
(***************************************************************************)
(* What DmiUart promises for any number of words.  The two conditions      *)
(* without which dmi_uart_burst and dmi_uart_late find the path to fail    *)
(* are kept apart: words are handed over once and in order if the host     *)
(* sends one for each CMD_WRITE, however late the device answers; and      *)
(* transactions are complete if the device answers at once, whatever the   *)
(* host sends.  Each has an invariant of its own.                          *)
(***************************************************************************)
EXTENDS DmiUart, TLAPS

\* What the edge brings: an event of the host, and a read of the TAP or none.
Edge(ev, ready) ==
    /\ HostMay(ev) /\ Arbiter(ev) /\ Deserialiser(ev)
    /\ \E answers \in {0, 1} : Device(answers)
    /\ TapRead(ready)
    /\ IssueRequest \/ TakeResponse \/ AwaitWord

Events == {"none", "command", "reset", "word"}

LEMMA NextIsEdge == Next => \E ev \in Events, ready \in BOOLEAN : Edge(ev, ready)
  BY DEF Next, Clock, Edge, Events

-----------------------------------------------------------------------------
(* Types                                                                   *)

Ids == 0 .. MaxWords

Types ==
    /\ writing \in BOOLEAN /\ deser_reset \in BOOLEAN /\ deser_done \in BOOLEAN
    /\ tap_write_ready \in BOOLEAN /\ tap_read_valid \in BOOLEAN
    /\ do_request \in BOOLEAN /\ do_read \in BOOLEAN /\ do_end \in BOOLEAN
    /\ req_valid \in BOOLEAN /\ resp_ready \in BOOLEAN
    /\ deser_word \in Words /\ write_data \in Words /\ request \in Words
    /\ dmi_resp \in Ids
    /\ inflight \in Seq(Words) /\ resp_queue \in Seq(Ids)
    /\ sent \in Seq(Words) /\ served \in Seq(Words)
    /\ Len(sent) <= MaxWords
    /\ Len(inflight) + Len(resp_queue) <= 2
    /\ ~(do_request /\ do_end)

\* The device takes a request when it is offered and there is room, and an
\* answer leaves when it is awaited.
Taken == IF req_valid /\ req_ready THEN 1 ELSE 0
Left  == IF resp_ready /\ resp_valid THEN 1 ELSE 0

LEMMA DeviceTakes ==
    ASSUME Types, NEW answers \in {0, 1}, Device(answers)
    PROVE  /\ inflight' \in Seq(Words) /\ resp_queue' \in Seq(Ids)
           /\ served' = IF req_valid /\ req_ready THEN Append(served, request) ELSE served
           /\ Len(inflight') + Len(resp_queue') =
                 Len(inflight) + Len(resp_queue) + Taken - Left
<1> DEFINE taken == IF req_valid /\ req_ready THEN <<request>> ELSE <<>>
           due   == inflight \o taken
           left  == IF resp_ready /\ resp_valid THEN Tail(resp_queue) ELSE resp_queue
           new   == [i \in 1 .. answers |-> due[i].id]
<1>1. /\ served' = served \o taken
      /\ answers <= Len(due)
      /\ inflight' = SubSeq(due, answers + 1, Len(due))
      /\ resp_queue' = left \o new
  BY DEF Device
<1>2. taken \in Seq(Words) /\ Len(taken) = Taken
  BY DEF Types, Taken
<1>3. due \in Seq(Words) /\ Len(due) = Len(inflight) + Taken
  BY <1>2 DEF Types
<1>4. left \in Seq(Ids) /\ Len(left) = Len(resp_queue) - Left
  BY DEF Types, Left, resp_valid
<1>5. new \in Seq(Ids) /\ Len(new) = answers
  <2> HIDE DEF due
  <2>1. \A i \in 1 .. answers : i \in 1 .. Len(due) /\ due[i] \in Words
    BY <1>1, <1>3
  <2>2. \A i \in 1 .. answers : due[i].id \in Ids
    BY <2>1 DEF Words, Ids
  <2> QED BY <2>2
<1>6. inflight' \in Seq(Words) /\ Len(inflight') = Len(due) - answers
  <2> HIDE DEF due
  <2>1. Len(due) \in Nat
    BY <1>3
  <2>2. SubSeq(due, answers + 1, Len(due)) \in Seq(Words)
    BY <1>3, <2>1
  <2>3. Len(SubSeq(due, answers + 1, Len(due))) = Len(due) - answers
    BY <1>1, <1>3, <2>1
  <2> QED BY <1>1, <2>2, <2>3
<1>7. resp_queue' \in Seq(Ids) /\ Len(resp_queue') = Len(left) + Len(new)
  <2> HIDE DEF left, new
  <2> QED BY <1>1, <1>4, <1>5
<1>8. served' = IF req_valid /\ req_ready THEN Append(served, request) ELSE served
  <2>1. served \in Seq(Words) /\ served' = served \o taken
    BY <1>1 DEF Types
  <2>2. CASE req_valid /\ req_ready
    <3>1. taken = <<request>>
      BY <2>2
    <3>2. request \in Words
      BY DEF Types
    <3>3. served \o <<request>> = Append(served, request)
      BY <2>1, <3>2
    <3> HIDE DEF taken
    <3> QED BY <2>1, <2>2, <3>1, <3>3
  <2>3. CASE ~(req_valid /\ req_ready)
    <3>1. taken = <<>>
      BY <2>3
    <3>2. served \o <<>> = served
      BY <2>1
    <3> HIDE DEF taken
    <3> QED BY <2>1, <2>3, <3>1, <3>2
  <2> QED BY <2>2, <2>3
<1>9. /\ Len(inflight) \in Nat /\ Len(resp_queue) \in Nat
      /\ Taken \in {0, 1} /\ Left \in {0, 1}
  BY DEF Types, Taken, Left
<1> HIDE DEF taken, due, left, new
<1> QED BY <1>3, <1>4, <1>5, <1>6, <1>7, <1>8, <1>9

LEMMA NoWordIsWord == DmiUartAssumption => NoWord \in Words
  BY DEF NoWord, Words, Ops, DmiUartAssumption

LEMMA TypesInit == DmiUartAssumption /\ Init => Types
<1> SUFFICES ASSUME DmiUartAssumption, Init PROVE Types
  OBVIOUS
<1>1. 0 \in Ids /\ <<>> \in Seq(Words) /\ <<>> \in Seq(Ids) /\ Len(<<>>) = 0 /\ 0 <= MaxWords
  BY DEF DmiUartAssumption, Ids
<1>2. Len(<<>>) + Len(<<>>) <= 2
  BY <1>1
<1> QED BY <1>1, <1>2, NoWordIsWord DEF Init, Types

\* One of the three processes of DMI_UART takes the edge.
LEMMA ProcessTypes ==
    ASSUME Types, NEW ev \in Events, NEW ready \in BOOLEAN, Edge(ev, ready)
    PROVE  /\ tap_write_ready' \in BOOLEAN /\ do_request' \in BOOLEAN
           /\ do_read' \in BOOLEAN /\ do_end' \in BOOLEAN
           /\ req_valid' \in BOOLEAN /\ resp_ready' \in BOOLEAN /\ request' \in Words
           /\ dmi_resp' \in Ids /\ ~(do_request' /\ do_end')
<1>1. CASE IssueRequest
  <2>1. CASE req_ready
    <3>1. req_ready = TRUE /\ (~req_ready) = FALSE
      BY <2>1 DEF req_ready
    <3> QED BY <1>1, <3>1 DEF IssueRequest, Issue, Types
  <2>2. CASE ~req_ready
    <3>1. req_ready = FALSE /\ (~req_ready) = TRUE
      BY <2>2 DEF req_ready
    <3> QED BY <1>1, <3>1 DEF IssueRequest, Issue, Types
  <2> QED BY <2>1, <2>2
<1>2. CASE TakeResponse
  <2>1. resp_valid => Head(resp_queue) \in Ids
    BY DEF resp_valid, Types
  <2>2. /\ tap_write_ready' \in BOOLEAN /\ do_request' \in BOOLEAN
        /\ do_read' \in BOOLEAN /\ do_end' \in BOOLEAN
        /\ req_valid' \in BOOLEAN /\ resp_ready' \in BOOLEAN /\ request' \in Words
        /\ ~(do_request' /\ do_end')
    BY <1>2 DEF TakeResponse, Take, Types
  <2>3. dmi_resp' \in Ids
    BY <1>2, <2>1 DEF TakeResponse, Take, Types
  <2> QED BY <2>2, <2>3
<1>3. CASE AwaitWord
  BY <1>3 DEF AwaitWord, Await, Types
<1> QED BY <1>1, <1>2, <1>3 DEF Edge

LEMMA TypesKept ==
    ASSUME DmiUartAssumption, Types, NEW ev \in Events, NEW ready \in BOOLEAN, Edge(ev, ready)
    PROVE  Types'
<1>1. /\ writing' \in BOOLEAN /\ deser_reset' \in BOOLEAN /\ write_data' \in Words
      /\ tap_read_valid' \in BOOLEAN
  BY NoWordIsWord DEF Types, Edge, Arbiter, TapRead
<1>2. /\ deser_done' \in BOOLEAN /\ deser_word' \in Words
      /\ sent' \in Seq(Words) /\ Len(sent') <= MaxWords
  <2>1. CASE deser_reset \/ ev # "word"
    BY <2>1, NoWordIsWord DEF Types, Edge, Deserialiser
  <2>2. CASE ~deser_reset /\ ev = "word"
    <3>1. Len(sent) < MaxWords /\ sent \in Seq(Words)
      BY <2>2 DEF Edge, HostMay, Types
    <3>2. PICK op \in Ops :
            LET word == [id |-> Len(sent) + 1, op |-> op]
            IN  /\ deser_done' = TRUE /\ deser_word' = word
                /\ sent' = IF op = "NOP" THEN sent ELSE Append(sent, word)
      BY <2>2 DEF Edge, Deserialiser
    <3>3. [id |-> Len(sent) + 1, op |-> op] \in Words
      BY <3>1 DEF Words, DmiUartAssumption
    <3> QED BY <3>1, <3>2, <3>3 DEF DmiUartAssumption
  <2> QED BY <2>1, <2>2
<1>3. PICK answers \in {0, 1} : Device(answers)
  BY DEF Edge
<1>4. /\ inflight' \in Seq(Words) /\ resp_queue' \in Seq(Ids) /\ served' \in Seq(Words)
      /\ Len(inflight') + Len(resp_queue') <= 2
  <2>1. Len(inflight) + Len(resp_queue) + Taken - Left <= 2
    BY DEF Types, Taken, Left, req_ready
  <2>2. served \in Seq(Words) /\ Append(served, request) \in Seq(Words)
    BY DEF Types
  <2>3. served' \in {served, Append(served, request)}
    BY <1>3, DeviceTakes
  <2> QED BY <1>3, <2>1, <2>2, <2>3, DeviceTakes
<1> QED BY <1>1, <1>2, <1>4, ProcessTypes DEF Types

LEMMA TypesStep == DmiUartAssumption /\ Types /\ [Next]_vars => Types'
<1> SUFFICES ASSUME DmiUartAssumption, Types, [Next]_vars PROVE Types'
  OBVIOUS
<1>1. CASE Next
  BY <1>1, NextIsEdge, TypesKept
<1>2. CASE UNCHANGED vars
  BY <1>2 DEF vars, arbiter, dmi, Types
<1> QED BY <1>1, <1>2

LEMMA TypesAlways == ASSUME DmiUartAssumption PROVE Spec => []Types
<1>1. Init => Types
  BY TypesInit
<1>2. Types /\ [Next]_vars => Types'
  BY TypesStep
<1> QED BY <1>1, <1>2, PTL DEF Spec

\* Every variable has a value of its type, the device and its response FIFO
\* hold at most two transactions, and a request and its end exclude each
\* other, whatever the host sends and however late the device answers.
THEOREM TypeCorrect == ASSUME DmiUartAssumption PROVE Spec => []TypeOK
<1>1. Types => TypeOK
  BY DEF Types, TypeOK, Ids
<1> QED BY <1>1, TypesAlways, PTL

-----------------------------------------------------------------------------
(* DMI_UART without a transaction awaits a word.                           *)

LEMMA AwaitsOrMoves ==
    ASSUME Types, NEW ev \in Events, NEW ready \in BOOLEAN, Edge(ev, ready)
    PROVE  /\ do_request => IssueRequest
           /\ ~do_request /\ do_end => TakeResponse
           /\ ~do_request /\ ~do_end => AwaitWord
  BY DEF Edge, IssueRequest, Issue, TakeResponse, Take, AwaitWord, Await, Types

\* A request is withdrawn after the first edge that finds the device ready.
LEMMA RequestIssues ==
    ASSUME Types, IssueRequest
    PROVE  /\ req_valid' /\ ~resp_ready' /\ ~tap_write_ready'
           /\ do_request' <=> ~req_ready
           /\ do_end' <=> req_ready
           /\ do_read' = do_read /\ request' = request /\ dmi_resp' = dmi_resp
<1>1. req_ready \in BOOLEAN
  BY DEF req_ready
<1> QED BY <1>1, Zenon DEF IssueRequest, Issue

\* A word with an operation becomes the request; its number is kept.
LEMMA WordIsAwaited ==
    ASSUME Types, ~do_request, ~do_end, ~do_read, AwaitWord
    PROVE  /\ ~do_end' /\ ~req_valid' /\ ~resp_ready' /\ dmi_resp' = dmi_resp
           /\ tap_write_ready' = deser_done
           /\ IF deser_done /\ write_data.op # "NOP"
              THEN do_request' /\ request' = write_data /\ (do_read' <=> write_data.op = "READ")
              ELSE ~do_request' /\ ~do_read' /\ request' = request
<1>1. ~do_end' /\ ~req_valid' /\ ~resp_ready' /\ dmi_resp' = dmi_resp
  BY DEF AwaitWord, Await
<1>2. tap_write_ready' = deser_done
  BY DEF AwaitWord, Await
<1>3. write_data.op \in {"NOP", "READ", "WRITE"}
  BY DEF Types, Words, Ops
<1>4. CASE deser_done /\ write_data.op # "NOP"
  <2>1. write_data.op \in {"READ", "WRITE"}
    BY <1>3, <1>4
  <2>2. do_request' = TRUE /\ request' = write_data
        /\ do_read' = (do_read \/ write_data.op = "READ")
    BY <1>4, <2>1 DEF AwaitWord, Await
  <2>3. do_read' <=> write_data.op = "READ"
    BY <2>2
  <2> QED BY <1>1, <1>2, <1>4, <2>2, <2>3
<1>5. CASE ~(deser_done /\ write_data.op # "NOP")
  <2>1. ~(deser_done /\ write_data.op \in {"READ", "WRITE"})
    BY <1>5
  <2>2. do_request' = do_request /\ do_read' = do_read /\ request' = request
    BY <2>1 DEF AwaitWord, Await
  <2> QED BY <1>1, <1>2, <1>5, <2>2
<1> QED BY <1>4, <1>5

-----------------------------------------------------------------------------
(* Where the word is, from its last byte until the device has taken it     *)

\* No request is under way.
NoRequest == ~do_request /\ ~do_end /\ ~req_valid

\* The word that comes next is not yet with the device, unless it is a NOP.
Owes(word) == sent = IF word.op = "NOP" THEN served ELSE Append(served, word)

Rest == ~deser_done /\ NoRequest /\ sent = served

\* deser_done is shown to DMI_UART, which acknowledges write_data, still a NOP.
Complete ==
    /\ deser_done /\ writing /\ ~deser_reset /\ ~tap_write_ready
    /\ write_data = NoWord /\ NoRequest /\ ~resp_ready
    /\ Owes(deser_word)

Loaded ==
    /\ deser_done /\ writing /\ ~deser_reset /\ tap_write_ready
    /\ write_data = deser_word /\ NoRequest /\ ~resp_ready
    /\ Owes(deser_word)

Accepted ==
    /\ deser_done /\ writing /\ deser_reset /\ tap_write_ready
    /\ write_data = deser_word
    /\ ~do_end /\ ~req_valid /\ ~resp_ready
    /\ IF deser_word.op = "NOP" THEN ~do_request ELSE do_request /\ request = deser_word
    /\ Owes(deser_word)

\* The device was ready and still is: it takes the request with this edge.
Offered ==
    /\ ~deser_done /\ do_end /\ ~do_request
    /\ req_valid /\ ~resp_ready /\ req_ready
    /\ request.op # "NOP" /\ Owes(request)

\* The device has two transactions to answer, and no answer can leave.
Stuck ==
    /\ ~deser_done /\ do_request
    /\ req_valid /\ ~resp_ready /\ ~req_ready
    /\ request.op # "NOP" /\ Owes(request)

Ended ==
    /\ ~deser_done /\ do_end /\ ~do_request
    /\ ~req_valid /\ resp_ready /\ sent = served

Handover == Rest \/ Complete \/ Loaded \/ Accepted \/ Offered \/ Stuck \/ Ended

\* What the device does with a request that is not offered, and with one that
\* is while no answer leaves.
LEMMA DeviceHandover ==
    ASSUME Types, NEW ev \in Events, NEW ready \in BOOLEAN, Edge(ev, ready)
    PROVE  /\ ~req_valid => served' = served
           /\ req_valid /\ req_ready => served' = Append(served, request)
           /\ req_valid /\ ~req_ready => served' = served
           /\ ~req_valid /\ ~resp_ready => (req_ready' <=> req_ready)
           /\ ~req_ready /\ ~resp_ready => ~req_ready'
<1>1. PICK answers \in {0, 1} : Device(answers)
  BY DEF Edge
<1>2. Len(inflight') + Len(resp_queue') = Len(inflight) + Len(resp_queue) + Taken - Left
  BY <1>1, DeviceTakes
<1>3. Len(inflight) \in Nat /\ Len(resp_queue) \in Nat
  BY DEF Types
<1>4. ~req_valid /\ ~resp_ready => (req_ready' <=> req_ready)
  BY <1>2, <1>3 DEF Taken, Left, req_ready
<1>5. ~req_ready /\ ~resp_ready => ~req_ready'
  BY <1>2, <1>3 DEF Taken, Left, req_ready
<1> QED BY <1>1, <1>4, <1>5, DeviceTakes

\* While a word is handed over the host's next bytes are still to come.
LEMMA HostSilent ==
    ASSUME NEW ev \in Events, NEW ready \in BOOLEAN, Edge(ev, ready), ~Quiet
    PROVE  /\ writing' = writing
           /\ deser_reset' = (writing => deser_done /\ tap_write_ready)
           /\ write_data' = IF writing /\ deser_done THEN deser_word ELSE write_data
           /\ sent' = sent
           /\ IF deser_reset THEN deser_done' = FALSE /\ deser_word' = NoWord
              ELSE deser_done' = deser_done /\ deser_word' = deser_word
<1>1. ev = "none"
  BY DEF Edge, HostMay
<1> QED BY <1>1 DEF Edge, Arbiter, Deserialiser

LEMMA FromRest ==
    ASSUME ~Burst, Types, Rest, NEW ev \in Events, NEW ready \in BOOLEAN, Edge(ev, ready)
    PROVE  Rest' \/ Complete'
<1>1. served' = served
  BY DeviceHandover DEF Rest, NoRequest
<1>2. NoRequest' /\ ~resp_ready' /\ ~tap_write_ready'
  BY AwaitsOrMoves DEF Rest, NoRequest, AwaitWord, Await
<1>3. CASE deser_reset \/ ev # "word"
  <2>1. ~deser_done' /\ sent' = sent
    BY <1>3 DEF Edge, Deserialiser, Rest
  <2> QED BY <1>1, <1>2, <2>1 DEF Rest
<1>4. CASE ~deser_reset /\ ev = "word"
  <2>1. writing /\ write_data = NoWord
    BY <1>4 DEF Edge, HostMay
  <2>2. writing' /\ ~deser_reset' /\ write_data' = NoWord
    BY <1>4, <2>1 DEF Edge, Arbiter, Rest
  <2>3. PICK op \in Ops :
          LET word == [id |-> Len(sent) + 1, op |-> op]
          IN  /\ deser_done' = TRUE /\ deser_word' = word
              /\ sent' = IF op = "NOP" THEN sent ELSE Append(sent, word)
    BY <1>4 DEF Edge, Deserialiser
  <2>4. Owes(deser_word)'
    BY <1>1, <2>3 DEF Rest, Owes
  <2> QED BY <1>2, <2>2, <2>3, <2>4 DEF Complete
<1> QED BY <1>3, <1>4

LEMMA FromComplete ==
    ASSUME Types, Complete, NEW ev \in Events, NEW ready \in BOOLEAN, Edge(ev, ready)
    PROVE  Loaded'
<1>1. served' = served
  BY DeviceHandover DEF Complete, NoRequest
<1>2. NoRequest' /\ ~resp_ready' /\ tap_write_ready'
  BY AwaitsOrMoves DEF Complete, NoRequest, AwaitWord, Await, NoWord
<1>3. ~Quiet
  BY DEF Complete, Quiet
<1>4. /\ deser_done' /\ writing' /\ ~deser_reset' /\ write_data' = deser_word'
      /\ deser_word' = deser_word /\ sent' = sent
  BY <1>3, HostSilent DEF Complete
<1>5. Owes(deser_word)'
  BY <1>1, <1>4 DEF Complete, Owes
<1> QED BY <1>2, <1>4, <1>5 DEF Loaded

LEMMA FromLoaded ==
    ASSUME Types, Loaded, NEW ev \in Events, NEW ready \in BOOLEAN, Edge(ev, ready)
    PROVE  Accepted'
<1>1. served' = served
  BY DeviceHandover DEF Loaded, NoRequest
<1>2. AwaitWord
  BY AwaitsOrMoves DEF Loaded, NoRequest
<1>3. ~do_end' /\ ~req_valid' /\ ~resp_ready' /\ tap_write_ready'
  BY <1>2 DEF AwaitWord, Await, Loaded, NoRequest
<1>4. IF deser_word.op = "NOP" THEN ~do_request' ELSE do_request' /\ request' = deser_word
  <2>1. deser_word.op \in {"NOP", "READ", "WRITE"}
    BY DEF Types, Words, Ops
  <2> QED BY <1>2, <2>1 DEF AwaitWord, Await, Loaded, NoRequest
<1>5. ~Quiet
  BY DEF Loaded, Quiet
<1>6. /\ deser_done' /\ writing' /\ deser_reset' /\ write_data' = deser_word'
      /\ deser_word' = deser_word /\ sent' = sent
  BY <1>5, HostSilent DEF Loaded
<1>7. Owes(deser_word)'
  BY <1>1, <1>6 DEF Loaded, Owes
<1> QED BY <1>3, <1>4, <1>6, <1>7 DEF Accepted

LEMMA FromAccepted ==
    ASSUME Types, Accepted, NEW ev \in Events, NEW ready \in BOOLEAN, Edge(ev, ready)
    PROVE  Rest' \/ Offered' \/ Stuck'
<1>1. served' = served /\ (req_ready' <=> req_ready)
  BY DeviceHandover DEF Accepted
<1>2. ~deser_done' /\ sent' = sent
  <2>1. ~Quiet
    BY DEF Accepted, Quiet
  <2> QED BY <2>1, HostSilent DEF Accepted
<1>3. CASE deser_word.op = "NOP"
  <2>1. NoRequest'
    BY <1>3, AwaitsOrMoves DEF Accepted, AwaitWord, Await, NoRequest
  <2> QED BY <1>1, <1>2, <1>3, <2>1 DEF Rest, Accepted, Owes
<1>4. CASE deser_word.op # "NOP"
  <2>1. IssueRequest
    BY <1>4, AwaitsOrMoves DEF Accepted
  <2>2. /\ req_valid' /\ ~resp_ready' /\ request' = request
        /\ do_request' <=> ~req_ready
        /\ do_end' <=> req_ready
    BY <2>1, RequestIssues
  <2>3. request'.op # "NOP" /\ Owes(request)'
    BY <1>1, <1>2, <1>4, <2>2 DEF Accepted, Owes
  <2> QED BY <1>1, <1>2, <2>2, <2>3 DEF Offered, Stuck
<1> QED BY <1>3, <1>4

LEMMA FromOffered ==
    ASSUME Types, Offered, NEW ev \in Events, NEW ready \in BOOLEAN, Edge(ev, ready)
    PROVE  Ended'
<1>1. served' = Append(served, request)
  BY DeviceHandover DEF Offered
<1>2. ~deser_done' /\ sent' = sent
  <2>1. ~Quiet
    BY DEF Offered, Quiet
  <2> QED BY <2>1, HostSilent DEF Offered
<1>3. ~do_request' /\ do_end' /\ ~req_valid' /\ resp_ready'
  BY AwaitsOrMoves DEF Offered, TakeResponse, Take
<1> QED BY <1>1, <1>2, <1>3 DEF Offered, Owes, Ended

LEMMA FromStuck ==
    ASSUME Types, Stuck, NEW ev \in Events, NEW ready \in BOOLEAN, Edge(ev, ready)
    PROVE  Stuck'
<1>1. served' = served /\ ~req_ready'
  BY DeviceHandover DEF Stuck
<1>2. ~deser_done' /\ sent' = sent
  <2>1. ~Quiet
    BY DEF Stuck, Quiet
  <2> QED BY <2>1, HostSilent DEF Stuck
<1>3. IssueRequest
  BY AwaitsOrMoves DEF Stuck
<1>4. do_request' /\ req_valid' /\ ~resp_ready' /\ request' = request
  BY <1>3, RequestIssues DEF Stuck
<1> QED BY <1>1, <1>2, <1>4 DEF Stuck, Owes

LEMMA FromEnded ==
    ASSUME Types, Ended, NEW ev \in Events, NEW ready \in BOOLEAN, Edge(ev, ready)
    PROVE  Rest'
<1>1. served' = served
  BY DeviceHandover DEF Ended
<1>2. ~deser_done' /\ sent' = sent
  <2>1. ~Quiet
    BY DEF Ended, Quiet
  <2> QED BY <2>1, HostSilent DEF Ended
<1>3. NoRequest'
  BY AwaitsOrMoves DEF Ended, TakeResponse, Take, NoRequest
<1> QED BY <1>1, <1>2, <1>3 DEF Ended, Rest

LEMMA HandoverStep ==
    ASSUME ~Burst, Types, Handover, [Next]_vars
    PROVE  Handover'
<1>1. CASE Next
  <2>1. PICK ev \in Events, ready \in BOOLEAN : Edge(ev, ready)
    BY <1>1, NextIsEdge
  <2> QED BY <2>1, FromRest, FromComplete, FromLoaded, FromAccepted, FromOffered, FromStuck,
             FromEnded DEF Handover
<1>2. CASE UNCHANGED vars
  BY <1>2 DEF vars, arbiter, dmi, Handover, Rest, Complete, Loaded, Accepted, Offered, Stuck,
     Ended, NoRequest, Owes, req_ready
<1> QED BY <1>1, <1>2

\* The device takes each word with an operation once, in the order the host
\* sent them, and before the next can arrive, however late it answers
\* (WRITE_ARBITER, DMI_WRITE).
THEOREM WordsServedInOrder ==
    ASSUME DmiUartAssumption, ~Burst PROVE Spec => []ServedInOrder
<1>1. Init => Handover
  BY DEF Init, Handover, Rest, NoRequest
<1>2. Types /\ Handover /\ [Next]_vars => Handover'
  BY HandoverStep
<1>3. Types /\ Handover => ServedInOrder
  <2> SUFFICES ASSUME Types, Handover PROVE ServedInOrder
    OBVIOUS
  <2>1. sent = served \/ \E word \in Words : sent = Append(served, word)
    BY DEF Types, Handover, Rest, Complete, Loaded, Accepted, Offered, Stuck, Ended, Owes
  <2>2. IsPrefix(served, sent)
    BY <2>1 DEF Types, IsPrefix
  <2>3. Quiet => sent = served
    BY DEF Handover, Quiet, Rest, Complete, Loaded, Accepted, Offered, Stuck, Ended
  <2> QED BY <2>2, <2>3 DEF ServedInOrder
<1> QED BY <1>1, <1>2, <1>3, TypesAlways, PTL DEF Spec

-----------------------------------------------------------------------------
(* A device that answers at once                                           *)

\* When it holds nothing, a request that is offered is taken and its answer
\* waits.
LEMMA DeviceServes ==
    ASSUME Types, Prompt, inflight = <<>>, resp_queue = <<>>,
           NEW answers \in {0, 1}, Device(answers)
    PROVE  /\ inflight' = <<>>
           /\ req_valid => served' = Append(served, request) /\ resp_queue' = <<request.id>>
           /\ ~req_valid => served' = served /\ resp_queue' = <<>>
<1> DEFINE taken == IF req_valid /\ req_ready THEN <<request>> ELSE <<>>
<1>1. req_ready /\ ~resp_valid
  BY DEF req_ready, resp_valid
<1>2. /\ taken = IF req_valid THEN <<request>> ELSE <<>>
      /\ inflight \o taken = taken /\ taken \in Seq(Words)
  BY <1>1 DEF Types
<1>3. /\ answers = Len(taken)
      /\ served' = served \o taken
      /\ inflight' = SubSeq(taken, answers + 1, Len(taken))
      /\ resp_queue' = <<>> \o [i \in 1 .. answers |-> taken[i].id]
  BY <1>1, <1>2 DEF Device
<1>4. inflight' = <<>>
  <2>1. SubSeq(taken, Len(taken) + 1, Len(taken)) = <<>>
    BY <1>2
  <2> QED BY <2>1, <1>3
<1>5. CASE req_valid
  <2>1. taken = <<request>> /\ Len(taken) = 1
    BY <1>2, <1>5
  <2>2. served' = Append(served, request)
    BY <2>1, <1>3 DEF Types
  <2>3. [i \in 1 .. 1 |-> taken[i].id] = <<request.id>>
    BY <2>1
  <2>4. resp_queue' = <<>> \o <<request.id>>
    BY <2>1, <2>3, <1>3
  <2> QED BY <1>4, <1>5, <2>2, <2>4
<1>6. CASE ~req_valid
  <2>1. taken = <<>> /\ Len(taken) = 0
    BY <1>2, <1>6
  <2>2. served' = served
    BY <2>1, <1>3 DEF Types
  <2>3. [i \in 1 .. 0 |-> taken[i].id] = <<>>
    OBVIOUS
  <2>4. resp_queue' = <<>>
    BY <2>1, <2>3, <1>3
  <2> QED BY <1>4, <1>6, <2>2, <2>4
<1> QED BY <1>5, <1>6

\* When an answer is awaited, it leaves.
LEMMA DeviceAnswered ==
    ASSUME Types, Prompt, inflight = <<>>, NEW id \in Ids,
           resp_queue = <<id>>, ~req_valid, resp_ready,
           NEW answers \in {0, 1}, Device(answers)
    PROVE  inflight' = <<>> /\ served' = served /\ resp_queue' = <<>>
<1>1. resp_valid
  BY DEF resp_valid
<1>2. answers = 0
  BY DEF Device
<1>3. /\ served' = served \o <<>>
      /\ inflight' = SubSeq(<<>>, 1, 0)
      /\ resp_queue' = Tail(resp_queue) \o [i \in 1 .. 0 |-> (<<>> \o <<>>)[i].id]
  BY <1>1, <1>2 DEF Device
<1>4. Tail(resp_queue) = <<>>
  OBVIOUS
<1>5. [i \in 1 .. 0 |-> (<<>> \o <<>>)[i].id] = <<>>
  OBVIOUS
<1> QED BY <1>3, <1>4, <1>5 DEF Types

-----------------------------------------------------------------------------
(* The last read                                                           *)

LEMMA AnswerStays ==
    ASSUME served' = served, dmi_resp' = dmi_resp, AnswersLastRead(dmi_resp)
    PROVE  AnswersLastRead(dmi_resp)'
  BY DEF AnswersLastRead, IsLastRead, IsRead

LEMMA WriteKeepsAnswer ==
    ASSUME served \in Seq(Words), request \in Words, request.op # "READ",
           served' = Append(served, request), dmi_resp' = dmi_resp,
           AnswersLastRead(dmi_resp)
    PROVE  AnswersLastRead(dmi_resp)'
<1>1. \A n : IsRead(n)' <=> IsRead(n)
  BY DEF IsRead
<1>2. \A n \in DOMAIN served : served'[n] = served[n] /\ n \in DOMAIN served'
  OBVIOUS
<1>3. \A n : IsLastRead(n) => IsLastRead(n)'
  BY <1>1 DEF IsLastRead, IsRead
<1>4. CASE dmi_resp = 0 /\ \A n \in DOMAIN served : ~IsRead(n)
  BY <1>1, <1>4 DEF AnswersLastRead, IsRead
<1>5. CASE \E n \in DOMAIN served : IsLastRead(n) /\ dmi_resp = served[n].id
  BY <1>2, <1>3, <1>5 DEF AnswersLastRead
<1> QED BY <1>4, <1>5 DEF AnswersLastRead

LEMMA ReadIsLast ==
    ASSUME served \in Seq(Words), request \in Words, request.op = "READ",
           served' = Append(served, request), request' = request
    PROVE  AnswersLastRead(request.id)'
<1>1. PICK n \in Nat : n = Len(served) + 1
  OBVIOUS
<1>2. DOMAIN served' = 1 .. n /\ n \in DOMAIN served' /\ served'[n] = request'
  BY <1>1
<1>3. IsRead(n)'
  BY <1>2 DEF IsRead
<1>4. \A m \in DOMAIN served' : ~(m > n)
  BY <1>2
<1>5. IsLastRead(n)'
  BY <1>3, <1>4 DEF IsLastRead
<1> QED BY <1>2, <1>5 DEF AnswersLastRead

-----------------------------------------------------------------------------
(* Where a transaction is                                                  *)

Idle ==
    /\ ~do_request /\ ~do_end /\ ~do_read /\ ~req_valid
    /\ resp_queue = <<>> /\ AnswersLastRead(dmi_resp)
    /\ resp_ready => ~deser_done

\* The request waits for the next edge; the word it came from is released.
Requested ==
    /\ do_request /\ ~do_end /\ ~req_valid /\ ~resp_ready
    /\ resp_queue = <<>> /\ AnswersLastRead(dmi_resp)
    /\ do_read <=> request.op = "READ"
    /\ deser_done => deser_reset \/ tap_write_ready

OnOffer ==
    /\ do_end /\ ~do_request /\ req_valid /\ ~resp_ready
    /\ resp_queue = <<>> /\ AnswersLastRead(dmi_resp)
    /\ do_read <=> request.op = "READ"
    /\ deser_done => deser_reset

Answered ==
    /\ do_end /\ ~do_request /\ ~req_valid /\ resp_ready
    /\ resp_queue = <<request.id>>
    /\ do_read <=> request.op = "READ"
    /\ IF do_read THEN ~tap_read_valid /\ AnswersLastRead(request.id)
       ELSE AnswersLastRead(dmi_resp)
    /\ ~deser_done

Transaction == inflight = <<>> /\ (Idle \/ Requested \/ OnOffer \/ Answered)

\* What becomes of the word in the deserialiser while a transaction is under way.
LEMMA WordReleased ==
    ASSUME NEW ev \in Events, NEW ready \in BOOLEAN, Edge(ev, ready), Types
    PROVE  /\ deser_reset => ~deser_done'
           /\ do_request \/ do_end => (deser_done' => deser_done)
           /\ (do_request \/ do_end) /\ deser_done /\ tap_write_ready => deser_reset'
           /\ deser_done => \/ deser_reset'
                            \/ ~tap_write_ready
<1>1. deser_reset => ~deser_done'
  BY DEF Edge, Deserialiser
<1>2. do_request \/ do_end => ev = "none"
  BY DEF Edge, HostMay, Quiet
<1>3. deser_done => ev = "none"
  BY DEF Edge, HostMay, Quiet
<1>4. do_request \/ do_end => (deser_done' => deser_done)
  BY <1>2 DEF Edge, Deserialiser
<1>5. deser_done /\ tap_write_ready => deser_reset'
  BY <1>3 DEF Edge, Arbiter
<1> QED BY <1>1, <1>4, <1>5

LEMMA FromIdle ==
    ASSUME Prompt, Types, inflight = <<>>, Idle,
           NEW ev \in Events, NEW ready \in BOOLEAN, Edge(ev, ready)
    PROVE  inflight' = <<>> /\ (Idle' \/ Requested')
<1>1. inflight' = <<>> /\ served' = served /\ resp_queue' = <<>>
  BY DeviceServes DEF Idle, Edge
<1>2. AwaitWord
  BY AwaitsOrMoves DEF Idle
<1>3. /\ ~do_end' /\ ~req_valid' /\ ~resp_ready' /\ dmi_resp' = dmi_resp
      /\ tap_write_ready' = deser_done
      /\ IF deser_done /\ write_data.op # "NOP"
         THEN do_request' /\ request' = write_data /\ (do_read' <=> write_data.op = "READ")
         ELSE ~do_request' /\ ~do_read' /\ request' = request
  BY <1>2, WordIsAwaited DEF Idle
<1>4. AnswersLastRead(dmi_resp)'
  BY <1>1, <1>3, AnswerStays DEF Idle
<1>5. CASE deser_done /\ write_data.op # "NOP"
  <2>1. tap_write_ready'
    BY <1>3, <1>5
  <2> QED BY <1>1, <1>3, <1>4, <1>5, <2>1 DEF Requested
<1>6. CASE ~(deser_done /\ write_data.op # "NOP")
  BY <1>1, <1>3, <1>4, <1>6 DEF Idle
<1> QED BY <1>1, <1>5, <1>6

LEMMA FromRequested ==
    ASSUME Prompt, Types, inflight = <<>>, Requested,
           NEW ev \in Events, NEW ready \in BOOLEAN, Edge(ev, ready)
    PROVE  /\ inflight' = <<>> /\ OnOffer'
           /\ request' = request
<1>1. inflight' = <<>> /\ served' = served /\ resp_queue' = <<>>
  BY DeviceServes DEF Requested, Edge
<1>2. req_ready
  BY DEF req_ready, Requested
<1>3. /\ req_valid' /\ ~resp_ready' /\ ~do_request' /\ do_end'
      /\ do_read' = do_read /\ request' = request /\ dmi_resp' = dmi_resp
  BY <1>2, AwaitsOrMoves, RequestIssues DEF Requested
<1>4. AnswersLastRead(dmi_resp)'
  BY <1>1, <1>3, AnswerStays DEF Requested
<1>5. deser_done' => deser_reset'
  BY WordReleased DEF Requested
<1> QED BY <1>1, <1>3, <1>4, <1>5 DEF OnOffer, Requested

LEMMA FromOnOffer ==
    ASSUME Prompt, Types, inflight = <<>>, OnOffer,
           NEW ev \in Events, NEW ready \in BOOLEAN, Edge(ev, ready)
    PROVE  /\ inflight' = <<>> /\ Answered'
           /\ request' = request
<1>1. /\ inflight' = <<>> /\ served' = Append(served, request)
      /\ resp_queue' = <<request.id>>
  BY DeviceServes DEF OnOffer, Edge
<1>2. /\ ~do_request' /\ do_end' /\ ~req_valid' /\ resp_ready'
      /\ do_read' = do_read /\ request' = request /\ dmi_resp' = dmi_resp
  BY AwaitsOrMoves DEF Types, OnOffer, TakeResponse, Take
<1>3. ~deser_done'
  BY WordReleased DEF OnOffer
<1>4. request \in Words /\ served \in Seq(Words)
  BY DEF Types
<1>5. CASE do_read
  <2>1. ~tap_read_valid'
    BY <1>5 DEF Edge, TapRead
  <2>2. AnswersLastRead(request.id)'
    BY <1>1, <1>2, <1>4, <1>5, ReadIsLast DEF OnOffer
  <2> QED BY <1>1, <1>2, <1>3, <1>5, <2>1, <2>2 DEF Answered, OnOffer
<1>6. CASE ~do_read
  <2>1. AnswersLastRead(dmi_resp)'
    BY <1>1, <1>2, <1>4, <1>6, WriteKeepsAnswer DEF OnOffer
  <2> QED BY <1>1, <1>2, <1>3, <1>6, <2>1 DEF Answered, OnOffer
<1> QED BY <1>5, <1>6

LEMMA FromAnswered ==
    ASSUME Prompt, Types, inflight = <<>>, Answered,
           NEW ev \in Events, NEW ready \in BOOLEAN, Edge(ev, ready)
    PROVE  /\ inflight' = <<>> /\ Idle' /\ resp_ready'
           /\ request' = request
<1>1. request.id \in Ids
  BY DEF Types, Words, Ids
<1>2. inflight' = <<>> /\ served' = served /\ resp_queue' = <<>>
  BY <1>1, DeviceAnswered DEF Answered, Edge
<1>3. TakeResponse
  BY AwaitsOrMoves DEF Answered
<1>4. ~do_request' /\ ~do_end' /\ ~req_valid' /\ resp_ready' /\ request' = request
  BY <1>3 DEF TakeResponse, Take, Answered
<1>5. resp_valid /\ Head(resp_queue) = request.id
  BY DEF resp_valid, Answered
<1>6. ~do_read' /\ dmi_resp' = IF do_read THEN request.id ELSE dmi_resp
  BY <1>3, <1>5 DEF TakeResponse, Take, Answered
<1>7. AnswersLastRead(dmi_resp)'
  <2>1. CASE do_read
    BY <1>2, <1>6, <2>1 DEF Answered, AnswersLastRead, IsLastRead, IsRead
  <2>2. CASE ~do_read
    BY <1>2, <1>6, <2>2, AnswerStays DEF Answered
  <2> QED BY <2>1, <2>2
<1>8. ~deser_done'
  BY WordReleased DEF Answered
<1> QED BY <1>2, <1>4, <1>6, <1>7, <1>8 DEF Idle

LEMMA TransactionInit == Init => Transaction
<1> SUFFICES ASSUME Init PROVE Transaction
  OBVIOUS
<1>1. AnswersLastRead(dmi_resp)
  BY DEF Init, AnswersLastRead
<1> QED BY <1>1 DEF Init, Transaction, Idle

LEMMA TransactionStep ==
    ASSUME Prompt, Types, Transaction, [Next]_vars
    PROVE  Transaction'
<1>1. CASE Next
  <2>1. PICK ev \in Events, ready \in BOOLEAN : Edge(ev, ready)
    BY <1>1, NextIsEdge
  <2> QED BY <2>1, FromIdle, FromRequested, FromOnOffer, FromAnswered DEF Transaction
<1>2. CASE UNCHANGED vars
  BY <1>2 DEF vars, arbiter, dmi, Transaction, Idle, Requested, OnOffer, Answered,
     AnswersLastRead, IsLastRead, IsRead
<1> QED BY <1>1, <1>2

LEMMA TransactionAlways ==
    ASSUME DmiUartAssumption, Prompt PROVE Spec => []Transaction
<1>1. Init => Transaction
  BY TransactionInit
<1>2. Types /\ Transaction /\ [Next]_vars => Transaction'
  BY TransactionStep
<1> QED BY <1>1, <1>2, TypesAlways, PTL DEF Spec

\* No request is offered while an answer is due, and no answer is left for the
\* transaction after, whatever the host sends (do_request, do_end,
\* DMI_RESP_READY_O).
THEOREM TransactionsExclude ==
    ASSUME DmiUartAssumption, Prompt PROVE Spec => []OneTransaction
<1>1. Transaction => OneTransaction
  <2> SUFFICES ASSUME Transaction PROVE OneTransaction
    OBVIOUS
  <2>1. /\ resp_queue = <<>> \/ (resp_queue = <<request.id>> /\ ~req_valid)
        /\ Quiet => resp_queue = <<>>
    BY DEF Transaction, Quiet, Idle, Requested, OnOffer, Answered
  <2>2. Len(<<>>) = 0 /\ Len(<<request.id>>) = 1
    OBVIOUS
  <2>3. inflight = <<>>
    BY DEF Transaction
  <2>4. Len(inflight) + Len(resp_queue) + (IF req_valid THEN 1 ELSE 0) <= 1
    <3>1. Len(inflight) + Len(resp_queue) \in 0 .. 1
      BY <2>1, <2>2, <2>3
    <3>2. req_valid => Len(inflight) + Len(resp_queue) = 0
      BY <2>1, <2>2, <2>3
    <3> QED BY <3>1, <3>2
  <2> QED BY <2>1, <2>3, <2>4 DEF OneTransaction
<1> QED BY <1>1, TransactionAlways, PTL

\* What the TAP is given to send to the host is the answer to the last read the
\* device has taken, whatever the host sends (do_read, dmi_resp, TAP_READ).
THEOREM ReadsAreCurrent ==
    ASSUME DmiUartAssumption, Prompt PROVE Spec => []ReadIsCurrent
<1>1. Transaction => ReadIsCurrent
  BY DEF Transaction, Idle, Requested, OnOffer, Answered, ReadIsCurrent
<1> QED BY <1>1, TransactionAlways, PTL

-----------------------------------------------------------------------------
(* The port of the debug module                                            *)

\* What the port shows in each place of a transaction.
PortView ==
    /\ Idle /\ ~resp_ready => port_phase = "free"
    /\ Idle /\ resp_ready => port_phase = "answered"
    /\ Requested \/ OnOffer => port_phase = "accepted"
    /\ Answered => port_phase = "taken"

LEMMA PortShows == Transaction => PortView
BY DEF Transaction, PortView, Idle, Requested, OnOffer, Answered, port_phase

\* The same in the next state.
LEMMA PortShowsNext == Transaction' => PortView'
BY PortShows, PTL

PortStep == [Port!Next]_(Port!vars)

LEMMA PortInit == DmiUartAssumption /\ Init => Port!Init
<1> SUFFICES ASSUME DmiUartAssumption, Init PROVE Port!Init
  OBVIOUS
<1>1. port_phase = "free"
  BY DEF Init, port_phase
<1>2. port_word = 0 /\ 0 \in 0 .. MaxWords
  BY DEF Init, port_word, NoWord, DmiUartAssumption
<1> QED BY <1>1, <1>2 DEF Port!Init, port_op

LEMMA PortFromIdle ==
    ASSUME Prompt, Types, Transaction, Transaction', Idle,
           NEW ev \in Events, NEW ready \in BOOLEAN, Edge(ev, ready)
    PROVE  PortStep
<1>1. AwaitWord
  BY AwaitsOrMoves DEF Idle
<1>2. /\ ~resp_ready' /\ dmi_resp' = dmi_resp
      /\ IF deser_done /\ write_data.op # "NOP"
         THEN do_request' /\ request' = write_data
         ELSE ~do_request' /\ request' = request
  BY <1>1, WordIsAwaited DEF Idle
<1>3. Idle' \/ Requested'
  BY FromIdle DEF Transaction
<1>4. CASE Idle'
  <2>1. port_phase' = "free" /\ port_phase \in {"free", "answered"}
    BY <1>2, <1>4, PortShows, PortShowsNext DEF PortView
  <2>2. request' = request
    BY <1>2, <1>4 DEF Idle
  <2>3. port_op' = "none" /\ port_word' = port_word
    BY <1>2, <2>1, <2>2 DEF port_op, port_word
  <2>4. CASE port_phase = "free"
    <3>1. port_op = "none"
      BY <2>4 DEF port_op
    <3> QED BY <2>1, <2>3, <2>4, <3>1 DEF PortStep, Port!vars
  <2>5. CASE port_phase = "answered"
    BY <2>1, <2>3, <2>5 DEF PortStep, Port!Next, Port!Collect
  <2> QED BY <2>1, <2>4, <2>5
<1>5. CASE Requested'
  <2>1. do_request'
    BY <1>5 DEF Requested
  <2>2. ~resp_ready
    BY <1>2, <2>1 DEF Idle
  <2>3. port_phase = "free" /\ port_phase' = "accepted"
    BY <1>5, <2>2, PortShows, PortShowsNext DEF PortView
  <2>4. port_op' \in {"read", "write"}
    BY <2>3 DEF port_op
  <2>5. port_word' = write_data.id /\ write_data.id \in 0 .. MaxWords
    BY <1>2, <2>1, <2>3 DEF port_word, Types, Words
  <2> QED BY <2>3, <2>4, <2>5 DEF PortStep, Port!Next, Port!Accept
<1> QED BY <1>3, <1>4, <1>5

LEMMA PortFromRequested ==
    ASSUME Prompt, Types, Transaction, Transaction', Requested,
           NEW ev \in Events, NEW ready \in BOOLEAN, Edge(ev, ready)
    PROVE  PortStep
<1>1. OnOffer' /\ request' = request
  BY FromRequested DEF Transaction
<1>2. port_phase = "accepted" /\ port_phase' = "accepted"
  BY <1>1, PortShows, PortShowsNext DEF PortView
<1>3. UNCHANGED <<port_op, port_word>>
  BY <1>1, <1>2 DEF port_op, port_word
<1> QED BY <1>2, <1>3 DEF PortStep, Port!vars

LEMMA PortFromOnOffer ==
    ASSUME Prompt, Types, Transaction, Transaction', OnOffer,
           NEW ev \in Events, NEW ready \in BOOLEAN, Edge(ev, ready)
    PROVE  PortStep
<1>1. Answered' /\ request' = request
  BY FromOnOffer DEF Transaction
<1>2. port_phase = "accepted" /\ port_phase' = "taken"
  BY <1>1, PortShows, PortShowsNext DEF PortView
<1>3. UNCHANGED <<port_op, port_word>>
  BY <1>1, <1>2 DEF port_op, port_word
<1> QED BY <1>2, <1>3 DEF PortStep, Port!Next, Port!Take

LEMMA PortFromAnswered ==
    ASSUME Prompt, Types, Types', Transaction, Transaction', Answered,
           NEW ev \in Events, NEW ready \in BOOLEAN, Edge(ev, ready)
    PROVE  PortStep
<1>1. Idle' /\ resp_ready' /\ request' = request
  BY FromAnswered DEF Transaction
<1>2. port_phase = "taken" /\ port_phase' = "answered"
  BY <1>1, PortShows, PortShowsNext DEF PortView
<1>3. /\ port_op' = port_op
      /\ port_op = IF request.op = "READ" THEN "read" ELSE "write"
  BY <1>1, <1>2 DEF port_op
<1>4. port_word' = IF port_op = "read" THEN dmi_resp' ELSE port_word
  BY <1>1, <1>2, <1>3 DEF port_word
<1>5. dmi_resp' \in 0 .. MaxWords
  BY DEF Types, Ids
<1> QED BY <1>2, <1>3, <1>4, <1>5 DEF PortStep, Port!Next, Port!Answer

LEMMA PortSteps ==
    ASSUME Prompt, Types, Types', Transaction, Transaction', [Next]_vars
    PROVE  PortStep
<1>1. CASE Next
  <2>1. PICK ev \in Events, ready \in BOOLEAN : Edge(ev, ready)
    BY <1>1, NextIsEdge
  <2> QED BY <2>1, PortFromIdle, PortFromRequested, PortFromOnOffer, PortFromAnswered
             DEF Transaction
<1>2. CASE UNCHANGED vars
  <2>1. UNCHANGED port_phase
    BY <1>2 DEF vars, dmi, port_phase
  <2>2. UNCHANGED <<port_op, port_word>>
    BY <1>2, <2>1 DEF vars, dmi, port_op, port_word
  <2> QED BY <2>1, <2>2 DEF PortStep, Port!vars
<1> QED BY <1>1, <1>2

\* With a device that answers at once the path over the UART implements the
\* port of the debug module that the JTAG DTM implements: a request reaches
\* the device once, unchanged, and a read has its answer before the next is
\* issued, whatever the host sends.
THEOREM UartImplementsPort ==
    ASSUME DmiUartAssumption, Prompt PROVE Spec => ImplementsDmiPort
<1>1. Init => Port!Init
  BY PortInit
<1>2. Types /\ Types' /\ Transaction /\ Transaction' /\ [Next]_vars => [Port!Next]_(Port!vars)
  BY PortSteps DEF PortStep
<1>3. Spec => Port!Init /\ [][Port!Next]_(Port!vars)
  BY <1>1, <1>2, TypesAlways, TransactionAlways, PTL DEF Spec
<1> QED BY <1>3 DEF ImplementsDmiPort, Port!Spec

=============================================================================
