--------------------------- MODULE RemoteBitbang ---------------------------
(***************************************************************************)
(* The simulation's JTAG driver: SimJTAG.sv calls jtag_tick (sim_jtag.c),  *)
(* which calls rbs_tick of the remote bitbang server (remote_bitbang.c).   *)
(* The server holds the pins and a socket to one client.                   *)
(*                                                                         *)
(* A call that waits (in accept, or in read while the client is silent)    *)
(* does not return, so that the whole simulation stands still: here its    *)
(* step is not enabled.                                                    *)
(***************************************************************************)
EXTENDS Naturals, Sequences

Pin  == {0, 1}
Pins == [tck : Pin, tms : Pin, tdi : Pin, trstn : Pin]

\* '0' .. '7', 'R', 'Q' and all the letters that only print.
Write(p, q, r) == [name |-> "write", tck |-> p, tms |-> q, tdi |-> r]
ReadTdo        == [name |-> "read"]
Quit           == [name |-> "quit"]
Blink          == [name |-> "blink"]
Commands == {Write(p, q, r) : p, q, r \in Pin} \cup {ReadTdo, Quit, Blink}

VARIABLES
    pins,       \* jtag_TCK, jtag_TMS, jtag_TDI, jtag_TRSTn
    client_fd,  \* the server has a client
    ended,      \* quit, whose value ends the simulation, or abort was called
    peer,       \* the client: "away", "connected" or "closed" its end
    tosrv,      \* bytes on the way to the server
    tocli       \* bytes on the way to the client

link == <<pins, client_fd, ended, peer, tosrv, tocli>>

\* Nothing is driven before the first call: SimJTAG's bits start as zero.
RbsInit ==
    /\ pins = [tck |-> 0, tms |-> 0, tdi |-> 0, trstn |-> 0]
    /\ client_fd = FALSE /\ ended = FALSE
    /\ peer = "away" /\ tosrv = <<>> /\ tocli = <<>>

\* rbs_init and rbs_accept, in the first call, which waits for a client.
Accept ==
    /\ ~ended /\ ~client_fd /\ peer # "away"
    /\ client_fd' = TRUE
    /\ pins' = [tck |-> 1, tms |-> 1, tdi |-> 1, trstn |-> 1]
    /\ UNCHANGED <<ended, peer, tosrv, tocli>>

\* rbs_tick with a client and a command: exactly one command is executed, and
\* a reply carries TDO as it was when the call began.
Execute(tdo) ==
    /\ ~ended /\ client_fd /\ tosrv # <<>>
    /\ LET command == Head(tosrv)
       IN  /\ tosrv' = Tail(tosrv)
           /\ pins' = IF command.name = "write"
                      THEN [tck |-> command.tck, tms |-> command.tms,
                            tdi |-> command.tdi, trstn |-> pins.trstn]
                      ELSE pins
           /\ tocli' = IF command.name = "read" THEN Append(tocli, tdo) ELSE tocli
           /\ ended' = (command.name = "quit")
           /\ client_fd' = (command.name # "quit")
    /\ UNCHANGED peer

\* rbs_execute_command when the client has closed its end: read returns zero
\* and the call returns; client_fd keeps its value.
EndOfFile ==
    /\ ~ended /\ client_fd /\ tosrv = <<>> /\ peer = "closed"
    /\ UNCHANGED link

\* Reading or writing a socket whose client has gone may fail: abort.
Abort ==
    /\ ~ended /\ client_fd /\ peer = "closed"
    /\ ended' = TRUE
    /\ UNCHANGED <<pins, client_fd, peer, tosrv, tocli>>
=============================================================================
