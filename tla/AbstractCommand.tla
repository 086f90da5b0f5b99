-------------------------- MODULE AbstractCommand --------------------------
(***************************************************************************)
(* What a debugger relies on when it uses abstract commands, whatever the  *)
(* debug module and the harts do to provide it: a command it started is    *)
(* either rejected, which shows in cmderr, or executed once; a fault of    *)
(* the program shows in cmderr before the command is reported as ended;    *)
(* and an error stays until the debugger clears it between two commands.   *)
(***************************************************************************)
VARIABLES
    phase,  \* where the command is
    error   \* cmderr is not zero

vars == <<phase, error>>

Phases == {"idle", "accepted", "executing", "faulted", "finished"}

Init == phase = "idle" /\ error = FALSE

\* An error may be added at any time (an access while busy), and is cleared
\* by the debugger between commands.
MayAddError == error => error'

Accept   == phase = "idle" /\ phase' = "accepted" /\ MayAddError
Reject   == phase = "accepted" /\ phase' = "idle" /\ error' = TRUE
Start    == phase = "accepted" /\ phase' = "executing" /\ MayAddError
Finish   == phase = "executing" /\ phase' = "finished" /\ MayAddError
Fault    == phase = "executing" /\ phase' = "faulted" /\ MayAddError
Report   == phase = "faulted" /\ phase' = "finished" /\ error' = TRUE
End      == phase = "finished" /\ phase' = "idle" /\ MayAddError

Busy     == phase # "idle" /\ phase' = phase /\ error' = TRUE
SetError == phase = "idle" /\ phase' = phase /\ error' \in BOOLEAN

Next == \/ Accept \/ Reject \/ Start \/ Finish \/ Fault \/ Report \/ End
        \/ Busy \/ SetError

Spec == Init /\ [][Next]_vars

\* Progress: a command that was accepted comes to an end.
Terminates == phase # "idle" ~> phase = "idle"

=============================================================================
