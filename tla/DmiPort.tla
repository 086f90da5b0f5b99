------------------------------ MODULE DmiPort ------------------------------
(***************************************************************************)
(* What a debug transport promises about the debug module interface: an    *)
(* operation it accepts reaches the debug module once, unchanged, and is   *)
(* answered before the next one is accepted; the last word the port holds  *)
(* is the answer of a read or the word that was written.                   *)
(***************************************************************************)
CONSTANTS Data   \* what a data word can be

VARIABLES
    phase,   \* "free", "accepted", "taken" by the debug module, "answered"
    op,      \* the operation that is carried out, "none" in a free port
    word     \* the data of that operation or of its answer

vars == <<phase, op, word>>

Init == phase = "free" /\ op = "none" /\ word \in Data

\* A NOP only leaves its data in the port.
Nop(d) == phase = "free" /\ word' = d /\ UNCHANGED <<phase, op>>

Accept(o, d) ==
    /\ phase = "free"
    /\ phase' = "accepted" /\ op' = o /\ word' = d

Take == phase = "accepted" /\ phase' = "taken" /\ UNCHANGED <<op, word>>

Answer(d) ==
    /\ phase = "taken"
    /\ phase' = "answered"
    /\ word' = IF op = "read" THEN d ELSE word
    /\ UNCHANGED op

Collect == phase = "answered" /\ phase' = "free" /\ op' = "none" /\ UNCHANGED word

Next ==
    \/ \E d \in Data : Nop(d) \/ Accept("read", d) \/ Accept("write", d) \/ Answer(d)
    \/ Take \/ Collect

Spec == Init /\ [][Next]_vars
=============================================================================
