---------------------------- MODULE MemoryWindow ----------------------------
(***************************************************************************)
(* What a debugger relies on when it uses system bus access: a window of   *)
(* one word on the memory of the system.  A read brings the word at the    *)
(* window's address into data, a write stores data there, and each moves   *)
(* the window to the next word if autoincrement is set.  While an access   *)
(* is pending the debugger can change nothing.                             *)
(***************************************************************************)
CONSTANTS
    Addresses, Values,
    Following(_)    \* the address after an address

VARIABLES
    address, data, autoincrement,
    pending,        \* "none", "read" or "write"
    mem             \* the memory

vars == <<address, data, autoincrement, pending, mem>>

Init == pending = "none" /\ address \in Addresses /\ data \in Values

Moved == IF autoincrement THEN Following(address) ELSE address

\* The debugger prepares and may start an access.
SetAddress ==
    /\ pending = "none"
    /\ address' \in Addresses
    /\ pending' \in {"none", "read"}
    /\ UNCHANGED <<data, autoincrement, mem>>

SetData ==
    /\ pending = "none"
    /\ data' \in Values
    /\ pending' \in {"none", "write"}
    /\ UNCHANGED <<address, autoincrement, mem>>

ReadAgain ==
    /\ pending = "none"
    /\ pending' = "read"
    /\ UNCHANGED <<address, data, autoincrement, mem>>

SetMode ==
    /\ pending = "none"
    /\ autoincrement' \in BOOLEAN
    /\ UNCHANGED <<address, data, pending, mem>>

\* The access happens.
Load ==
    /\ pending = "read"
    /\ pending' = "none"
    /\ data' = mem[address]
    /\ address' = Moved
    /\ UNCHANGED <<autoincrement, mem>>

\* After a write data is whatever the bus returned with it.
Store ==
    /\ pending = "write"
    /\ pending' = "none"
    /\ mem' = [mem EXCEPT ![address] = data]
    /\ data' \in Values
    /\ address' = Moved
    /\ UNCHANGED autoincrement

Next == SetAddress \/ SetData \/ ReadAgain \/ SetMode \/ Load \/ Store

Spec == Init /\ [][Next]_vars

=============================================================================
