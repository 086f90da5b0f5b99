---------------------------- MODULE RxPathProofs ----------------------------
(***************************************************************************)
(* The FIFO of the receive path is a queue, whatever its depth, the bytes, *)
(* and the times at which bytes come in and are read.                      *)
(***************************************************************************)
EXTENDS RxPath, TLAPS

fill == Len(received) - taken

\* Where the byte i places behind the oldest one is, or will be, kept.
At(i) == IF r_ptr + i < Depth THEN r_ptr + i ELSE r_ptr + i - Depth

\* FifoIsQueue speaks of the oldest byte only.  For the next one to be right
\* when that is read, all of them have to be where they belong.
QueueInv ==
    /\ fill \in 0 .. Depth
    /\ w_ptr = At(fill)
    /\ empty <=> fill = 0
    /\ full <=> fill = Depth
    /\ \A i \in 0 .. Depth - 1 :
           i < fill => ram[At(i)] = received[taken + 1 + i]

FifoInv == TypeOK /\ QueueInv

-----------------------------------------------------------------------------

\* One clock edge, whatever the handshakes are.
EdgeIsClock ==
    \E WE_I, read \in BOOLEAN, byte \in Bytes : Clock(WE_I, byte, read)

\* Receive and Wait are clock edges.
LEMMA NextIsClock ==
    ASSUME RxPathAssumption, Next
    PROVE  EdgeIsClock
BY DEF RxPathAssumption, Next, Edge, Receive, Wait, EdgeIsClock

\* A clock edge keeps the types.
LEMMA TypeStep ==
    ASSUME RxPathAssumption, TypeOK, Next
    PROVE  TypeOK'
<1>1. PICK WE_I \in BOOLEAN, read \in BOOLEAN, byte \in Bytes :
          Clock(WE_I, byte, read)
    BY NextIsClock DEF EdgeIsClock
<1>2. \A p \in Ptrs : Inc(p) \in Ptrs
    BY DEF RxPathAssumption, Ptrs, Inc
<1>3. R_DATA_O \in Bytes
    BY DEF TypeOK, R_DATA_O
<1>4. ram' \in [Ptrs -> Bytes] /\ received' \in Seq(Bytes)
    BY <1>1 DEF TypeOK, Clock, Fifo
<1>5. w_ptr' \in Ptrs /\ r_ptr' \in Ptrs
    BY <1>1, <1>2 DEF TypeOK, Clock, Fifo
<1>6. full' \in BOOLEAN /\ empty' \in BOOLEAN
    BY <1>1 DEF TypeOK, Clock, Fifo, full_next, empty_next
<1>7. state' \in {"idle", "data", "escape", "command"}
    BY <1>1 DEF TypeOK, Clock, Escape, state_next
<1>8. data' \in Bytes /\ taken' \in Nat
    BY <1>1, <1>3 DEF TypeOK, Clock, Escape
<1> QED
    BY <1>4, <1>5, <1>6, <1>7, <1>8 DEF TypeOK

\* The registers have their types at all times (SIMPLE_FIFO, RX_Escape).
THEOREM RxTypes == ASSUME RxPathAssumption PROVE Spec => []TypeOK
<1>1. Init => TypeOK
    BY DEF RxPathAssumption, Init, TypeOK, Ptrs
<1>2. TypeOK /\ [Next]_vars => TypeOK'
    BY TypeStep DEF TypeOK, vars, fifo
<1> QED
    BY <1>1, <1>2, PTL DEF Spec

-----------------------------------------------------------------------------
(* The queue *)

\* At on the indices it is used with.
LEMMA AtFacts ==
    ASSUME RxPathAssumption, TypeOK
    PROVE  /\ \A i \in 0 .. Depth - 1 : At(i) \in Ptrs
           /\ At(0) = r_ptr /\ At(Depth) = r_ptr
           /\ \A i \in 0 .. Depth - 1 : Inc(At(i)) = At(i + 1)
           /\ \A i, j \in 0 .. Depth - 1 : At(i) = At(j) => i = j
BY DEF RxPathAssumption, TypeOK, At, Ptrs, Inc

\* The registers are read as they are in one step of the queue: the write and
\* the read that take effect, which byte is written, and what moves.
Moves(w_en, byte) ==
    /\ ram' = IF w_en THEN [ram EXCEPT ![w_ptr] = byte] ELSE ram
    /\ w_ptr' = IF w_en THEN Inc(w_ptr) ELSE w_ptr
    /\ r_ptr' = IF READ_O THEN Inc(r_ptr) ELSE r_ptr
    /\ full' = full_next(w_en, READ_O)
    /\ empty' = empty_next(w_en, READ_O)
    /\ received' = IF w_en THEN Append(received, byte) ELSE received
    /\ taken' = IF READ_O THEN taken + 1 ELSE taken

\* RX_Escape reads only if the FIFO is not empty, so that a read always moves
\* the pointer, and a write takes effect only if it is not full.
LEMMA StepMoves ==
    ASSUME TypeOK, Next, RxPathAssumption
    PROVE  \E w_en \in BOOLEAN, byte \in Bytes :
               (w_en => ~full) /\ Moves(w_en, byte)
<1>1. PICK WE_I \in BOOLEAN, read \in BOOLEAN, byte \in Bytes :
          Clock(WE_I, byte, read)
    BY NextIsClock DEF EdgeIsClock
<1>2. READ_O => ~empty
    BY DEF READ_O
<1>3. Moves(WE_I /\ ~full, byte)
    BY <1>1, <1>2 DEF Clock, Fifo, Escape, Moves
<1> QED
    BY <1>3

\* A step of the queue keeps the invariant: the four cases of a write and a
\* read taking effect or not.
LEMMA QueueStep ==
    ASSUME RxPathAssumption, TypeOK, TypeOK', QueueInv,
           NEW w_en \in BOOLEAN, NEW byte \in Bytes,
           w_en => ~full, Moves(w_en, byte)
    PROVE  QueueInv'
<1> DEFINE F == fill
<1>1. F \in 0 .. Depth /\ Depth \in Nat \ {0, 1} /\ w_ptr = At(F)
    BY DEF RxPathAssumption, QueueInv
<1>2. /\ w_en => F < Depth
      /\ READ_O => F > 0
    BY <1>1 DEF QueueInv, READ_O
<1>3. fill' = F + (IF w_en THEN 1 ELSE 0) - (IF READ_O THEN 1 ELSE 0)
    <2>1. Len(received') = Len(received) + (IF w_en THEN 1 ELSE 0)
        BY DEF Moves, TypeOK
    <2>2. taken' = taken + (IF READ_O THEN 1 ELSE 0)
        BY DEF Moves, TypeOK
    <2> QED
        BY <2>1, <2>2 DEF fill, TypeOK
<1>4. r_ptr' = IF READ_O THEN At(1) ELSE r_ptr
    <2>1. Inc(r_ptr) = At(1)
        BY <1>1, AtFacts
    <2> QED
        BY <2>1 DEF Moves
<1>5. \A i \in 0 .. Depth - 1 :
          At(i)' = IF READ_O THEN At(i + 1) ELSE At(i)
    BY <1>1, <1>4 DEF At, TypeOK, Ptrs
<1>6. (fill \in 0 .. Depth)'
    BY <1>1, <1>2, <1>3
<1>7. w_ptr' = At(fill)'
    <2>1. w_ptr' = IF w_en THEN At(F + 1) ELSE At(F)
        BY <1>1, <1>2, AtFacts DEF Moves
    <2>2. CASE fill' < Depth
        <3>1. fill' \in 0 .. Depth - 1
            BY <1>1, <1>6, <2>2
        <3>2. \A i \in 0 .. Depth - 1 : fill' = i => At(fill)' = At(i)'
            BY DEF At
        <3>3. At(fill)' = IF READ_O THEN At(fill' + 1) ELSE At(fill')
            BY <1>5, <3>1, <3>2
        <3> QED
            BY <2>1, <3>3, <1>1, <1>3
    <2>3. CASE fill' = Depth
        <3>1. ~READ_O
            BY <1>1, <1>2, <1>3, <2>3
        <3>2. At(fill)' = r_ptr
            BY <3>1, <1>1, <1>4, <2>3 DEF At, TypeOK, Ptrs
        <3> QED
            BY <2>1, <3>1, <3>2, <1>1, <1>3, <2>3, AtFacts
    <2> QED
        BY <1>6, <1>1, <2>2, <2>3
<1>8. (empty <=> fill = 0)' /\ (full <=> fill = Depth)'
    <2>1. w_en /\ ~READ_O => (Inc(w_ptr) = r_ptr <=> F + 1 = Depth)
        <3> SUFFICES ASSUME w_en PROVE Inc(w_ptr) = r_ptr <=> F + 1 = Depth
            OBVIOUS
        <3>1. F < Depth
            BY <1>2
        <3>2. Inc(w_ptr) = At(F + 1)
            BY <1>1, <3>1, AtFacts
        <3>3. At(F + 1) = r_ptr <=> F + 1 = Depth
            BY <1>1, <3>1 DEF At, TypeOK, Ptrs
        <3> QED
            BY <3>2, <3>3
    <2>2. READ_O => (Inc(r_ptr) = w_ptr <=> F = 1)
        <3> SUFFICES ASSUME READ_O PROVE Inc(r_ptr) = w_ptr <=> F = 1
            OBVIOUS
        <3>1. Inc(r_ptr) = At(1)
            BY <1>1, AtFacts
        <3>2. At(1) = At(F) <=> F = 1
            BY <1>1, <1>2 DEF At, TypeOK, Ptrs
        <3> QED
            BY <1>1, <3>1, <3>2
    <2>3. empty <=> F = 0
        BY DEF QueueInv
    <2>4. full <=> F = Depth
        BY DEF QueueInv
    <2>5. empty' <=> fill' = 0
        <3>1. CASE ~w_en /\ READ_O
            <4>1. ~empty
                BY <3>1, <2>3, <1>2, <1>1
            <4>2. empty' <=> Inc(r_ptr) = w_ptr
                BY <3>1, <4>1, Zenon DEF Moves, empty_next
            <4> QED
                BY <3>1, <4>2, <2>2, <1>1, <1>2, <1>3
        <3>2. CASE w_en /\ ~READ_O
            <4>1. empty' <=> FALSE
                BY <3>2, <2>1, <2>4, <1>2, <1>1 DEF Moves, empty_next
            <4> QED
                BY <3>2, <4>1, <1>1, <1>2, <1>3
        <3>3. CASE w_en <=> READ_O
            <4>1. empty' <=> empty
                BY <3>3 DEF Moves, empty_next
            <4> QED
                BY <3>3, <4>1, <2>3, <2>4, <1>1, <1>2, <1>3
        <3> QED
            BY <3>1, <3>2, <3>3
    <2>6. full' <=> fill' = Depth
        <3>1. CASE ~w_en /\ READ_O
            <4>1. full' <=> FALSE
                BY <3>1, <2>2, <2>3, <1>2, <1>1 DEF Moves, full_next
            <4> QED
                BY <3>1, <4>1, <1>1, <1>2, <1>3
        <3>2. CASE w_en /\ ~READ_O
            <4>1. full' <=> (F + 1 = Depth)
                BY <3>2, <2>1, <2>4, <1>2, <1>1 DEF Moves, full_next
            <4> QED
                BY <3>2, <4>1, <1>1, <1>2, <1>3
        <3>3. CASE w_en <=> READ_O
            <4>1. full' <=> full
                BY <3>3 DEF Moves, full_next
            <4> QED
                BY <3>3, <4>1, <2>3, <2>4, <1>1, <1>2, <1>3
        <3> QED
            BY <3>1, <3>2, <3>3
    <2> QED
        BY <2>5, <2>6
<1>9. (\A i \in 0 .. Depth - 1 :
           i < fill => ram[At(i)] = received[taken + 1 + i])'
    <2> SUFFICES ASSUME NEW i \in 0 .. Depth - 1, i < fill'
                 PROVE  ram'[At(i)'] = received'[taken' + 1 + i]
        BY <1>1
    <2> DEFINE j == IF READ_O THEN i + 1 ELSE i
    <2>1. At(i)' = At(j) /\ taken' + 1 + i = taken + 1 + j
        BY <1>5 DEF Moves, TypeOK
    <2>2. j \in 0 .. F /\ (~w_en => j < F) /\ (j < F => j \in 0 .. Depth - 1)
        BY <1>1, <1>2, <1>3
    <2>3. CASE j < F
        <3>1. ram[At(j)] = received[taken + 1 + j]
            BY <2>2, <2>3 DEF QueueInv
        <3>2. w_en => At(j) # w_ptr
            BY <1>1, <1>2, <2>2, <2>3, AtFacts
        <3>3. ram'[At(j)] = ram[At(j)]
            BY <2>2, <2>3, <3>2, AtFacts DEF Moves, TypeOK
        <3>4. received'[taken + 1 + j] = received[taken + 1 + j]
            <4>1. taken + 1 + j \in 1 .. Len(received)
                BY <2>2, <2>3 DEF fill, TypeOK
            <4> QED
                BY <4>1 DEF Moves, TypeOK
        <3> QED
            BY <2>1, <3>1, <3>3, <3>4
    <2>4. CASE j = F
        <3>1. w_en /\ At(j) = w_ptr
            BY <1>1, <2>2, <2>4
        <3>2. ram'[w_ptr] = byte
            BY <3>1 DEF Moves, TypeOK
        <3>3. taken + 1 + j = Len(received) + 1
            BY <2>4 DEF fill, TypeOK
        <3>4. received'[Len(received) + 1] = byte
            BY <3>1 DEF Moves, TypeOK
        <3> QED
            BY <2>1, <3>1, <3>2, <3>3, <3>4
    <2> QED
        BY <2>2, <2>3, <2>4, <1>1
<1> QED
    BY <1>6, <1>7, <1>8, <1>9 DEF QueueInv

LEMMA FifoInvariant == ASSUME RxPathAssumption PROVE Spec => []FifoInv
<1>1. Init => FifoInv
    BY DEF RxPathAssumption, Init, FifoInv, TypeOK, QueueInv, Ptrs, fill, At
<1>2. FifoInv /\ [Next]_vars => FifoInv'
    <2>1. CASE Next
        BY <2>1, TypeStep, StepMoves, QueueStep DEF FifoInv
    <2>2. CASE UNCHANGED vars
        BY <2>2 DEF FifoInv, TypeOK, QueueInv, fill, At, vars, fifo
    <2> QED
        BY <2>1, <2>2
<1> QED
    BY <1>1, <1>2, PTL DEF Spec

\* The flags tell the fill level and the byte that is offered is the oldest
\* one not yet read, for every depth of the FIFO (SIMPLE_FIFO).
THEOREM FifoQueues == ASSUME RxPathAssumption PROVE Spec => []FifoIsQueue
<1>1. FifoInv => FifoIsQueue
    <2> SUFFICES ASSUME FifoInv PROVE FifoIsQueue
        OBVIOUS
    <2>1. fill \in 0 .. Depth /\ taken \in Nat /\ Len(received) \in Nat
        BY DEF FifoInv, QueueInv, TypeOK
    <2>2. fill > 0 => ram[At(0)] = received[taken + 1]
        BY <2>1, RxPathAssumption DEF FifoInv, QueueInv, RxPathAssumption
    <2>3. At(0) = r_ptr
        BY AtFacts DEF FifoInv
    <2> QED
        BY <2>1, <2>2, <2>3
        DEF FifoInv, QueueInv, FifoIsQueue, fill, R_DATA_O
<1> QED
    BY <1>1, FifoInvariant, PTL

-----------------------------------------------------------------------------
(* Escape decoding.                                                        *)
(*                                                                         *)
(* Decoded is recursive over the bytes.  What it gives is not proved by    *)
(* induction over sequences but with the steps of RX_Escape: each byte     *)
(* read extends a decoding of the bytes before it, and every decoding of   *)
(* all of them comes from one of those.                                    *)

IsDecoding(bytes, f) ==
    f = [n \in 0 .. Len(bytes) |->
            IF n = 0 THEN Undecoded ELSE DecodeByte(f[n - 1], bytes[n])]

\* Decoded takes the last value of a decoding.
LEMMA DecodedChooses ==
    ASSUME NEW bytes
    PROVE  Decoded(bytes) = (CHOOSE f : IsDecoding(bytes, f))[Len(bytes)].out
BY DEF Decoded, IsDecoding

\* A decoding of the bytes is one of all but the last, and a step from there.
LEMMA DecodingRestricts ==
    ASSUME NEW bytes \in Seq(Bytes), NEW b \in Bytes, NEW f,
           IsDecoding(Append(bytes, b), f)
    PROVE  LET g == [n \in 0 .. Len(bytes) |-> f[n]]
           IN  /\ IsDecoding(bytes, g)
               /\ f[Len(bytes) + 1] = DecodeByte(g[Len(bytes)], b)
<1> DEFINE g == [n \in 0 .. Len(bytes) |-> f[n]]
<1>1. /\ Len(bytes) \in Nat /\ Len(Append(bytes, b)) = Len(bytes) + 1
      /\ Append(bytes, b)[Len(bytes) + 1] = b
      /\ \A n \in 1 .. Len(bytes) : Append(bytes, b)[n] = bytes[n]
    OBVIOUS
<1>2. \A n \in 0 .. Len(bytes) + 1 :
         f[n] = IF n = 0 THEN Undecoded ELSE DecodeByte(f[n - 1], Append(bytes, b)[n])
    BY <1>1 DEF IsDecoding
<1>3. \A n \in 0 .. Len(bytes) :
         g[n] = IF n = 0 THEN Undecoded ELSE DecodeByte(g[n - 1], bytes[n])
    BY <1>1, <1>2
<1>4. IsDecoding(bytes, g)
    BY <1>3 DEF IsDecoding
<1>5. f[Len(bytes) + 1] = DecodeByte(g[Len(bytes)], b)
    BY <1>1, <1>2
<1> QED
    BY <1>4, <1>5

\* Every decoding can be continued by one more byte.
LEMMA DecodingExtends ==
    ASSUME NEW bytes \in Seq(Bytes), NEW b \in Bytes, NEW g, IsDecoding(bytes, g)
    PROVE  \E f : IsDecoding(Append(bytes, b), f)
<1> DEFINE f == [n \in 0 .. Len(bytes) + 1 |->
                    IF n <= Len(bytes) THEN g[n] ELSE DecodeByte(g[Len(bytes)], b)]
<1>1. /\ Len(bytes) \in Nat /\ Len(Append(bytes, b)) = Len(bytes) + 1
      /\ Append(bytes, b)[Len(bytes) + 1] = b
      /\ \A n \in 1 .. Len(bytes) : Append(bytes, b)[n] = bytes[n]
    OBVIOUS
<1>2. \A n \in 0 .. Len(bytes) :
         g[n] = IF n = 0 THEN Undecoded ELSE DecodeByte(g[n - 1], bytes[n])
    BY <1>1 DEF IsDecoding
<1>3. \A n \in 0 .. Len(bytes) + 1 :
         f[n] = IF n = 0 THEN Undecoded ELSE DecodeByte(f[n - 1], Append(bytes, b)[n])
    BY <1>1, <1>2
<1>4. IsDecoding(Append(bytes, b), f)
    BY <1>1, <1>3 DEF IsDecoding
<1> QED
    BY <1>4

\* The bytes RX_Escape has read, and what the TAP has read or is offered.
Prefix == SubSeq(received, 1, taken)
Offered == IF Available THEN Append(delivered, [command |-> COMMAND_O, byte |-> data])
           ELSE delivered

DecodeInv ==
    /\ \E f : IsDecoding(Prefix, f)
    /\ \A f : IsDecoding(Prefix, f) =>
          f[taken] = [out |-> Offered, esc |-> state = "escape"]

LEMMA DecodeStep ==
    ASSUME RxPathAssumption, FifoInv, FifoInv', FifoIsQueue, DecodeInv, Next
    PROVE  DecodeInv'
<1>1. PICK WE_I \in BOOLEAN, read \in BOOLEAN, byte \in Bytes :
          Clock(WE_I, byte, read)
    BY NextIsClock DEF EdgeIsClock
<1>2. /\ received \in Seq(Bytes) /\ taken \in 0 .. Len(received)
      /\ received' \in Seq(Bytes) /\ taken' \in 0 .. Len(received')
    BY DEF FifoInv, TypeOK, QueueInv, fill
<1>3. Prefix \in Seq(Bytes) /\ Len(Prefix) = taken
    BY <1>2 DEF Prefix
<1>4. \A n \in 1 .. Len(received) : received'[n] = received[n]
    BY <1>1, <1>2 DEF Clock, Fifo
<1>5. CASE READ_O
    <2>1. /\ taken' = taken + 1 /\ taken < Len(received)
          /\ R_DATA_O = received[taken + 1] /\ R_DATA_O \in Bytes
        BY <1>1, <1>2, <1>5
           DEF READ_O, FifoIsQueue, Clock, Escape, FifoInv, TypeOK, R_DATA_O
    <2>2. Prefix' = Append(Prefix, R_DATA_O)
        BY <1>2, <1>4, <2>1 DEF Prefix
    <2>3. Offered' = IF Available' THEN Append(delivered, [command |-> COMMAND_O', byte |-> R_DATA_O])
                     ELSE delivered
        BY <1>1, <1>5 DEF Offered, Clock, Escape, Available, READ_O
    <2>4. Offered = delivered /\ state \in {"idle", "escape"}
        BY <1>5 DEF Offered, Available, READ_O
    <2>5. DecodeByte([out |-> delivered, esc |-> state = "escape"], R_DATA_O)
             = [out |-> Offered', esc |-> state' = "escape"]
        <3>1. state' = IF state = "idle"
                       THEN IF R_DATA_O = ESC THEN "escape" ELSE "data"
                       ELSE IF R_DATA_O = ESC THEN "data" ELSE "command"
            <4>1. state' = state_next(read)
                BY <1>1 DEF Clock, Escape
            <4>2. CASE state = "idle"
                <5>1. READ_O /\ state # "escape" /\ ~Available
                    BY <1>5, <4>2 DEF Available
                <5> QED
                    BY <4>1, <4>2, <5>1, Zenon DEF state_next
            <4>3. CASE state = "escape"
                <5>1. READ_O /\ state # "idle" /\ ~Available
                    BY <1>5, <4>3 DEF Available
                <5> QED
                    BY <4>1, <4>3, <5>1, Zenon DEF state_next
            <4> QED
                BY <2>4, <4>2, <4>3
        <3> QED
            BY <2>3, <2>4, <3>1 DEF DecodeByte, Available, COMMAND_O
    <2>6. \E f : IsDecoding(Prefix', f)
        BY <1>3, <2>1, <2>2, DecodingExtends DEF DecodeInv
    <2>7. ASSUME NEW f, IsDecoding(Prefix', f)
          PROVE  f[taken'] = [out |-> Offered', esc |-> state' = "escape"]
        <3> DEFINE g == [n \in 0 .. Len(Prefix) |-> f[n]]
        <3>1. IsDecoding(Prefix, g) /\ f[taken + 1] = DecodeByte(g[taken], R_DATA_O)
            BY <1>3, <2>1, <2>2, <2>7, DecodingRestricts
        <3> HIDE DEF g
        <3>2. g[taken] = [out |-> delivered, esc |-> state = "escape"]
            BY <2>4, <3>1 DEF DecodeInv
        <3> QED
            BY <2>1, <2>5, <3>1, <3>2
    <2> QED
        BY <2>6, <2>7 DEF DecodeInv
<1>6. CASE ~READ_O
    <2>1. taken' = taken
        BY <1>1, <1>6 DEF Clock, Escape
    <2>2. Prefix' = Prefix
        BY <1>2, <1>4, <2>1 DEF Prefix
    <2>3. Offered' = Offered /\ (state' = "escape" <=> state = "escape")
        BY <1>1, <1>6 DEF Clock, Escape, state_next, Offered, Available, COMMAND_O
    <2> QED
        BY <2>1, <2>2, <2>3 DEF DecodeInv
<1> QED
    BY <1>5, <1>6

LEMMA DecodeInit == Init => DecodeInv
<1> SUFFICES ASSUME Init PROVE DecodeInv
    OBVIOUS
<1>1. Prefix = <<>> /\ Len(Prefix) = 0 /\ taken = 0
    BY DEF Init, Prefix
<1>2. IsDecoding(Prefix, [n \in 0 .. 0 |-> Undecoded])
    BY <1>1 DEF IsDecoding
<1>3. ASSUME NEW f, IsDecoding(Prefix, f) PROVE f[0] = Undecoded
    BY <1>1, <1>3 DEF IsDecoding
<1>4. Undecoded = [out |-> Offered, esc |-> state = "escape"]
    BY DEF Init, Undecoded, Offered, Available
<1> QED
    BY <1>1, <1>2, <1>3, <1>4 DEF DecodeInv

\* The TAP reads what the bytes mean, in order, none twice and none left out,
\* for any bytes and any times at which they come in and are read (RX_Escape).
THEOREM BytesDecodedInOrder == ASSUME RxPathAssumption PROVE Spec => []DecodedInOrder
<1>1. FifoInv /\ FifoInv' /\ FifoIsQueue /\ DecodeInv /\ [Next]_vars => DecodeInv'
    <2>1. CASE Next
        BY <2>1, DecodeStep
    <2>2. CASE UNCHANGED vars
        BY <2>2 DEF vars, DecodeInv, Prefix, Offered, Available, COMMAND_O
    <2> QED
        BY <2>1, <2>2
<1>2. FifoInv /\ DecodeInv => DecodedInOrder
    <2> SUFFICES ASSUME FifoInv, DecodeInv PROVE DecodedInOrder
        OBVIOUS
    <2>1. Len(Prefix) = taken
        BY DEF FifoInv, TypeOK, QueueInv, fill, Prefix
    <2>2. IsDecoding(Prefix, CHOOSE f : IsDecoding(Prefix, f))
        BY DEF DecodeInv
    <2>3. Decoded(Prefix) = Offered
        BY <2>1, <2>2, DecodedChooses DEF DecodeInv
    <2> QED
        BY <2>3 DEF DecodedInOrder, Prefix, Offered
<1> QED
    BY <1>1, <1>2, DecodeInit, FifoInvariant, FifoQueues, PTL DEF Spec

=============================================================================
