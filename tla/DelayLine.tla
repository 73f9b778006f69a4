------------------------------- MODULE DelayLine -------------------------------
(* The code one delay line is lowered to, run sample by sample. The strategy  *)
(* follows from the greatest delay and the -mcd and -dlt thresholds:          *)
(*   shift        slot 0 is written; after the outputs every slot is copied   *)
(*                one up, from the last one down;                             *)
(*   circular     a power of two of slots, addressed by the low bits of a     *)
(*                32-bit cursor that only ever grows, and wraps around;       *)
(*   ifWrapping   exactly delay + 1 slots and a counter compared with them.   *)
(* A line inside a clocked block runs these steps only when the block fires,  *)
(* with the cursor of its own domain: its samples are the firings.            *)
EXTENDS Integers

CONSTANTS
    Delays,             \* the greatest delays a line may be sized for
    Values,             \* what a sample can be
    Zero,               \* what instanceClear stores
    None,               \* not a value
    MaxCopyDelay,       \* -mcd
    DelayLineThreshold, \* -dlt
    Half                \* 2^31: an i32 is in -Half .. Half - 1

PowersOfTwo == {2 ^ k : k \in 0 .. 30}

(* `pow2limit_for_delay`.                                                     *)
Pow2Limit(d) == CHOOSE p \in PowersOfTwo : p >= d + 1 /\ \A q \in PowersOfTwo : q >= d + 1 => p <= q

(* `select_delay_kind`.                                                       *)
KindOf(d) ==
    IF d < MaxCopyDelay THEN "shift"
    ELSE IF d < DelayLineThreshold THEN "circular"
    ELSE "ifWrapping"

(* `buffer_size`.                                                             *)
SizeOf(d) == IF KindOf(d) = "circular" THEN Pow2Limit(d) ELSE d + 1

(* No line is allocated for a zero delay, nor one whose size is not an i32. A *)
(* power of two that is an i32 divides 2^32. The ifWrapping index adds a size *)
(* to a counter below it: it is right only if twice the size is an i32, which *)
(* nothing in the code checks.                                                *)
ASSUME DelayAssumption ==
    /\ Delays \subseteq Nat \ {0}
    /\ Zero \in Values /\ None \notin Values
    /\ MaxCopyDelay \in Nat /\ DelayLineThreshold \in Nat
    /\ Half \in Nat \ {0}
    /\ \A d \in Delays : SizeOf(d) \in d + 1 .. Half - 1
    /\ \A d \in Delays : KindOf(d) = "circular" => (2 * Half) % SizeOf(d) = 0
    /\ \A d \in Delays : KindOf(d) = "ifWrapping" => 2 * SizeOf(d) <= Half

VARIABLES
    delay,      \* the greatest delay of this line
    buf,        \* its array
    cursor,     \* fIOTA, or the counter of the line: an i32
    phase,      \* "idle" between samples, "body", "copy" while slots move
    slot,       \* copy: the slot about to be filled
    read        \* the last read: [amount, value], or None

vars == <<delay, buf, cursor, phase, slot, read>>

Kind == KindOf(delay)
Size == SizeOf(delay)

(* i32 arithmetic.                                                            *)
Wrap(x) == ((x + Half) % (2 * Half)) - Half

(* index & (size - 1), of a two's complement index.                           *)
Masked(index) == index % Size

(* (counter + size - amount), less size if it is not below it.                *)
IfWrapped(amount) ==
    LET raw == Wrap(Wrap(cursor + Size) - amount)
    IN  IF raw >= Size THEN Wrap(raw - Size) ELSE raw

ReadIndex(amount) ==
    IF Kind = "shift" THEN amount
    ELSE IF Kind = "circular" THEN Masked(Wrap(cursor - amount))
    ELSE IfWrapped(amount)

WriteIndex ==
    IF Kind = "shift" THEN 0
    ELSE IF Kind = "circular" THEN Masked(cursor)
    ELSE cursor

(* Mutant of Advanced: the counter is reset one sample early.                 *)
AdvancedTooEarly ==
    IF Kind = "circular" THEN Wrap(cursor + 1)
    ELSE IF Wrap(cursor + 1) >= Size - 1 THEN 0 ELSE Wrap(cursor + 1)

(* The cursor after a sample.                                                 *)
Advanced ==
    IF Kind = "circular" THEN Wrap(cursor + 1)
    ELSE IF Wrap(cursor + 1) >= Size THEN 0 ELSE Wrap(cursor + 1)

Cleared(d) == [i \in 0 .. SizeOf(d) - 1 |-> Zero]

Init ==
    /\ delay \in Delays
    /\ buf = Cleared(delay)
    /\ cursor = 0
    /\ phase = "idle"
    /\ slot = 0
    /\ read = None

(* instanceClear, between two calls of compute.                               *)
Clear ==
    /\ phase = "idle"
    /\ buf' = Cleared(delay)
    /\ cursor' = 0
    /\ UNCHANGED <<delay, phase, slot, read>>

(* The one write of the sample, before the first read.                        *)
Write(v) ==
    /\ phase = "idle"
    /\ buf' = [buf EXCEPT ![WriteIndex] = v]
    /\ phase' = "body"
    /\ UNCHANGED <<delay, cursor, slot, read>>

(* One of the reads of the sample: a constant amount, or a variable one       *)
(* within the bound the line was sized for.                                   *)
Read(amount) ==
    /\ phase = "body"
    /\ read' = [amount |-> amount, value |-> buf[ReadIndex(amount)]]
    /\ UNCHANGED <<delay, buf, cursor, phase, slot>>

(* The end of the sample of a circular or an ifWrapping line.                 *)
Advance ==
    /\ phase = "body"
    /\ Kind # "shift"
    /\ cursor' = Advanced
    /\ phase' = "idle"
    /\ UNCHANGED <<delay, buf, slot, read>>

(* The end of the sample of a shift line: its copies are about to run.        *)
StartCopies ==
    /\ phase = "body"
    /\ Kind = "shift"
    /\ slot' = delay
    /\ phase' = "copy"
    /\ UNCHANGED <<delay, buf, cursor, read>>

(* Mutant of Copy: from slot 1 up.                                            *)
CopyUpwards ==
    /\ phase = "copy"
    /\ buf' = [buf EXCEPT ![Size - slot] = buf[Size - slot - 1]]
    /\ slot' = slot - 1
    /\ phase' = IF slot = 1 THEN "idle" ELSE "copy"
    /\ UNCHANGED <<delay, cursor, read>>

(* buf[j] = buf[j - 1], for j from the delay down to 1.                       *)
Copy ==
    /\ phase = "copy"
    /\ buf' = [buf EXCEPT ![slot] = buf[slot - 1]]
    /\ slot' = slot - 1
    /\ phase' = IF slot = 1 THEN "idle" ELSE "copy"
    /\ UNCHANGED <<delay, cursor, read>>

Next ==
    \/ Clear
    \/ \E v \in Values : Write(v)
    \/ \E a \in 0 .. delay : Read(a)
    \/ Advance
    \/ StartCopies
    \/ Copy

Spec == Init /\ [][Next]_vars

-----------------------------------------------------------------------------

TypeOK ==
    /\ delay \in Delays
    /\ buf \in [0 .. Size - 1 -> Values]
    /\ cursor \in - Half .. Half - 1
    /\ phase \in {"idle", "body", "copy"}
    /\ slot \in 0 .. delay
    /\ read \in {None} \cup [amount : 0 .. delay, value : Values]

(* Every amount the line was sized for addresses a slot of the array, and no  *)
(* two of them the same one: no read is out of bounds and none finds a slot   *)
(* overwritten too early, at every value of the cursor, the wrap around of    *)
(* the 32-bit one included.                                                   *)
SlotsAreApart ==
    /\ \A a \in 0 .. delay : ReadIndex(a) \in DOMAIN buf
    /\ \A a, b \in 0 .. delay : ReadIndex(a) = ReadIndex(b) => a = b
    /\ ReadIndex(0) = WriteIndex

(* What the array holds: the value of k samples before the next one or the    *)
(* current one. While slots are copied, a slot not yet filled is one down.    *)
Held(k) == IF phase = "copy" /\ k <= slot THEN buf[k - 1] ELSE buf[ReadIndex(k)]

past == [k \in 1 .. delay |-> Held(k)]

current == IF phase = "body" THEN buf[WriteIndex] ELSE None

(* The three strategies are the ideal delay line.                             *)
Ideal == INSTANCE IdealDelay

ImplementsIdealDelay == Ideal!Spec

=============================================================================
