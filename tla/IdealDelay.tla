------------------------------ MODULE IdealDelay ------------------------------
(* What a delay line of the signal-to-FIR lowering promises: a read of amount *)
(* a yields the value written a samples ago, zero before the first sample and *)
(* after a clear, whatever the storage strategy.                              *)
EXTENDS Integers

CONSTANTS
    Delays,         \* the greatest delays a line may be sized for
    Values,         \* what a sample can be
    Zero,           \* what instanceClear stores
    None            \* not a value

VARIABLES
    delay,          \* the greatest delay of this line
    past,           \* past[k]: the value of k samples before the current one
    current,        \* the value of the current sample, None between samples
    read            \* the last read: [amount, value], or None

Init ==
    /\ delay \in Delays
    /\ past = [k \in 1 .. delay |-> Zero]
    /\ current = None
    /\ read = None

Write(v) ==
    /\ current = None
    /\ current' = v
    /\ UNCHANGED <<delay, past, read>>

Read(a) ==
    /\ current # None
    /\ read' = [amount |-> a, value |-> IF a = 0 THEN current ELSE past[a]]
    /\ UNCHANGED <<delay, past, current>>

EndSample ==
    /\ current # None
    /\ past' = [k \in 1 .. delay |-> IF k = 1 THEN current ELSE past[k - 1]]
    /\ current' = None
    /\ UNCHANGED <<delay, read>>

Clear ==
    /\ current = None
    /\ past' = [k \in 1 .. delay |-> Zero]
    /\ UNCHANGED <<delay, current, read>>

Next ==
    \/ \E v \in Values : Write(v)
    \/ \E a \in 0 .. delay : Read(a)
    \/ EndSample
    \/ Clear

Spec == Init /\ [][Next]_<<delay, past, current, read>>

=============================================================================
