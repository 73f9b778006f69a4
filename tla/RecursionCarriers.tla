-------------------------- MODULE RecursionCarriers --------------------------
(***************************************************************************)
(* How the scalar signal-to-FIR lowering stores the outputs of a recursive *)
(* group and serves the delayed reads of them: recursion.rs chooses a      *)
(* carrier for each output (one scalar, a shifted array or a circular      *)
(* array), arithmetic.rs emits the body pass once in a sample, and         *)
(* core_lowering.rs turns every delay over a projection into a read of the *)
(* carrier, before or after that pass.                                     *)
(*                                                                         *)
(* A program is a number of outputs and a set of delayed reads.  The value *)
(* an output takes at sample t is its stamp t, so what a read returns says *)
(* which sample it is of.                                                  *)
(***************************************************************************)
EXTENDS Integers, FiniteSets, FiniteSetsExt

CONSTANTS
    Arities,       \* numbers of outputs a group may have
    Reads,         \* the delayed reads a program may hold, see ReadRecord
    MaxReads,      \* bound on the reads of one program
    MaxCopyDelay,  \* -mcd: longest delay served by copying
    LastSample     \* bound on the run

(***************************************************************************)
(* A read of output o through implicit one-sample delays and then a delay  *)
(* of an amount between least and most: equal for a literal and for        *)
(* Delay1.  prefix: the outer delay is a Prefix node, whose first value is *)
(* its own.                                                                *)
(***************************************************************************)
ReadRecord == [output : Nat, implicit : Nat, least : Nat, most : Nat \ {0},
               prefix : BOOLEAN]

\* pow2limit_for_delay
Pow2Above(n) == Min({p \in {2 ^ k : k \in 0 .. 30} : p > n})

\* no read is longer than a power of two that is an i32
CarriersAssumption ==
    /\ Arities \subseteq Nat \ {0} /\ MaxReads \in Nat
    /\ MaxCopyDelay \in Nat /\ LastSample \in Nat
    /\ Reads \subseteq ReadRecord
    /\ \A r \in Reads : r.least <= r.most /\ (r.prefix => r.least = 1 /\ r.most = 1)
    /\ \A r \in Reads : Pow2Above(r.most + r.implicit) \in Nat
                      /\ Pow2Above(r.most + r.implicit) > r.most + r.implicit

VARIABLES
    arity,     \* outputs of the group
    reads,     \* the delayed reads of the program
    iota,      \* fIOTA, which counts the samples
    region,    \* where in the sample: "before" or "after" the body pass
    carrier,   \* carrier[o]: slot -> stamp
    current    \* fRecCur, the local each scalar carrier is written from

vars == <<arity, reads, iota, region, carrier, current>>
program == <<arity, reads>>

Outputs == 0 .. arity - 1
Never == -1                       \* what a cleared slot holds: no sample

Longest(o) == Max({0} \cup {r.most + r.implicit : r \in {q \in reads : q.output = o}})
Analysed(o) == \E r \in reads : r.output = o

\* Mutant of Strategy: the scalar serves one delay more.
StrategyLongScalar(o) ==
    IF arity = 1 /\ Longest(o) <= 2 THEN "scalar"
    ELSE IF Analysed(o) /\ Longest(o) >= MaxCopyDelay THEN "circular"
    ELSE "shift"

Strategy(o) ==
    IF arity = 1 /\ Longest(o) <= 1 THEN "scalar"
    ELSE IF Analysed(o) /\ Longest(o) >= MaxCopyDelay THEN "circular"
    ELSE "shift"

\* Mutant of Size: the array holds the longest delay, not the slot past it.
SizeOfDelay(o) ==
    CASE Strategy(o) = "scalar" -> 1
      [] Strategy(o) = "circular" -> Pow2Above(Longest(o) - 1)
      [] OTHER -> IF Analysed(o) THEN Longest(o) + 1 ELSE 2

Size(o) ==
    CASE Strategy(o) = "scalar" -> 1
      [] Strategy(o) = "circular" -> Pow2Above(Longest(o))
      [] OTHER -> IF Analysed(o) THEN Longest(o) + 1 ELSE 2

Cursor(o) == IF Strategy(o) = "circular" THEN iota % Size(o) ELSE 0

-----------------------------------------------------------------------------
(* The slot a read of amount a loads.                                      *)

Slot(r, a) ==
    CASE Strategy(r.output) = "scalar" -> 0
      [] Strategy(r.output) = "shift" -> a + r.implicit
      [] OTHER -> (iota - (a + r.implicit)) % Size(r.output)

\* the edge is Immediate when the amount may be zero and nothing delays it
MayComeEarly(r) == r.least + r.implicit >= 1

InReach(r, a) == Slot(r, a) \in 0 .. Size(r.output) - 1
Loaded(r, a) == carrier[r.output][Slot(r, a)]

\* Mutant of Projected: every carrier is read for the value of this sample.
ProjectedFromCarrier(o) == carrier[o][Cursor(o)]

\* load_projection_result: the value of an output after the body pass
Projected(o) == IF Strategy(o) = "scalar" THEN current[o] ELSE carrier[o][Cursor(o)]

Cleared(o) == [s \in 0 .. Size(o) - 1 |-> Never]

Init ==
    /\ arity \in Arities
    /\ \E read \in [1 .. MaxReads -> {r \in Reads : r.output < arity}], n \in 0 .. MaxReads :
           reads = {read[i] : i \in 1 .. n}
    /\ iota = 0 /\ region = "before"
    /\ carrier = [o \in Outputs |-> Cleared(o)]
    /\ current = [o \in Outputs |-> Never]

\* Mutant of Stored: the scalar carrier is written in the body pass too.
StoredAtOnce(o) == [carrier[o] EXCEPT ![Cursor(o)] = iota]

Stored(o) == IF Strategy(o) = "scalar" THEN carrier[o]
             ELSE [carrier[o] EXCEPT ![Cursor(o)] = iota]

\* schedule_recursion_group_bodies: every body, then every current store
BodyPass ==
    /\ region = "before"
    /\ region' = "after"
    /\ carrier' = [o \in Outputs |-> Stored(o)]
    /\ current' = [o \in Outputs |-> IF Strategy(o) = "scalar" THEN iota ELSE current[o]]
    /\ UNCHANGED <<program, iota>>

Finished(o) ==
    CASE Strategy(o) = "shift" ->
             [s \in 0 .. Size(o) - 1 |-> carrier[o][IF s = 0 THEN 0 ELSE s - 1]]
      [] Strategy(o) = "scalar" -> [s \in {0} |-> current[o]]
      [] OTHER -> carrier[o]

\* the post-output statements and the advance of fIOTA
EndSample ==
    /\ region = "after" /\ iota < LastSample
    /\ region' = "before"
    /\ carrier' = [o \in Outputs |-> Finished(o)]
    /\ iota' = iota + 1
    /\ UNCHANGED <<program, current>>

Next == BodyPass \/ EndSample

Spec == Init /\ [][Next]_vars

-----------------------------------------------------------------------------
\* The state is well formed: every carrier has the size its output was given
\* and holds stamps of samples already run.
TypeOK ==
    /\ arity \in Arities /\ reads \subseteq Reads
    /\ iota \in 0 .. LastSample /\ region \in {"before", "after"}
    /\ \A o \in Outputs : /\ carrier[o] \in [0 .. Size(o) - 1 -> Never .. iota]
                          /\ current[o] \in Never .. iota

\* the sample n before this one, or none before the first
Past(n) == IF iota >= n THEN iota - n ELSE Never

\* where the schedule may put the read
Readable(r) == region = "after" \/ MayComeEarly(r)

\* The first value of a Prefix is its own, by module/bra.rs:933 (y[0] = init):
\* the code drops it and loads the cleared slot (core_lowering.rs:903).
StartsAtItsOwn(r) == r.prefix /\ iota = 0

\* A scalar holds the sample before this one: the code loads it for an amount of
\* zero too (core_lowering.rs:813), against tests/recursion_delay_amount.rs:41.
ZeroOnScalar(r, a) == Strategy(r.output) = "scalar" /\ a + r.implicit = 0

\* A delayed read, at every amount its interval admits, is in the bounds of its
\* carrier, on either side of the body pass, whichever carrier the reads of the
\* program together led to; and it returns the sample it asks for, but in the two
\* cases where the code returns another: the first sample of a Prefix and an
\* amount of zero on a scalar.
ReadsAreExact ==
    \A r \in reads : Readable(r) => \A a \in r.least .. r.most :
        /\ InReach(r, a)
        /\ \/ StartsAtItsOwn(r)
           \/ ZeroOnScalar(r, a)
           \/ Loaded(r, a) = Past(a + r.implicit)

\* After the body pass an undelayed projection is the value of this sample, from
\* wherever its strategy keeps it, while the delayed reads still find the past.
ProjectionsAreCurrent ==
    region = "after" => \A o \in Outputs : Projected(o) = iota
=============================================================================
