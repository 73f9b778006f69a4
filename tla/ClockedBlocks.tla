----------------------------- MODULE ClockedBlocks -----------------------------
(* The sample loop of a clocked program. Every ondemand, upsampling or        *)
(* downsampling wrapper is one guarded block in the region of its parent      *)
(* domain: a test of the clock, a loop that counts to it, or a counter modulo *)
(* it. A block's delay lines, their cursors and its held outputs move at its  *)
(* own firings. A block-rate value only a tested block needs is computed at   *)
(* the first firing of each compute call, and a held copy of it may be stored *)
(* there instead of at every firing.                                          *)
EXTENDS Integers, Sequences, FiniteSets, SequencesExt

CONSTANTS
    Domains,    \* the clock domains
    Top,        \* the sample loop, which is no domain
    Lines,      \* the delay lines, one per (carried signal, clock context)
    MaxDelay,   \* the greatest delay of every line
    Programs,   \* [parent, shape, factor, hold, home, kind]: see the assumption
    MaxClock,   \* the clocks of counted loops are 0 .. MaxClock
    MaxSamples, \* bound: samples since the last clear
    MaxCalls,   \* bound: calls of compute
    None        \* not a value: a local that no longer exists

Contexts == Domains \cup {Top}

(* The least power of two above MaxDelay.                                     *)
CircularSize == CHOOSE p \in {2 ^ k : k \in 0 .. 30} : p > MaxDelay /\ p <= 2 * MaxDelay

(* factor is the clock of a "modulo" block. hold is what a block holds:       *)
(* "fresh", a value of the firing; "slow", a block-rate value; "slowRead",    *)
(* one whose previous hold the block reads.                                   *)
ProgramsAssumption ==
    /\ Top \notin Domains
    /\ MaxDelay \in Nat \ {0} /\ CircularSize \in MaxDelay + 1 .. 2 * MaxDelay
    /\ MaxClock \in Nat /\ MaxSamples \in Nat /\ MaxCalls \in Nat
    /\ Programs \subseteq [parent : [Domains -> Contexts],
                           shape : [Domains -> {"if", "loop", "modulo"}],
                           factor : [Domains -> Nat \ {0}],
                           hold : [Domains -> {"fresh", "slow", "slowRead"}],
                           home : [Lines -> Contexts],
                           kind : [Lines -> {"shift", "circular", "ifWrapping"}]]

VARIABLES
    prog,       \* the program compiled
    stack,      \* the open regions: [ctx, left, stage, blocks]
    buf,        \* the arrays of the lines
    iota,       \* fIOTA, and fIOTA_d of every domain
    counter,    \* the counters of the ifWrapping lines
    dsCounter,  \* fDSCounter_d
    perm,       \* the held output fPerm of every block
    slowVar,    \* fSlowOD: the block-rate value of a block
    slowDone,   \* iSlowODDone
    inCall,     \* between the control section and the last sample
    calls,      \* calls of compute: it names the block-rate value of the call
    samples,    \* samples since the last clear
    fired,      \* ghost: firings since the last clear, of every context
    held,       \* ghost: what the hoisted program holds
    computed    \* ghost: computations of the block-rate value in this call

vars == <<prog, stack, buf, iota, counter, dsCounter, perm, slowVar, slowDone,
          inCall, calls, samples, fired, held, computed>>

lineVars == <<buf, iota, counter>>
slowVars == <<slowVar, slowDone, computed>>

LinesIn(c) == {l \in Lines : prog.home[l] = c}
BlocksIn(c) == {d \in Domains : prog.parent[d] = c}

-------------------------------------------------------------------------------
(* Delay lines.                                                               *)

Size(l) == IF prog.kind[l] = "circular" THEN CircularSize ELSE MaxDelay + 1

(* Mutant of CursorOf: every circular line uses fIOTA.                        *)
CursorOfTop(l) == iota[Top]

(* `assign_clocked_delay_cursors`, `active_circular_cursor_name`.             *)
CursorOf(l) == iota[prog.home[l]]

Slot(l, amount) ==
    CASE prog.kind[l] = "shift"      -> amount
      [] prog.kind[l] = "circular"   -> (CursorOf(l) - amount) % Size(l)
      [] prog.kind[l] = "ifWrapping" -> (counter[l] + Size(l) - amount) % Size(l)

(* The domains whose cursor is declared: those a circular line lives in.      *)
IotaDomains == {prog.home[l] : l \in {k \in Lines : prog.kind[k] = "circular"}}

(* The counters advanced at the end of region c: `domain_ifwrap`, and at the  *)
(* top those of the lines that are not inner.                                 *)
Counted(c) == {l \in LinesIn(c) : prog.kind[l] = "ifWrapping"}

(* A counter after its advance.                                               *)
Counter(l) == IF counter[l] + 1 >= Size(l) THEN 0 ELSE counter[l] + 1

(* A sample is named by the firing that wrote it.                             *)
Written(c) ==
    [l \in Lines |-> IF l \in LinesIn(c) THEN [buf[l] EXCEPT ![Slot(l, 0)] = fired[c] + 1]
                     ELSE buf[l]]

Shifted(c) ==
    [l \in Lines |-> IF l \in LinesIn(c) /\ prog.kind[l] = "shift"
                     THEN [i \in DOMAIN buf[l] |-> IF i = 0 THEN buf[l][0] ELSE buf[l][i - 1]]
                     ELSE buf[l]]

-------------------------------------------------------------------------------
(* The lazy prologue.                                                         *)

(* `lazy_block_slot`: a boolean ondemand block.                               *)
Lazy(d) == prog.shape[d] = "if" /\ prog.hold[d] # "fresh"

(* Mutant of Moved: a hold the block reads moves too.                         *)
MovedThoughRead(d) == Lazy(d)

(* `emit_lazy_prologue`: the store of the hold moves into the prologue when   *)
(* the rest of the guard does not name the field.                             *)
Moved(d) == Lazy(d) /\ prog.hold[d] = "slow"

(* Mutant of KeptLive: every lazy value is a local of the prologue.           *)
KeptLiveNever(d) == FALSE

(* A value still read after the prologue is declared before the sample loop;  *)
(* any other is a local of the prologue.                                      *)
KeptLive(d) == Lazy(d) /\ ~Moved(d)

(* What a firing stores in the hold at the end of the body.                   *)
HeldValue(d) ==
    IF prog.hold[d] = "fresh" THEN fired[d] + 1
    ELSE IF Lazy(d) THEN slowVar[d]
    ELSE calls

-------------------------------------------------------------------------------
Region(c, n) == [ctx |-> c, left |-> n, stage |-> "body", blocks |-> BlocksIn(c)]

Current == stack[Len(stack)]
Continue(region) == stack' = [stack EXCEPT ![Len(stack)] = region]

EmptyBuffers == [l \in Lines |-> [i \in 0 .. Size(l) - 1 |-> 0]]

Init ==
    /\ prog \in Programs
    /\ stack = <<>>
    /\ buf = EmptyBuffers
    /\ iota = [c \in Contexts |-> 0]
    /\ counter = [l \in Lines |-> 0]
    /\ dsCounter = [d \in Domains |-> 0]
    /\ perm = [d \in Domains |-> 0]
    /\ slowVar = [d \in Domains |-> None]
    /\ slowDone = [d \in Domains |-> FALSE]
    /\ inCall = FALSE /\ calls = 0 /\ samples = 0
    /\ fired = [c \in Contexts |-> 0]
    /\ held = [d \in Domains |-> 0]
    /\ computed = [d \in Domains |-> 0]

(* instanceClear, between two calls of compute.                               *)
Clear ==
    /\ ~inCall /\ samples > 0
    /\ buf' = EmptyBuffers
    /\ iota' = [c \in Contexts |-> 0]
    /\ counter' = [l \in Lines |-> 0]
    /\ dsCounter' = [d \in Domains |-> 0]
    /\ perm' = [d \in Domains |-> 0]
    /\ fired' = [c \in Contexts |-> 0]
    /\ held' = [d \in Domains |-> 0]
    /\ samples' = 0
    /\ UNCHANGED <<prog, stack, slowVars, inCall, calls>>

Flags == [d \in Domains |-> FALSE]

(* compute: the control section runs, and declares the flags and the values   *)
(* that stay live across the loop.                                            *)
StartCall ==
    /\ ~inCall /\ calls < MaxCalls
    /\ inCall' = TRUE
    /\ calls' = calls + 1
    /\ slowVar' = [d \in Domains |-> IF KeptLive(d) THEN 0 ELSE None]
    /\ slowDone' = Flags
    /\ computed' = [d \in Domains |-> 0]
    /\ UNCHANGED <<prog, stack, lineVars, dsCounter, perm, samples, fired, held>>

EndCall ==
    /\ inCall /\ stack = <<>>
    /\ inCall' = FALSE
    /\ UNCHANGED <<prog, stack, lineVars, dsCounter, perm, slowVars, calls, samples, fired, held>>

StartSample ==
    /\ inCall /\ stack = <<>> /\ samples < MaxSamples
    /\ samples' = samples + 1
    /\ stack' = <<Region(Top, 1)>>
    /\ UNCHANGED <<prog, lineVars, dsCounter, perm, slowVars, inCall, calls, fired, held>>

(* The first part of a body: the lazy prologue, and the writes of the lines.  *)
Body ==
    /\ stack # <<>> /\ Current.stage = "body"
    /\ LET c == Current.ctx
           first == c # Top /\ Lazy(c) /\ ~slowDone[c]
       IN  /\ buf' = Written(c)
           /\ IF first
              THEN /\ slowVar' = [slowVar EXCEPT ![c] = calls]
                   /\ slowDone' = [slowDone EXCEPT ![c] = TRUE]
                   /\ computed' = [computed EXCEPT ![c] = @ + 1]
                   /\ perm' = IF Moved(c) THEN [perm EXCEPT ![c] = calls] ELSE perm
              ELSE UNCHANGED <<slowVars, perm>>
    /\ Continue([Current EXCEPT !.stage = "blocks"])
    /\ UNCHANGED <<prog, iota, counter, dsCounter, inCall, calls, samples, fired, held>>

Clocks(d) ==
    CASE prog.shape[d] = "if"     -> 0 .. 1
      [] prog.shape[d] = "loop"   -> 0 .. MaxClock
      [] prog.shape[d] = "modulo" -> {prog.factor[d]}

(* How often the block runs now.                                              *)
Runs(d, clock) ==
    IF prog.shape[d] = "modulo" THEN (IF dsCounter[d] = 0 THEN 1 ELSE 0) ELSE clock

(* Mutant of Ticked: the counter moves only when the block runs.              *)
TickedInside(d, clock) ==
    IF prog.shape[d] = "modulo" /\ dsCounter[d] = 0
    THEN [dsCounter EXCEPT ![d] = (@ + 1) % clock] ELSE dsCounter

(* The increment after a "modulo" block, whether it ran or not.               *)
Ticked(d, clock) ==
    IF prog.shape[d] = "modulo" THEN [dsCounter EXCEPT ![d] = (@ + 1) % clock] ELSE dsCounter

(* The guard of one block of the current region, in the order of a schedule.  *)
(* The increment follows the block, which does not read the counter.          *)
Guard(d, clock) ==
    /\ stack # <<>> /\ Current.stage = "blocks" /\ d \in Current.blocks
    /\ LET after == [Current EXCEPT !.blocks = @ \ {d}]
       IN  stack' = Front(stack) \o
                    IF Runs(d, clock) > 0 THEN <<after, Region(d, Runs(d, clock))>> ELSE <<after>>
    /\ dsCounter' = Ticked(d, clock)
    /\ UNCHANGED <<prog, lineVars, perm, slowVars, inCall, calls, samples, fired, held>>

(* The end of a body: the hold, the copies of the shift lines, the cursors.   *)
(* A counted loop goes round again.                                           *)
EndBody ==
    /\ stack # <<>> /\ Current.stage = "blocks" /\ Current.blocks = {}
    /\ LET c == Current.ctx
       IN  /\ perm' = IF c # Top /\ ~Moved(c) THEN [perm EXCEPT ![c] = HeldValue(c)] ELSE perm
           /\ held' = IF c = Top THEN held
                      ELSE [held EXCEPT ![c] = IF prog.hold[c] = "fresh" THEN fired[c] + 1 ELSE calls]
           /\ buf' = Shifted(c)
           /\ iota' = IF c \in IotaDomains THEN [iota EXCEPT ![c] = @ + 1] ELSE iota
           /\ counter' = [l \in Lines |-> IF l \in Counted(c) THEN Counter(l) ELSE counter[l]]
           /\ slowVar' = IF c # Top /\ Lazy(c) /\ ~KeptLive(c) THEN [slowVar EXCEPT ![c] = None]
                         ELSE slowVar
           /\ fired' = [fired EXCEPT ![c] = @ + 1]
           /\ IF Current.left > 1 THEN Continue(Region(c, Current.left - 1))
              ELSE stack' = Front(stack)
    /\ UNCHANGED <<prog, dsCounter, slowDone, computed, inCall, calls, samples>>

Next ==
    \/ Clear \/ StartCall \/ EndCall \/ StartSample \/ Body \/ EndBody
    \/ \E d \in Domains : \E clock \in Clocks(d) : Guard(d, clock)

Spec == Init /\ [][Next]_vars

-------------------------------------------------------------------------------

TypeOK ==
    /\ prog \in Programs /\ inCall \in BOOLEAN
    /\ calls \in 0 .. MaxCalls /\ samples \in 0 .. MaxSamples
    /\ \A i \in 1 .. Len(stack) :
          stack[i] \in [ctx : Contexts, left : 1 .. MaxClock + 1,
                        stage : {"body", "blocks"}, blocks : SUBSET Domains]
    /\ \A l \in Lines : /\ DOMAIN buf[l] = 0 .. Size(l) - 1
                        /\ counter[l] \in 0 .. Size(l) - 1
    /\ \A c \in Contexts : iota[c] \in Nat
    /\ \A d \in Domains : /\ dsCounter[d] \in 0 .. prog.factor[d] - 1
                          /\ perm[d] \in Nat /\ held[d] \in Nat
                          /\ slowVar[d] \in 0 .. MaxCalls \cup {None}
                          /\ computed[d] \in Nat

(* Every delay line of every open region is the ideal delay in the firings of *)
(* its own region: while the body runs, before, between and after the blocks  *)
(* nested in it, a read of any amount finds what the firing that long ago     *)
(* wrote, or zero. No block moves a cursor that is not its own.               *)
LinesDelayByFirings ==
    \A i \in 1 .. Len(stack) :
       stack[i].stage = "blocks" =>
          \A l \in LinesIn(stack[i].ctx), amount \in 0 .. MaxDelay :
             buf[l][Slot(l, amount)] =
                IF amount <= fired[stack[i].ctx] THEN fired[stack[i].ctx] + 1 - amount ELSE 0

(* A downsampled block fires at the first tick of its parent after a clear    *)
(* and at every factor-th one from there, however the parent itself fires.    *)
DownsamplersKeepPhase ==
    \A d \in Domains :
       prog.shape[d] = "modulo" /\ (\A i \in 1 .. Len(stack) : stack[i].ctx \notin {d, prog.parent[d]}) =>
          fired[d] * prog.factor[d] \in
             fired[prog.parent[d]] .. fired[prog.parent[d]] + prog.factor[d] - 1

(* Computing block-rate values at the first firing of a call, and moving      *)
(* their holds there, shows nowhere: outside a block the hold is what the     *)
(* hoisted program would hold, the last firing's value; a block that reads    *)
(* its own hold finds the previous firing's.                                  *)
HoldsAreAsHoisted ==
    \A d \in Domains :
       \/ \A i \in 1 .. Len(stack) : stack[i].ctx # d
       \/ prog.hold[d] = "slowRead"
       => perm[d] = held[d]

(* A block-rate value only a block needs is computed at most once a call, and *)
(* a block that reads it after the prologue finds the value of this call, at  *)
(* the first firing and at the later ones.                                    *)
SlowValueOncePerCall ==
    /\ \A d \in Domains : computed[d] <= 1
    /\ \A i \in 1 .. Len(stack) :
          LET d == stack[i].ctx
          IN  d # Top /\ stack[i].stage = "blocks" /\ prog.hold[d] = "slowRead" /\ Lazy(d)
              => slowVar[d] = calls

===============================================================================
