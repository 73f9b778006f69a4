------------------------------ MODULE PolyRender ------------------------------
(* PolyProbe::render over a schedule of notes: the `--note' arguments become  *)
(* events at frames (probe/schedule.rs, faustprobe/setup.rs), and the loop    *)
(* applies what is due at a block boundary, shortens the block to the next    *)
(* event and renders it.                                                      *)
EXTENDS VoiceAllocation, Sequences, SequencesExt

CONSTANTS
    ArgLists,       \* the `--note' arguments: sequences of [pitch, on, off]
    NeverOff,       \* off of a note held to the end of the render
    Frames, Block   \* frames of the render and of a host block

RenderAssumption ==
    /\ Frames \in Nat /\ Block \in Nat \ {0}
    /\ \A args \in ArgLists : \A i \in DOMAIN args :
          /\ args[i].pitch \in Pitches
          /\ args[i].off \in Nat => args[i].on <= args[i].off
          /\ args[i].off \notin Nat => args[i].off = NeverOff

VARIABLES
    args,           \* the notes of the command line, in order
    written,        \* frames rendered
    applied         \* events of that frame applied so far

renderVars == <<voices, clock, due, args, written, applied>>

(* Schedule::push of what parse_note returns, argument by argument: the       *)
(* events of one frame, in insertion order.                                   *)
EventsOf(note, f) ==
    (IF note.on = f THEN <<[on |-> TRUE, pitch |-> note.pitch]>> ELSE <<>>)
    \o (IF note.off = f THEN <<[on |-> FALSE, pitch |-> note.pitch]>> ELSE <<>>)

At(f) == FoldLeft(LAMBDA es, note : es \o EventsOf(note, f), <<>>, args)

EventFrames == {args[i].on : i \in DOMAIN args} \cup ({args[i].off : i \in DOMAIN args} \ {NeverOff})

(* Mutant of NextBlock: the frames left are counted one short.                *)
NextBlockShort(f) ==
    Min({Block, Frames - 1 - f} \cup {g - f : g \in {g \in EventFrames : g > f}})

(* Mutant of NextBlock: events are rounded to the block grid.                 *)
NextBlockOnGrid(f) == Min({Block, Frames - f})

(* next_block.                                                                *)
NextBlock(f) == Min({Block, Frames - f} \cup {g - f : g \in {g \in EventFrames : g > f}})

-----------------------------------------------------------------------------
RenderInit ==
    /\ Init
    /\ args \in ArgLists
    /\ written = 0
    /\ applied = 0

Applied == applied = Len(At(written))

(* The ghosts of VoiceAllocation are not kept here.                           *)
Apply ==
    /\ written < Frames /\ ~ Applied
    /\ LET e == At(written)[applied + 1] IN
          voices' = IF e.on THEN AfterOn(voices, e.pitch) ELSE AfterOff(voices, e.pitch, FALSE)
    /\ applied' = applied + 1
    /\ UNCHANGED <<clock, due, args, written>>

Render(quiet) ==
    /\ written < Frames /\ Applied
    /\ voices' = AfterBlock(voices, quiet)
    /\ written' = written + NextBlock(written)
    /\ applied' = 0
    /\ UNCHANGED <<clock, due, args>>

RenderNext == Apply \/ \E quiet \in SUBSET Voices : Render(quiet)

RenderSpec == RenderInit /\ [][RenderNext]_renderVars

-----------------------------------------------------------------------------
(* The notes of the command line held at `written', its events applied.       *)
Held == {i \in DOMAIN args :
            args[i].on <= written /\ (args[i].off = NeverOff \/ args[i].off > written)}

(* Shape of the state of the loop: it never renders past its frames.          *)
RenderTypeOK ==
    /\ voices \in [Voices -> Voice]
    /\ written \in 0 .. Frames
    /\ applied \in 0 .. 2 * Len(args)

(* `Events are sample-exact': no block crosses the frame of an event, so that *)
(* every event of the render is applied at its own frame.                     *)
NoEventIsCrossed ==
    \A f \in EventFrames : ~ (written < f /\ f < written')

(* No block is empty, so that the loop, which tests nothing but the frames it *)
(* has written, ends whatever the schedule.                                   *)
BlocksAdvance == written < Frames /\ Applied => NextBlock(written) > 0

(* Once the events of a frame are applied, the voices playing a pitch are at  *)
(* most the notes of it that are held: notes that start and stop on one frame *)
(* in any order leave none behind.                                            *)
OnlyHeldNotesSound ==
    written < Frames /\ Applied =>
        \A p \in Pitches :
            Cardinality(Playing(voices, p)) <= Cardinality({i \in Held : args[i].pitch = p})
=============================================================================
