--------------------------- MODULE VoiceAllocation ---------------------------
(* The voices of a polyphonic probe (cranelift-ffi, probe/poly.rs and         *)
(* probe/engine/poly_probe.rs): which voice a note takes, when a note-off     *)
(* releases one, when a stolen voice changes note and when a releasing voice  *)
(* is free again.  A voice is its bookkeeping (VoiceState) and the zones of   *)
(* its instance a note writes.  Audio is left out: whether a rendered block   *)
(* fell below the stop level is a choice.                                     *)
EXTENDS Integers, FiniteSets

CONSTANTS
    NVoices,        \* voices of the bus
    Pitches,        \* MIDI pitches
    MaxNotes        \* bound on the note-ons of a run

VoicesAssumption ==
    /\ NVoices \in Nat \ {0}
    /\ Pitches \subseteq 0 .. 127
    /\ MaxNotes \in Nat

VARIABLES
    voices,         \* PolyState::voices, with the zones of each instance
    clock,          \* note-ons so far
    due             \* per pitch: note-ons whose note-off has not come

vars == <<voices, clock, due>>

(* The voice table, in order.                                                 *)
Voices == 0 .. NVoices - 1

FREE_VOICE == -1
RELEASE_VOICE == -2
LEGATO_VOICE == -3
NoPitch == -1

Voice == [note : Pitches \cup {FREE_VOICE, RELEASE_VOICE, LEGATO_VOICE},
          next : Pitches \cup {NoPitch}, date : 0 .. MaxNotes,
          gate : BOOLEAN, freq : Pitches \cup {NoPitch}]

(* VoiceState::free on a fresh instance.                                      *)
FreeVoice == [note |-> FREE_VOICE, next |-> NoPitch, date |-> 0,
              gate |-> FALSE, freq |-> NoPitch]

Bus == [v \in Voices |-> FreeVoice]

Init ==
    /\ voices = Bus
    /\ clock = 0
    /\ due = [p \in Pitches |-> 0]

In(vs, notes) == {v \in Voices : vs[v].note \in notes}

(* The first of the voices of S with the smallest date.                       *)
Oldest(vs, S) ==
    CHOOSE v \in S : \A u \in S :
        vs[v].date < vs[u].date \/ (vs[v].date = vs[u].date /\ v <= u)

(* Mutant of Playing: a queued note is not looked for.                        *)
PlayingNow(vs, p) == In(vs, {p})

(* The voices get_playing_voice chooses among.                                *)
Playing(vs, p) == In(vs, {p}) \cup {v \in In(vs, {LEGATO_VOICE}) : vs[v].next = p}

(* Mutant of Candidates: a playing voice is taken before a releasing one.     *)
CandidatesPlayingFirst(vs) ==
    LET playing == Voices \ In(vs, {FREE_VOICE, RELEASE_VOICE}) IN
    IF playing # {} THEN playing ELSE In(vs, {RELEASE_VOICE})

(* What get_free_voice steals from when no voice is free.                     *)
Candidates(vs) ==
    IF In(vs, {RELEASE_VOICE}) # {} THEN In(vs, {RELEASE_VOICE}) ELSE Voices

(* get_free_voice.                                                            *)
Taken(vs) ==
    IF In(vs, {FREE_VOICE}) # {}
    THEN CHOOSE v \in In(vs, {FREE_VOICE}) : \A u \in In(vs, {FREE_VOICE}) : v <= u
    ELSE Oldest(vs, Candidates(vs))

(* VoiceWrite::KeyOn and the note it sounds.                                  *)
Sounding(voice, p) == [voice EXCEPT !.note = p, !.freq = p, !.gate = TRUE]

(* PolyState::key_on: a free voice sounds at once, a stolen one is queued.    *)
AfterOn(vs, p) ==
    LET v == Taken(vs)
        dated == [vs[v] EXCEPT !.date = @ + 1] IN
    [vs EXCEPT ![v] = IF dated.note = FREE_VOICE THEN Sounding(dated, p)
                      ELSE [dated EXCEPT !.note = LEGATO_VOICE, !.next = p]]

(* Mutant of AfterOff: a queued note is cancelled without closing the gate.   *)
AfterOffKeepingGate(vs, p, hard) ==
    IF Playing(vs, p) = {} THEN vs
    ELSE [vs EXCEPT ![Oldest(vs, Playing(vs, p))] =
             [@ EXCEPT !.note = IF hard THEN FREE_VOICE ELSE RELEASE_VOICE,
                       !.gate = @ /\ vs[Oldest(vs, Playing(vs, p))].note = LEGATO_VOICE]]

(* PolyState::key_off.                                                        *)
AfterOff(vs, p, hard) ==
    IF Playing(vs, p) = {} THEN vs
    ELSE [vs EXCEPT ![Oldest(vs, Playing(vs, p))] =
             [@ EXCEPT !.note = IF hard THEN FREE_VOICE ELSE RELEASE_VOICE, !.gate = FALSE]]

(* compute_with_inputs: a stolen voice closes its gate, renders the outgoing  *)
(* tail and sounds the queued note; a releasing voice whose block is quiet is *)
(* free again.                                                                *)
AfterBlock(vs, quiet) ==
    [v \in Voices |->
        IF vs[v].note = LEGATO_VOICE THEN Sounding(vs[v], vs[v].next)
        ELSE IF vs[v].note = RELEASE_VOICE /\ v \in quiet THEN [vs[v] EXCEPT !.note = FREE_VOICE]
        ELSE vs[v]]

-----------------------------------------------------------------------------
KeyOn(p) ==
    /\ clock < MaxNotes
    /\ voices' = AfterOn(voices, p)
    /\ clock' = clock + 1
    /\ due' = [due EXCEPT ![p] = @ + 1]

KeyOff(p, hard) ==
    /\ voices' = AfterOff(voices, p, hard)
    /\ due' = [due EXCEPT ![p] = IF @ > 0 THEN @ - 1 ELSE 0]
    /\ UNCHANGED clock

Compute(quiet) ==
    /\ voices' = AfterBlock(voices, quiet)
    /\ UNCHANGED <<clock, due>>

(* PolyProbe::reset.                                                          *)
Reset ==
    /\ voices' = Bus
    /\ due' = [p \in Pitches |-> 0]
    /\ UNCHANGED clock

Next ==
    \/ \E p \in Pitches : KeyOn(p)
    \/ \E p \in Pitches, hard \in BOOLEAN : KeyOff(p, hard)
    \/ \E quiet \in SUBSET Voices : Compute(quiet)
    \/ Reset

Spec == Init /\ [][Next]_vars

-----------------------------------------------------------------------------
(* Shape of the voices; a voice has been allocated at most once per note-on.  *)
TypeOK ==
    /\ voices \in [Voices -> Voice]
    /\ clock \in 0 .. MaxNotes
    /\ \A v \in Voices : voices[v].date <= clock
    /\ due \in [Pitches -> 0 .. MaxNotes]

(* No stuck note: however notes of one pitch overlap, are stolen, queued and  *)
(* cancelled, no more voices play a pitch than it has note-offs to come; when *)
(* all have come, no voice plays it.                                          *)
NoStuckNotes == \A p \in Pitches : Cardinality(Playing(voices, p)) <= due[p]

(* A voice that plays a note has its gate open at that note's frequency, one  *)
(* that does not has its gate closed: the instance follows the bookkeeping    *)
(* through steals and cancelled steals.                                       *)
GateFollowsNote ==
    \A v \in Voices :
        LET voice == voices[v] IN
        /\ voice.note \in Pitches => voice.gate /\ voice.freq = voice.note
        /\ voice.note \in {FREE_VOICE, RELEASE_VOICE} => ~ voice.gate

(* A note is cut only by its note-off, or stolen for a new note when every    *)
(* voice plays: a quiet note that is held is not reclaimed, and a releasing   *)
(* voice goes first.                                                          *)
HeldNotesSound ==
    \A p \in Pitches :
        Cardinality(Playing(voices', p)) < Cardinality(Playing(voices, p)) =>
            \/ due'[p] < due[p]
            \/ clock' > clock /\ In(voices, {FREE_VOICE, RELEASE_VOICE}) = {}
=============================================================================
