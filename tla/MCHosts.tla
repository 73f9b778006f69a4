------------------------------- MODULE MCHosts -------------------------------
(* Small instances of what hosts drive.                                       *)
EXTENDS Hosts, Sequences, TLC

CONSTANTS
    typed, mute, textual, bare,             \* failures of the error channel
    badArgument, quoting                    \* argument errors

(* Errors: a typed failure with and one without rendered text, one with text  *)
(* only and one with nothing, the first and the last under one summary; an    *)
(* argument error that quotes that summary; a failure behind a prefix that    *)
(* quotes it too.                                                             *)
SummaryOf == [f \in Failures |-> IF f \in {typed, bare} THEN "parse" ELSE "evaluation"]

QuotesOf ==
    [e \in Failures \cup ArgumentErrors |->
        IF e \in Failures THEN {SummaryOf[e]} \cup (IF e = textual THEN {"parse"} ELSE {})
        ELSE IF e = quoting THEN {"parse"} ELSE {}]

(* Notes of the command line: two pitches, early and late, some never off;    *)
(* up to two of them in every order, and three that begin with one pitch.     *)
Notes == {n \in [pitch : {60, 64}, on : 0 .. 2, off : (0 .. 3) \cup {NeverOff}] : n.on <= n.off}

NoteLists ==
    UNION {[1 .. k -> Notes] : k \in 0 .. 2} \cup {s \in [1 .. 3 -> Notes] : s[1].pitch = 60}

Symmetry == Permutations(Inners) \cup Permutations(Dsps) \cup Permutations(Instances)

=============================================================================
