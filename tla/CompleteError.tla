--------------------------- MODULE CompleteError ---------------------------
(* The error channel of the C APIs, crates/ffi-common/src/complete_error.rs:  *)
(* one thread-local record per API, written by the compiler's failures on the *)
(* way up (attach) and by the write_error funnel (report), read by the host   *)
(* through the text getter and the diagnostics getter.                        *)
(*                                                                            *)
(* A failure is named, not spelled: what matters of a message is the error it *)
(* reports and the summaries it contains, of the rendered text whether it is  *)
(* empty, and of the typed report whether there is one.                       *)
EXTENDS Naturals

CONSTANTS
    Threads,        \* host threads
    Failures,       \* compiler and service failures, flattened to a summary
    ArgumentErrors, \* errors reported as they are: null pointers, I/O, argv
    Summaries,      \* one-line summaries; two failures may have the same
    Summary,        \* [Failures -> Summaries]
    Quotes,         \* per error, the summaries its message contains
    Rendered,       \* failures with rendered diagnostics that are not empty
    Typed,          \* failures with a diagnostics-v2 report
    None            \* "nothing": a null pointer, an empty cell

Errors == Failures \cup ArgumentErrors

(* A failure is reported by its summary, bare or behind a prefix.             *)
ErrorsAssumption ==
    /\ None \notin Errors
    /\ Failures \cap ArgumentErrors = {}
    /\ Summary \in [Failures -> Summaries]
    /\ Quotes \in [Errors -> SUBSET Summaries]
    /\ \A f \in Failures : Summary[f] \in Quotes[f]
    /\ Rendered \subseteq Failures
    /\ Typed \subseteq Failures

VARIABLES
    attached,   \* per thread, CompleteError::attached: the failure that waits
    message,    \* per thread, the error whose message is published
    details,    \* per thread, the failure whose rendered text follows it
    report,     \* per thread, the failure whose typed report is published
    failing,    \* per thread: the failure its call has attached, not reported
    told,       \* history, per thread: the error of its last call that failed
    since       \* history, per thread: the failures attached since it reported

vars == <<attached, message, details, report, failing, told, since>>

TypeOK ==
    /\ attached \in [Threads -> Failures \cup {None}]
    /\ message \in [Threads -> Errors \cup {None}]
    /\ details \in [Threads -> Rendered \cup {None}]
    /\ report \in [Threads -> Typed \cup {None}]
    /\ failing \in [Threads -> Failures \cup {None}]
    /\ told \in [Threads -> Errors \cup {None}]
    /\ since \in [Threads -> SUBSET Failures]

Init ==
    /\ attached = [t \in Threads |-> None]
    /\ message = [t \in Threads |-> None]
    /\ details = [t \in Threads |-> None]
    /\ report = [t \in Threads |-> None]
    /\ failing = [t \in Threads |-> None]
    /\ told = [t \in Threads |-> None]
    /\ since = [t \in Threads |-> {}]

-----------------------------------------------------------------------------
(* Mutant of Kept: the attachment is published with any message.              *)
KeptAlways(a, e) == a

(* Mutant of Kept: only a message that is the bare summary counts.            *)
KeptBare(a, e) == IF a # None /\ Quotes[e] = {Summary[a]} THEN a ELSE None

(* report: the attachment counts when the message contains its summary.       *)
Kept(a, e) == IF a # None /\ Summary[a] \in Quotes[e] THEN a ELSE None

(* Mutant of Publish: an attachment that does not match keeps waiting.        *)
PublishKeeping(t, e) ==
    LET kept == Kept(attached[t], e) IN
    /\ message' = [message EXCEPT ![t] = e]
    /\ details' = [details EXCEPT ![t] = IF kept \in Rendered THEN kept ELSE None]
    /\ report' = [report EXCEPT ![t] = IF kept \in Typed THEN kept ELSE None]
    /\ UNCHANGED attached

(* Mutant of Publish: the typed report is kept once per process.              *)
PublishProcessWide(t, e) ==
    LET kept == Kept(attached[t], e) IN
    /\ message' = [message EXCEPT ![t] = e]
    /\ details' = [details EXCEPT ![t] = IF kept \in Rendered THEN kept ELSE None]
    /\ report' = [u \in Threads |-> IF kept \in Typed THEN kept ELSE None]
    /\ attached' = [attached EXCEPT ![t] = None]

(* report, called by write_error: the attachment is taken out whether or not  *)
(* it matches, and both published cells are written.                          *)
Publish(t, e) ==
    LET kept == Kept(attached[t], e) IN
    /\ message' = [message EXCEPT ![t] = e]
    /\ details' = [details EXCEPT ![t] = IF kept \in Rendered THEN kept ELSE None]
    /\ report' = [report EXCEPT ![t] = IF kept \in Typed THEN kept ELSE None]
    /\ attached' = [attached EXCEPT ![t] = None]

(* attach_with_diagnostics for a typed failure, attach for the others, which  *)
(* empties the cell when there is no text.                                    *)
Attachment(f, old) == IF f \in Typed \cup Rendered THEN f ELSE None

(* summary_of and service_summary_of: a call's compilation fails and its      *)
(* failure is flattened to a summary.                                         *)
CompileFails(t, f) ==
    /\ failing[t] = None
    /\ failing' = [failing EXCEPT ![t] = f]
    /\ attached' = [attached EXCEPT ![t] = Attachment(f, @)]
    /\ since' = [since EXCEPT ![t] = @ \cup {f}]
    /\ UNCHANGED <<message, details, report, told>>

(* The entry point of the call hands the summary to write_error and returns.  *)
ReportFailure(t) ==
    /\ failing[t] # None
    /\ Publish(t, failing[t])
    /\ told' = [told EXCEPT ![t] = failing[t]]
    /\ since' = [since EXCEPT ![t] = {}]
    /\ failing' = [failing EXCEPT ![t] = None]

(* The caller drops the failure and goes on: `an error attached and then      *)
(* recovered from'.  What it attached stays until the next attach or report.  *)
Recover(t) ==
    /\ failing[t] # None
    /\ failing' = [failing EXCEPT ![t] = None]
    /\ UNCHANGED <<attached, message, details, report, told, since>>

(* A call is refused before it compiles anything.                             *)
Refuse(t, e) ==
    /\ failing[t] = None
    /\ Publish(t, e)
    /\ told' = [told EXCEPT ![t] = e]
    /\ since' = [since EXCEPT ![t] = {}]
    /\ UNCHANGED failing

Next ==
    \E t \in Threads :
        \/ \E f \in Failures : CompileFails(t, f)
        \/ ReportFailure(t) \/ Recover(t)
        \/ \E e \in ArgumentErrors : Refuse(t, e)

Spec == Init /\ [][Next]_vars

-----------------------------------------------------------------------------
(* A thread's getters describe its last call that failed, whatever it         *)
(* recovered from before: the message is that error's, and when it is a       *)
(* failure the text after it and the typed report are that failure's own and  *)
(* are there exactly when it has them.                                        *)
HostReadsItsLastFailure ==
    \A t \in Threads :
        /\ message[t] = told[t]
        /\ told[t] \in Failures =>
              /\ details[t] = (IF told[t] \in Rendered THEN told[t] ELSE None)
              /\ report[t] = (IF told[t] \in Typed THEN told[t] ELSE None)

(* `They describe one failure and must not leak into the next': an error that *)
(* is not a failure carries diagnostics only if its own message holds the     *)
(* summary of a failure recovered from, and then that failure's text and      *)
(* report together.                                                           *)
NoStrayDiagnostics ==
    \A t \in Threads :
        told[t] \notin Failures =>
            \A f \in {details[t], report[t]} \ {None} :
                /\ told[t] # None
                /\ Summary[f] \in Quotes[told[t]]
                /\ details[t] = (IF f \in Rendered THEN f ELSE None)
                /\ report[t] = (IF f \in Typed THEN f ELSE None)

(* `And they are gone, even for a later report of the same summary': what a   *)
(* report publishes was attached since the report before it.                  *)
AttachedForOneReport ==
    \A t \in Threads :
        told'[t] # told[t] => {details'[t], report'[t]} \subseteq since[t] \cup {None}

(* A pointer a host reads on one thread stays valid while the calls of other  *)
(* threads fail: a step of another thread's call leaves the cells alone.      *)
PointersOutliveOtherThreads ==
    \A t, u \in Threads :
        t # u /\ <<attached[u], failing[u], told[u]>>' # <<attached[u], failing[u], told[u]>>
            => /\ message'[t] = message[t]
               /\ details'[t] = details[t]
               /\ report'[t] = report[t]
=============================================================================
