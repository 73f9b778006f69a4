------------------------------- MODULE FrontEnd -------------------------------
(* Two components of the front end, the imports of the parser and the types   *)
(* of recursive groups.  Each works on programs of its own, so one            *)
(* specification explores them side by side: `part' says which one a          *)
(* behaviour is about.  While the imports are explored the types, which this  *)
(* module extends, rest in a first state; the variables of the imports are    *)
(* Off while the types are.                                                   *)
EXTENDS RecursiveTypes, Sequences, SequencesExt

CONSTANTS
    Locators, Urls, Nowhere, Worlds, MaxDepth,   \* imports
    RestProgram,     \* the types' program while the imports are explored
    Off              \* of a variable at rest

VARIABLES
    part,
    world, stack, scopes, active, edges, used, cached, fetched, environments, result

typeVars == <<program, current, ageMin, ageMax, progress, env, stale>>
importVars ==
    <<world, stack, scopes, active, edges, used, cached, fetched, environments, result>>
frontEndVars == <<part, typeVars, importVars>>

Imports == INSTANCE ImportExpander

ASSUME FrontEndAssumption == Imports!LocatorsAssumption /\ Imports!WorldsAssumption

-----------------------------------------------------------------------------
TypesRest == program = RestProgram /\ Jacobi!Init /\ env = <<>> /\ stale = Groups

ImportsOff ==
    /\ world = Off /\ stack = Off /\ scopes = Off /\ active = Off /\ edges = Off
    /\ used = Off /\ cached = Off /\ fetched = Off /\ environments = Off /\ result = Off

FrontEndInit ==
    \/ part = "imports" /\ Imports!Init /\ TypesRest
    \/ part = "types" /\ Init /\ ImportsOff

FrontEndNext ==
    \/ part = "imports" /\ Imports!Next /\ UNCHANGED <<part, typeVars>>
    \/ part = "types" /\ Pass /\ UNCHANGED <<part, importVars>>

FrontEndSpec == FrontEndInit /\ [][FrontEndNext]_frontEndVars

-----------------------------------------------------------------------------
(* However sources share, repeat and redirect their imports, an expansion     *)
(* holds the definitions of every source it reaches once; the sources used    *)
(* are those reached; a cycle reported is one and, where no locator           *)
(* redirects, none is missed; nothing is fetched twice.                       *)
ImportsAreExpandedOnce ==
    part = "imports" =>
        /\ Imports!TypeOK
        /\ Imports!EachSourceOnce
        /\ Imports!UsedSourcesAreReached
        /\ Imports!ReportedCycleIsOne
        /\ Imports!CyclesAreRefused
        /\ Imports!FetchedOnce
=============================================================================
