--------------------------- MODULE ImportExpander ---------------------------
(***************************************************************************)
(* The structural import expander of the parser                            *)
(* (crates/parser/src/lib.rs, StructuralImportExpander).  A source is      *)
(* parsed into a list of definitions, some of which are import directives; *)
(* each directive is replaced, in place, by the expanded definitions of    *)
(* the source it names.  A source is expanded once per scope: the          *)
(* top-level lists share one scope, each local environment opens its own.  *)
(* Remote sources may redirect: a locator is asked for, another answers.   *)
(*                                                                         *)
(* The recursion of the code is a stack of frames, one per list that is    *)
(* being expanded; a step treats one definition of the innermost list.     *)
(***************************************************************************)
EXTENDS Naturals, Sequences, FiniteSets, SequencesExt

CONSTANTS
    Locators,    \* canonical source locators
    Urls,        \* those that are fetched
    Nowhere,     \* what a name that resolves to nothing resolves to
    Worlds,      \* [content, redirect, entry]: the sources of a compilation
    MaxDepth     \* bound on the frames of the stack

VARIABLES
    world,       \* the sources: their definitions and where a locator leads
    stack,       \* lists being expanded: [file, kind, rest, out]
    scopes,      \* expanded_in_scope of each scope being expanded
    active,      \* active_paths; active_stack is the set of its elements
    edges,       \* import_edges between the active sources: <<from, to>>
    used,        \* used_sources, in the order of the first visits
    cached,      \* requested and final URLs in the reader's remote_cache
    fetched,     \* the URLs that were asked of the fetcher, in order
    environments,\* expanded lists of local environments: [file, defs, out]
    result       \* [kind, cycle, out]: how the expansion ended

vars == <<world, stack, scopes, active, edges, used, cached, fetched,
          environments, result>>

\* The definitions of a parsed source: its own, which stand for all of them,
\* import directives, and definitions that open a local environment.
Own == [kind |-> "own", to |-> Nowhere, defs |-> <<>>]
Import(l) == [kind |-> "import", to |-> l, defs |-> <<>>]
Local(ds) == [kind |-> "local", to |-> Nowhere, defs |-> ds]

\* The directives of a program with these sources, and its definitions.  An
\* environment is given by its directives: it holds no other environment.
Directives(sources) ==
    [kind : {"import"}, to : sources \cup {Nowhere}, defs : {<<>>}]

Definitions(sources) ==
    {Own} \cup Directives(sources)
          \cup [kind : {"local"}, to : {Nowhere}, defs : Seq(Directives(sources))]

LocatorsAssumption ==
    /\ IsFiniteSet(Locators) /\ Urls \subseteq Locators /\ Nowhere \notin Locators
    /\ MaxDepth \in Nat

\* A locator that answers for another answers for itself, as the reader's cache
\* makes it, and only what is fetched redirects.  Every source has definitions
\* of its own.
WorldsAssumption ==
    \A w \in Worlds :
        LET sources == DOMAIN w.content IN
        /\ sources \subseteq Locators /\ w.entry \in sources
        /\ w.content \in [sources -> Seq(Definitions(sources))]
        /\ w.redirect \in [sources -> sources]
        /\ \A l \in sources :
              /\ w.redirect[w.redirect[l]] = w.redirect[l]
              /\ IF l \in Urls THEN w.redirect[l] \in Urls ELSE w.redirect[l] = l
        /\ \A f \in sources :
              \E i \in DOMAIN w.content[f] :
                 \A j \in DOMAIN w.content[f] : w.content[f][j] = Own <=> j = i

Final(l) == world.redirect[l]
Frame(file, kind, rest) == [file |-> file, kind |-> kind, rest |-> rest, out |-> <<>>]
Running == [kind |-> "running", cycle |-> <<>>, out |-> <<>>]
Failed(kind, cycle) == [kind |-> kind, cycle |-> cycle, out |-> <<>>]

\* What reading the locator l asks of the fetcher.
Asked(l) == IF l \in Urls \ cached THEN <<l>> ELSE <<>>

\* Mutant of CacheEntries: a fetched source is kept under its final URL only.
CacheEntriesFinalOnly(l) == IF l \in Urls THEN {Final(l)} ELSE {}

CacheEntries(l) == IF l \in Urls THEN {l, Final(l)} ELSE {}

\* Mutant of FirstVisit: the locator that was asked for is noted.
FirstVisitRequested(requested) ==
    IF requested \in ToSet(used) THEN used ELSE Append(used, requested)

\* Mutant of FirstVisit: every visit is noted.
FirstVisitEach(requested) == Append(used, Final(requested))

FirstVisit(requested) ==
    IF Final(requested) \in ToSet(used) THEN used
    ELSE Append(used, Final(requested))

Init ==
    /\ world \in Worlds
    /\ LET entry == Final(world.entry) IN
       /\ stack = <<Frame(entry, "entry", world.content[entry])>>
       /\ scopes = <<{}>>
       /\ active = <<entry>>
       /\ used = <<entry>>
    /\ edges = <<>>
    /\ cached = CacheEntries(world.entry)
    /\ fetched = IF world.entry \in Urls THEN <<world.entry>> ELSE <<>>
    /\ environments = {}
    /\ result = Running

Top == Last(stack)
Item == Head(Top.rest)
Advanced == [Top EXCEPT !.rest = Tail(@)]
OnTop(frame) == Append(Front(stack), frame)

\* Mutant of CycleFrom: the closing edge is forgotten.
CycleFromOpen(repeated, closing) ==
    SubSeq(edges, SelectInSeq(active, LAMBDA l : l = repeated), Len(edges))

\* The active edges from the repeated source on, and the one that closes it.
CycleFrom(repeated, closing) ==
    SubSeq(edges, SelectInSeq(active, LAMBDA l : l = repeated), Len(edges))
        \o <<closing>>

At(kind) == result.kind = "running" /\ Top.rest # <<>> /\ Item.kind = kind

\* A definition of the source itself: it is kept.
Keep ==
    /\ At("own")
    /\ stack' = OnTop([Advanced EXCEPT !.out = Append(@, Top.file)])
    /\ UNCHANGED <<world, scopes, active, edges, used, cached, fetched,
                   environments, result>>

\* Mutant of LocalScope: a local environment shares the enclosing scope.
LocalScopeShared == Last(scopes)

LocalScope == {}

\* A definition that opens a local environment: its list is expanded in a
\* scope of its own.
EnterEnvironment ==
    /\ At("local")
    /\ Len(stack) < MaxDepth
    /\ stack' = Append(stack, Frame(Top.file, "local", Item.defs))
    /\ scopes' = Append(scopes, LocalScope)
    /\ UNCHANGED <<world, active, edges, used, cached, fetched, environments,
                   result>>

LeaveEnvironment ==
    /\ result.kind = "running" /\ Top.kind = "local" /\ Top.rest = <<>>
    /\ LET outer == stack[Len(stack) - 1] IN
       stack' = Append(Front(Front(stack)), [outer EXCEPT !.rest = Tail(@)])
    /\ scopes' = Front(scopes)
    /\ environments' = environments \cup
         {[file |-> Top.file, defs |-> Head(stack[Len(stack) - 1].rest).defs,
           out |-> Top.out]}
    /\ UNCHANGED <<world, active, edges, used, cached, fetched, result>>

\* An import that resolves to nothing: the expansion fails.  (Here and in the
\* steps below, the current source is read again to find where the directive
\* is.)
Unresolved ==
    /\ At("import") /\ Item.to = Nowhere
    /\ fetched' = fetched \o Asked(Top.file)
    /\ cached' = cached \cup CacheEntries(Top.file)
    /\ result' = Failed("unresolved", <<>>)
    /\ UNCHANGED <<world, stack, scopes, active, edges, used, environments>>

IsActive(l) == l \in ToSet(active)

\* An import of a source that is being expanded: an import cycle.
Cyclic ==
    /\ At("import") /\ IsActive(Item.to)
    /\ fetched' = fetched \o Asked(Top.file)
    /\ cached' = cached \cup CacheEntries(Top.file)
    /\ result' = Failed("cycle", CycleFrom(Item.to, <<Top.file, Item.to>>))
    /\ UNCHANGED <<world, stack, scopes, active, edges, used, environments>>

Resolved == At("import") /\ Item.to # Nowhere /\ ~IsActive(Item.to)

\* An import of a source that this scope has already: nothing is added.
Repeated ==
    /\ Resolved /\ Item.to \in Last(scopes)
    /\ fetched' = fetched \o Asked(Top.file)
    /\ cached' = cached \cup CacheEntries(Top.file)
    /\ stack' = OnTop(Advanced)
    /\ UNCHANGED <<world, scopes, active, edges, used, environments, result>>

\* What expanded_in_scope is given for an import of l.
Reserved(l) == {l, Final(l)}

\* The other imports read the source.
Reads ==
    /\ Resolved /\ Item.to \notin Last(scopes)
    /\ fetched' = fetched \o Asked(Top.file)
                          \o IF Item.to = Top.file THEN <<>> ELSE Asked(Item.to)
    /\ UNCHANGED world

\* The fetch of a remote source fails, and the expansion with it.
FetchFails ==
    /\ Reads
    /\ Item.to \in Urls \ cached
    /\ cached' = cached \cup CacheEntries(Top.file)
    /\ result' = Failed("fetch", <<>>)
    /\ UNCHANGED <<stack, scopes, active, edges, used, environments>>

ReadsWell ==
    /\ Reads
    /\ cached' = cached \cup CacheEntries(Top.file) \cup CacheEntries(Item.to)

\* Mutant of KnownUnderFinal: a redirect to an expanded source is not noticed.
KnownUnderFinalNever(l) == FALSE

\* The import is another name of a source that the scope has.
KnownUnderFinal(l) == Final(l) # l /\ Final(l) \in Last(scopes)

Alias ==
    /\ ReadsWell
    /\ KnownUnderFinal(Item.to)
    /\ scopes' = Append(Front(scopes), Last(scopes) \cup Reserved(Item.to))
    /\ stack' = OnTop(Advanced)
    /\ UNCHANGED <<active, edges, used, environments, result>>

\* A redirect leads to a source that is being expanded.
CyclicAlias ==
    /\ ReadsWell
    /\ ~KnownUnderFinal(Item.to) /\ IsActive(Final(Item.to))
    /\ result' = Failed("cycle",
                        CycleFrom(Final(Item.to), <<Top.file, Final(Item.to)>>))
    /\ scopes' = Append(Front(scopes), Last(scopes) \cup Reserved(Item.to))
    /\ UNCHANGED <<stack, active, edges, used, environments>>

\* The source is parsed and its list expanded before the import's own list
\* goes on.
Enter ==
    /\ ReadsWell
    /\ ~KnownUnderFinal(Item.to) /\ ~IsActive(Final(Item.to))
    /\ Len(stack) < MaxDepth
    /\ LET final == Final(Item.to) IN
       /\ stack' = Append(stack, Frame(final, "import", world.content[final]))
       /\ scopes' = Append(Front(scopes), Last(scopes) \cup Reserved(Item.to))
       /\ active' = Append(active, final)
       /\ edges' = Append(edges, <<Top.file, final>>)
       /\ used' = FirstVisit(Item.to)
    /\ UNCHANGED <<environments, result>>

\* The imported definitions replace the directive.
Return ==
    /\ result.kind = "running" /\ Top.kind = "import" /\ Top.rest = <<>>
    /\ LET outer == stack[Len(stack) - 1] IN
       stack' = Append(Front(Front(stack)),
                       [outer EXCEPT !.rest = Tail(@), !.out = @ \o Top.out])
    /\ active' = Front(active)
    /\ edges' = Front(edges)
    /\ UNCHANGED <<world, scopes, used, cached, fetched, environments, result>>

Finish ==
    /\ result.kind = "running" /\ Top.kind = "entry" /\ Top.rest = <<>>
    /\ result' = [kind |-> "ok", cycle |-> <<>>, out |-> Top.out]
    /\ UNCHANGED <<world, stack, scopes, active, edges, used, cached, fetched,
                   environments>>

Next ==
    \/ Keep \/ EnterEnvironment \/ LeaveEnvironment
    \/ Unresolved \/ Cyclic \/ Repeated
    \/ FetchFails \/ Alias \/ CyclicAlias \/ Enter
    \/ Return \/ Finish

Spec == Init /\ [][Next]_vars

-----------------------------------------------------------------------------
Sources == DOMAIN world.content

\* The sources that a list imports directly, and those a source imports, from
\* its list and anywhere in it, local environments included.
Imported(defs) == {Final(d.to) : d \in {e \in ToSet(defs) : e.kind = "import"
                                                            /\ e.to # Nowhere}}

ImportedAnywhere(defs) ==
    Imported(defs) \cup UNION {Imported(d.defs) : d \in {e \in ToSet(defs) : e.kind = "local"}}

TopImports == [f \in Sources |-> Imported(world.content[f])]
AllImports == [f \in Sources |-> ImportedAnywhere(world.content[f])]

\* The sources reached from the set S in at least zero steps: those of every
\* set that holds S and what its members import.
Closure(S, imports) ==
    {l \in Sources : \A T \in SUBSET Sources :
        S \subseteq T /\ (\A f \in T : imports[f] \subseteq T) => l \in T}

Entry == Final(world.entry)
Reachable == Closure({Entry}, AllImports)
OnCycle(f) == f \in Closure(AllImports[f], AllImports)

\* The place in active of the source that the list of frame i is in.
Level(i) == Cardinality({j \in 1..i : stack[j].kind # "local"})

\* The shape of the state: one scope per environment that is open, the
\* active sources are those of the frames, and the depth is that of a
\* chain of distinct sources, so that the bound on the stack is never met.
TypeOK ==
    /\ \A i \in 1..Len(stack) :
          /\ stack[i].kind \in {"entry", "import", "local"}
          /\ stack[i].kind = "entry" <=> i = 1
          /\ active[Level(i)] = stack[i].file
    /\ Len(active) = Level(Len(stack))
    /\ Len(scopes) = 1 + (Len(stack) - Level(Len(stack)))
    /\ \A k \in 1..Len(scopes) : scopes[k] \subseteq Locators
    /\ Len(edges) + 1 = Len(active)
    /\ cached \subseteq Urls
    /\ Len(stack) <= 2 * Cardinality(Locators)

\* An expanded list holds the definitions of every source it imports,
\* directly or through other sources, and of each exactly once: neither an
\* import that two sources share, nor a redirect, nor an environment that
\* imports what the scope around it has, drops or repeats definitions.
IsExpansion(out, sources) == IsInjective(out) /\ ToSet(out) = sources

EachSourceOnce ==
    /\ result.kind = "ok" => IsExpansion(result.out, Closure({Entry}, TopImports))
    /\ \A e \in environments :
         IsExpansion(e.out, Closure(Imported(e.defs), TopImports))

\* The sources reported as used, from which dependency files are made, are
\* the ones the program reaches, each once, under the locator that answered.
UsedSourcesAreReached ==
    /\ IsInjective(used)
    /\ ToSet(used) \subseteq Reachable
    /\ result.kind = "ok" => ToSet(used) = Reachable

\* An import cycle is reported only for a chain of imports that starts and
\* ends at one source, each import of which is in the text of its source.
ReportedCycleIsOne ==
    result.kind = "cycle" =>
        LET c == result.cycle IN
        /\ c # <<>> /\ c[1][1] = Last(c)[2]
        /\ \A i \in 1..Len(c) :
             /\ c[i][1] \in Sources /\ c[i][2] \in AllImports[c[i][1]]
             /\ i < Len(c) => c[i][2] = c[i + 1][1]

\* No URL is fetched that was asked for before, nor one that answered before:
\* two imports of it see one text.
FetchedOnce ==
    \A i, j \in 1..Len(fetched) :
        i < j => fetched[j] \notin {fetched[i], Final(fetched[i])}

\* Where no locator redirects, a program whose sources import each other in a
\* cycle is refused: an expansion that succeeds met none.
CyclesAreRefused ==
    result.kind = "ok" /\ (\A l \in Sources : Final(l) = l) =>
        \A f \in Reachable : ~OnCycle(f)
=============================================================================
