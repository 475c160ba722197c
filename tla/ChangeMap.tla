------------------------------ MODULE ChangeMap -----------------------------
(***************************************************************************)
(* The map of a change that the agent is shown before its first turn       *)
(* (agent/changemap.py): the definitions the diff changes, where files     *)
(* outside the diff mention them, which of these import a changed module,  *)
(* and which of those are tests.                                           *)
(***************************************************************************)
EXTENDS Integers, SequencesExt

CONSTANTS
    Names,           \* parts of the names of modules and definitions
    Repositories,    \* the checkouts a map is made of
    MaxFilesScanned, \* MAX_FILES_SCANNED
    MaxSymbols,      \* MAX_SYMBOLS
    MaxRefs,         \* MAX_REFS_PER_SYMBOL
    MaxImporters,    \* MAX_IMPORTERS
    MaxTests         \* MAX_TESTS

ASSUME LimitsAssumption ==
    {MaxFilesScanned, MaxSymbols, MaxRefs, MaxImporters, MaxTests} \subseteq Nat

(* A definition, or a block that is none: an if, a try.  Its name is the   *)
(* qualified one; its lines are first..last, its decorators are above.     *)
Node == [defines : BOOLEAN, name : Seq(Names) \ {<<>>}, first : Nat, last : Nat]

(* `import m` is an import of no names from m.                             *)
Import == [level : Nat, base : Seq(Names), names : SUBSET Names]

(* A Python file has a package, and a stem unless it is the package's      *)
(* __init__.  `changed` files are in the diff, with `hunks`, as sets of    *)
(* lines, and nodes; of the others it matters what they import and mention.*)
File == [package : Seq(Names), stem : Names, init : BOOLEAN,
         changed : BOOLEAN, test : BOOLEAN, parses : BOOLEAN,
         hunks : SUBSET Nat, nodes : SUBSET Node,
         imports : Seq(Import), mentions : Seq(Names)]

(* What is inside a definition or a block begins on a later line.          *)
Inside(m, n) == n.first < m.first /\ m.last <= n.last

(* Two nodes of a file share no line, or one is inside the other.          *)
Nested(nodes) ==
    /\ IsFiniteSet(nodes)
    /\ \A n \in nodes : n.first <= n.last
    /\ \A m, n \in nodes : m = n \/ Inside(m, n) \/ Inside(n, m)
                              \/ m.last < n.first \/ n.last < m.first

ASSUME RepositoriesAssumption ==
    \A files \in Repositories :
        files \in Seq(File) /\ \A f \in DOMAIN files : Nested(files[f].nodes)

VARIABLES
    at,       \* the step that is next
    repo,     \* the Python files of the checkout, in the order of their paths
    symbols,  \* the changed definitions
    unparsed, \* changed files that do not parse
    scanned,  \* the files looked at for mentions and imports
    mentions, \* mentions found outside the diff: file, place in it, name
    imports,  \* imports found of changed modules: file, place in it
    map       \* what is reported

vars == <<at, repo, symbols, unparsed, scanned, mentions, imports, map>>

Changed == {f \in DOMAIN repo : repo[f].changed}

ModuleName(file) ==
    IF file.init THEN file.package ELSE Append(file.package, file.stem)

Modules == {ModuleName(repo[f]) : f \in Changed} \ {<<>>}

Empty == [symbols |-> <<>>, importers |-> <<>>, tests |-> <<>>]

Cut(list, limit) == SubSeq(list, 1, Min({limit, Len(list)}))

(* Tuples that begin with a file and a place in it, in this order.         *)
Before(r, s) == r[1] < s[1] \/ (r[1] = s[1] /\ r[2] < s[2])

Below(refs, r) == {s \in refs : Before(s, r)}

Sorted(refs) ==
    [i \in 1..Cardinality(refs) |->
        CHOOSE r \in refs : Cardinality(Below(refs, r)) = i - 1]

-----------------------------------------------------------------------------
(* Changed definitions *)

Symbol(f, node) == <<f, node.first, node.last, node.name>>

Overlaps(node, changed) == (node.first..node.last) \cap changed # {}

(* The definitions that overlap a hunk and are not inside of a block.      *)
Touched(nodes, changed) ==
    {n \in nodes : \A m \in nodes :
        m = n \/ Inside(n, m) => m.defines /\ Overlaps(m, changed)}

Innermost(nodes) == {n \in nodes : ~\E m \in nodes : Inside(m, n)}

(* Bug: a definition is reported beside those inside it. *)
EveryOverlap(f, nodes, changed) ==
    {Symbol(f, node) : node \in Touched(nodes, changed)}

(* Bug: a definition is changed where its first line is. *)
FirstLineChanged(f, nodes, changed) ==
    {Symbol(f, node) : node \in
        Innermost({n \in nodes : n.defines /\ n.first \in changed})}

Intersecting(f, nodes, changed) ==
    {Symbol(f, node) : node \in Innermost(Touched(nodes, changed))}

FindSymbols ==
    /\ at = "symbols" /\ at' = "scan"
    /\ LET touched == {f \in Changed : repo[f].hunks # {}}
       IN /\ unparsed' = {f \in touched : ~repo[f].parses}
          /\ symbols' = Sorted(UNION {Intersecting(f, repo[f].nodes, repo[f].hunks) :
                                          f \in touched \ unparsed'})
    /\ UNCHANGED <<repo, scanned, mentions, imports, map>>

-----------------------------------------------------------------------------
(* Mentions and imports *)

(* Bug: a method is looked for by the name of its class. *)
NameOfClass(symbol) == Head(symbol[4])

(* Mentions are of names without what they are inside of. *)
Name(symbol) == Last(symbol[4])

(* _touches: an import of a changed module, or of what is inside it.       *)
Touches(module) ==
    module # <<>> /\ \E changed \in Modules : IsPrefix(changed, module)

Drop(module, n) == SubSeq(module, 1, Len(module) - n)

(* Bug: names imported from a package are not looked at. *)
ImportsBase(file, import) ==
    Touches(IF import.level = 0 THEN import.base
            ELSE Drop(Front(ModuleName(file)), import.level - 1) \o import.base)

(* A relative import is resolved against all but the last part of the      *)
(* file's module, be the file its package's __init__ or not.               *)
ImportsChanged(file, import) ==
    LET package == IF ModuleName(file) = <<>> THEN <<>> ELSE Front(ModuleName(file))
        above == Min({import.level - 1, Len(package)})
        base == IF import.level = 0 THEN import.base
                ELSE Drop(package, above) \o import.base
    IN Touches(base) \/ \E name \in import.names : Touches(Append(base, name))

(* Bug: files in the diff are looked at too. *)
ScanAll ==
    /\ at = "scan" /\ scanned < Min({MaxFilesScanned, Len(repo)})
    /\ scanned' = scanned + 1
    /\ LET file == repo[scanned']
           names == {Name(symbols[s]) : s \in DOMAIN symbols}
           named == {i \in DOMAIN file.mentions : file.mentions[i] \in names}
       IN mentions' = mentions \cup {<<scanned', i, file.mentions[i]>> : i \in named}
    /\ UNCHANGED <<at, repo, symbols, unparsed, imports, map>>

(* The next file.  Changed files count among those that may be scanned.    *)
Scan ==
    /\ at = "scan" /\ scanned < Min({MaxFilesScanned, Len(repo)})
    /\ scanned' = scanned + 1
    /\ LET file == repo[scanned']
           looked == ~file.changed /\ file.parses
           names == {Name(symbols[s]) : s \in DOMAIN symbols}
           named == {i \in DOMAIN file.mentions : file.mentions[i] \in names}
           touching == {i \in DOMAIN file.imports :
                            ImportsChanged(file, file.imports[i])}
       IN /\ mentions' = mentions \cup
                {<<scanned', i, file.mentions[i]>> : i \in IF looked THEN named ELSE {}}
          /\ imports' = imports \cup
                {<<scanned', i>> : i \in IF looked THEN touching ELSE {}}
    /\ UNCHANGED <<at, repo, symbols, unparsed, map>>

-----------------------------------------------------------------------------
(* The report *)

Importing == {ref[1] : ref \in imports}

(* Mentions count where the file imports something that is changed.        *)
References(symbol) ==
    Cut(Sorted({ref \in mentions : ref[1] \in Importing /\ ref[3] = Name(symbol)}),
        MaxRefs)

(* Bug: tests are looked for among the importers that are reported. *)
TestsOfImporters ==
    LET listed == Cut(Sorted(imports), MaxImporters)
    IN Cut(Sorted({<<f, 0>> : f \in {g \in {listed[i][1] : i \in DOMAIN listed} :
                                        repo[g].test}}), MaxTests)

(* One line of a test file that imports something changed, an import or a  *)
(* mention, is as good as another.                                         *)
Tests ==
    Cut(Sorted({<<f, 0>> : f \in {g \in Importing : repo[g].test}}), MaxTests)

Report ==
    /\ at = "scan" /\ scanned = Min({MaxFilesScanned, Len(repo)})
    /\ at' = "done"
    /\ map' = [symbols |-> Cut([s \in DOMAIN symbols |->
                                   [symbol |-> symbols[s],
                                    references |-> References(symbols[s])]],
                               MaxSymbols),
               importers |-> Cut(Sorted(imports), MaxImporters),
               tests |-> Tests]
    /\ UNCHANGED <<repo, symbols, unparsed, scanned, mentions, imports>>

-----------------------------------------------------------------------------
Init ==
    /\ at = "symbols"
    /\ repo \in Repositories
    /\ symbols = <<>> /\ unparsed = {}
    /\ scanned = 0 /\ mentions = {} /\ imports = {}
    /\ map = Empty

Next == FindSymbols \/ Scan \/ Report

Spec == Init /\ [][Next]_vars

-----------------------------------------------------------------------------
(* What is collected is of the files it is said to be of. *)
TypeOK ==
    /\ at \in {"symbols", "scan", "done"}
    /\ scanned \in 0..Min({MaxFilesScanned, Len(repo)})
    /\ \A s \in DOMAIN symbols : symbols[s][1] \in Changed \ unparsed
    /\ unparsed \subseteq Changed
    /\ \A ref \in mentions :
          ref[1] \in (1..scanned) \ Changed /\ repo[ref[1]].mentions[ref[2]] = ref[3]
    /\ \A ref \in imports :
          ref[1] \in (1..scanned) \ Changed /\ ref[2] \in DOMAIN repo[ref[1]].imports
    /\ Len(map.importers) <= MaxImporters /\ Len(map.tests) <= MaxTests
    /\ \A s \in DOMAIN map.symbols : Len(map.symbols[s].references) <= MaxRefs

(* What Python imports: the package of an __init__ is the module itself.   *)
PythonModules(file, import) ==
    LET package == IF file.init THEN file.package ELSE Front(ModuleName(file))
        base == IF import.level = 0 THEN import.base
                ELSE Drop(package, import.level - 1) \o import.base
    IN {base} \cup {Append(base, name) : name \in import.names}

PythonImports(file, import) ==
    \E module \in PythonModules(file, import) : Touches(module)

Readable == {f \in 1..scanned : f \notin Changed /\ repo[f].parses}

(* The files that import a changed module are found, and no others         *)
(* (_imports_changed, "resolve against this file's package").  The         *)
(* exception: a relative import in a package's __init__ is resolved        *)
(* against the package above.                                              *)
ImportersAreFound ==
    \A f \in Readable : \A i \in DOMAIN repo[f].imports :
        \/ <<f, i>> \in imports <=> PythonImports(repo[f], repo[f].imports[i])
        \/ repo[f].init /\ repo[f].imports[i].level > 0

(* A symbol said to have "no references outside this diff" has none in the *)
(* files that were scanned and import what is changed, but for the         *)
(* exception above (ChangeMap.render).                                     *)
NoReferencesMeansNone ==
    \A s \in DOMAIN map.symbols :
        map.symbols[s].references = <<>> /\ MaxRefs > 0 =>
            \A f \in Readable :
                Last(map.symbols[s].symbol[4]) \in Range(repo[f].mentions) =>
                    \A import \in Range(repo[f].imports) :
                        PythonImports(repo[f], import)
                            => repo[f].init /\ import.level > 0

(* A line of a definition is not accounted for where the definition has a  *)
(* changed one inside it, or stands in a block.                            *)
Hidden(f, line) ==
    \E node \in repo[f].nodes :
        /\ line \in node.first..node.last
        /\ \/ ~node.defines
           \/ \E inner \in repo[f].nodes :
                 /\ Inside(inner, node) /\ inner.defines
                 /\ Overlaps(inner, repo[f].hunks)

(* A changed line of a definition is in a symbol that is found, or its     *)
(* file is named as unparsed (_intersecting, "innermost definitions").     *)
ChangedLinesAreNamed ==
    at # "symbols" =>
        \A f \in Changed \ unparsed : \A line \in repo[f].hunks :
            (\E node \in repo[f].nodes :
                node.defines /\ line \in node.first..node.last)
            => \/ \E s \in Range(symbols) : s[1] = f /\ line \in s[2]..s[3]
               \/ Hidden(f, line)

(* "Reporting both says the whole class changed when one method did"       *)
(* (_intersecting): no symbol is inside another.                           *)
SymbolsAreApart ==
    \A s, t \in Range(symbols) :
        s # t /\ s[1] = t[1] => (s[2]..s[3]) \cap (t[2]..t[3]) = {}

(* Every test that imports what is changed is reported, up to the limit on *)
(* tests, however many importers come before it (build, "one line per test *)
(* FILE").                                                                 *)
TestsAreReported ==
    at = "done" =>
        LET tests == {f \in Readable : repo[f].test /\ f \in Importing}
        IN /\ Len(map.tests) = Min({MaxTests, Cardinality(tests)})
           /\ \A t \in Range(map.tests) : t[1] \in tests
=============================================================================
